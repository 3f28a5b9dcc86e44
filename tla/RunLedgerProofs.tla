--------------------------- MODULE RunLedgerProofs ---------------------------
(* What the ledger's read-test-update calls guarantee for any number of        *)
(* writers: their types, the retry count, and the done-sentinel of a decided   *)
(* run.                                                                        *)
EXTENDS RunLedger, TLAPS

USE DEF States, ActiveStates, TerminalStates

\* A legal transition ends in a state of the ledger.
LEMMA AcceptsOnlyStates ==
    ASSUME NEW o \in Op, o.call = "markState"
    PROVE  o.to \in States \ {"abandoned"} /\ o.patch \in SUBSET Stamp
BY DEF Op

\* An UPDATE leaves a well-formed row.
LEMMA WrittenIsRow ==
    ASSUME NEW o \in Op, NEW r \in Row, NEW now \in Row
    PROVE  Written(o, r, now) \in Row
<1>1. CASE o.call = "markState"
  <2>1. o.to \in States /\ o.patch \in SUBSET Stamp
    BY <1>1, AcceptsOnlyStates
  <2> QED
    BY <1>1, <2>1 DEF Written, Merged, Row
<1>2. CASE o.call = "patchMeta"
  <2>1. o.patch \in SUBSET Stamp
    BY <1>2 DEF Op
  <2> QED
    BY <1>2, <2>1 DEF Written, Merged, Row
<1>3. CASE o.call = "incrementRetries"
  BY <1>3 DEF Written, RetriesPlusOne, Row
<1>4. CASE o.call \in {"abandon", "none"}
  BY <1>4 DEF Written, Row
<1> QED
  BY <1>1, <1>2, <1>3, <1>4 DEF Op

\* Type correctness of the row, the sentinel and the calls under way.
THEOREM TypeCorrect == Spec => []TypeOK
<1>1. Init => TypeOK
  BY DEF Init, TypeOK, Opened, NoOp, Row, Op
<1>2. TypeOK /\ [Next]_vars => TypeOK'
  <2> SUFFICES ASSUME TypeOK, [Next]_vars PROVE TypeOK'
    OBVIOUS
  <2>0. NoOp \in Op /\ Opened \in Row
    BY DEF NoOp, Op, Opened, Row
  <2>1. ASSUME NEW p \in Proc, NEW o \in Op, Select(p, o) PROVE TypeOK'
    BY <2>1 DEF TypeOK, Select
  <2>2. ASSUME NEW p \in Proc, Update(p) PROVE TypeOK'
    <3>1. row' \in Row
      BY <2>2, WrittenIsRow DEF TypeOK, Update
    <3> QED
      BY <2>0, <2>2, <3>1 DEF TypeOK, Update, Finish
  <2>3. ASSUME NEW p \in Proc, Reread(p) PROVE TypeOK'
    BY <2>0, <2>3 DEF TypeOK, Reread, Finish
  <2>4. ASSUME NEW p \in Proc, WriteSignal(p) PROVE TypeOK'
    <3>1. read[p].state \in States
      BY DEF TypeOK, Row
    <3> QED
      BY <2>0, <2>4, <3>1 DEF TypeOK, WriteSignal, Finish
  <2>5. CASE UNCHANGED vars
    BY <2>5 DEF TypeOK, vars
  <2> QED
    BY <2>1, <2>2, <2>3, <2>4, <2>5 DEF Next
<1> QED
  BY <1>1, <1>2, PTL DEF Spec

-----------------------------------------------------------------------------
\* What an UPDATE does to the count: one more for a counted call, nothing otherwise.
LEMMA WrittenRetries ==
    ASSUME NEW o \in Op, NEW r \in Row, NEW now \in Row
    PROVE  Written(o, r, now).retries =
             IF o.call = "incrementRetries" THEN now.retries + 1 ELSE now.retries
BY DEF Written, RetriesPlusOne, Row, Op

\* The supervisor's budget: the row holds one retry for every counted attempt,
\* however the calls of any number of writers overlap and whoever dies inside one.
THEOREM RetriesAreCounted == Spec => []RetriesCounted
<1>1. Init => RetriesCounted
  BY DEF Init, RetriesCounted, Opened
<1>2. TypeOK /\ RetriesCounted /\ [Next]_vars => RetriesCounted'
  <2> SUFFICES ASSUME TypeOK, RetriesCounted, [Next]_vars PROVE RetriesCounted'
    OBVIOUS
  <2>1. ASSUME NEW p \in Proc, Update(p) PROVE RetriesCounted'
    <3>1. /\ row' = Written(op[p], read[p], row)
          /\ retried' = IF op[p].call = "incrementRetries" THEN retried + 1 ELSE retried
      BY <2>1 DEF Update
    <3>2. op[p] \in Op /\ read[p] \in Row /\ row \in Row
      BY DEF TypeOK
    <3> QED
      BY <3>1, <3>2, WrittenRetries DEF RetriesCounted
  <2>2. ASSUME NEW p \in Proc,
               \/ \E o \in Op : Select(p, o)
               \/ Reread(p) \/ WriteSignal(p)
        PROVE RetriesCounted'
    BY <2>2 DEF RetriesCounted, Select, Reread, WriteSignal
  <2>3. CASE UNCHANGED vars
    BY <2>3 DEF RetriesCounted, vars
  <2> QED
    BY <2>1, <2>2, <2>3 DEF Next
<1> QED
  BY <1>1, <1>2, TypeCorrect, PTL DEF Spec

-----------------------------------------------------------------------------
Decided == {"delivered", "withheld", "failed"}

\* The strengthening: while a decided run has no sentinel yet, the writer that is to
\* leave one is still in its call.
SignalPromised ==
    row.state \in Decided /\ signal = "none" =>
        \E p \in Proc : \/ pc[p] = "signal"
                        \/ pc[p] = "reread" /\ op[p].to \in Decided

LEMMA PromiseKept ==
    TypeOK /\ SignalPromised /\ [Next]_vars => SignalPromised'
<1> SUFFICES ASSUME TypeOK, SignalPromised, [Next]_vars PROVE SignalPromised'
  OBVIOUS
<1>1. ASSUME NEW p \in Proc, NEW o \in Op, Select(p, o) PROVE SignalPromised'
  BY <1>1 DEF SignalPromised, Select, TypeOK
<1>2. ASSUME NEW p \in Proc, Update(p) PROVE SignalPromised'
  <2> DEFINE o == op[p]
  <2>0. o \in Op /\ read[p] \in Row /\ row \in Row /\ row' = Written(o, read[p], row)
    BY <1>2 DEF TypeOK, Update
  <2>1. CASE o.call = "markState"
    <3>1. row'.state = o.to /\ pc'[p] = "reread" /\ op' = op
      BY <1>2, <2>0, <2>1 DEF Update, Written, Row, TypeOK
    <3> QED
      BY <3>1 DEF SignalPromised
  <2>2. CASE o.call # "markState"
    <3>1. row'.state = row.state \/ row'.state = "abandoned"
      BY <2>0, <2>2 DEF Written, Row
    <3>2. signal' = signal /\ pc[p] = "update" /\ Finish(p)
      BY <1>2, <2>2 DEF Update
    <3>3. \A q \in Proc \ {p} : pc'[q] = pc[q] /\ op'[q] = op[q]
      BY <3>2 DEF Finish, TypeOK
    <3> QED
      BY <3>1, <3>2, <3>3 DEF SignalPromised, Decided
  <2> QED
    BY <2>1, <2>2
<1>3. ASSUME NEW p \in Proc, Reread(p) PROVE SignalPromised'
  <2>1. CASE Signals(op[p].to, row)
    BY <1>3, <2>1 DEF Reread, SignalPromised, TypeOK
  <2>2. CASE ~Signals(op[p].to, row)
    <3>1. op[p].to \notin Decided
      BY <2>2 DEF Signals, Decided
    <3>2. pc[p] = "reread" /\ Finish(p) /\ UNCHANGED <<row, signal>>
      BY <1>3, <2>2 DEF Reread
    <3>3. \A q \in Proc \ {p} : pc'[q] = pc[q] /\ op'[q] = op[q]
      BY <3>2 DEF Finish, TypeOK
    <3> QED
      BY <3>1, <3>2, <3>3 DEF SignalPromised
  <2> QED
    BY <2>1, <2>2
<1>4. ASSUME NEW p \in Proc, WriteSignal(p) PROVE SignalPromised'
  <2>1. signal' # "none"
    BY <1>4 DEF WriteSignal, TypeOK, Row
  <2> QED
    BY <2>1 DEF SignalPromised
<1>5. CASE UNCHANGED vars
  BY <1>5 DEF SignalPromised, vars
<1> QED
  BY <1>1, <1>2, <1>3, <1>4, <1>5 DEF Next

\* Whoever waits for the sentinel of a run is answered: with all writers through,
\* a run that was delivered, withheld or failed has one, whichever of the calls that
\* raced for the row came last.
THEOREM DecidedSignalled == Spec => []DecidedIsSignalled
<1>1. Init => SignalPromised
  BY DEF Init, SignalPromised, Opened, Decided
<1>2. TypeOK /\ SignalPromised /\ [Next]_vars => SignalPromised'
  BY PromiseKept
<1>3. SignalPromised => DecidedIsSignalled
  BY DEF SignalPromised, DecidedIsSignalled, AllIdle, Decided
<1> QED
  BY <1>1, <1>2, <1>3, TypeCorrect, PTL DEF Spec
=============================================================================
