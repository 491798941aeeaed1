---------------------------- MODULE PoolUseProofs ----------------------------
(* Proofs about PoolUse: its two users keep to the protocol of leases, so     *)
(* what is proved of the pool holds of them; no two attempts of a step on an  *)
(* input share a draw; the trace adds up against the bill; and the row of the *)
(* baseline is what happened.                                                 *)
EXTENDS PoolUse, GpuPoolProofs

uvars == <<pvars, avars, bvars, user>>

-----------------------------------------------------------------------------
(* Runners and requests are tasks that lease                                  *)

\* What a runner does in one turn is a turn of a task that leases, or is
\* nothing to the pool.
LEMMA RunnersLease == AttemptsNext => [LeaseNext]_pvars
<1> SUFFICES ASSUME AttemptsNext PROVE [LeaseNext]_pvars
  OBVIOUS
<1>1. CASE started /\ Tick /\ UNCHANGED avars
  BY <1>1 DEF LeaseNext
<1>2. CASE StopRunners
  BY <1>2 DEF StopRunners
<1>3. CASE \E e \in Executions : \/ \E i \in StepInputs : Enqueue(e, i)
                                 \/ CancelExecution(e)
  BY <1>3 DEF Enqueue, CancelExecution
<1>4. ASSUME NEW t \in Tasks,
             \/ RunnerEnters(t) \/ RunnerWarm(t) \/ RunnerTakes(t)
             \/ \E o \in Failures \cup {"ok"} : AttemptEnds(t, o)
             \/ BackoffOver(t) \/ RunnerRetires(t) \/ RunnerCancelled(t)
      PROVE  [LeaseNext]_pvars
  <2>1. CASE RunnerEnters(t)
    BY <2>1 DEF RunnerEnters, LeaseNext
  <2>2. CASE RunnerWarm(t)
    BY <2>2 DEF RunnerWarm, LeaseNext
  <2>3. CASE RunnerTakes(t)
    BY <2>3 DEF RunnerTakes, LeaseNext
  <2>4. ASSUME NEW o, AttemptEnds(t, o) PROVE [LeaseNext]_pvars
    BY <2>4 DEF AttemptEnds, LeaseNext
  <2>5. CASE BackoffOver(t)
    BY <2>5 DEF BackoffOver, LeaseNext
  <2>6. CASE RunnerRetires(t)
    BY <2>6 DEF RunnerRetires, LeaseNext
  <2>7. CASE RunnerCancelled(t)
    BY <2>7 DEF RunnerCancelled, LeaseNext
  <2> QED
    BY <1>4, <2>1, <2>2, <2>3, <2>4, <2>5, <2>6, <2>7
<1> QED
  BY <1>1, <1>2, <1>3, <1>4 DEF AttemptsNext

\* So is what a request of the baseline does.
LEMMA RequestsLease == BaselineNext => [LeaseNext]_pvars
<1> SUFFICES ASSUME BaselineNext PROVE [LeaseNext]_pvars
  OBVIOUS
<1>1. CASE Tick /\ UNCHANGED bvars
  BY <1>1 DEF LeaseNext
<1>2. ASSUME NEW t \in Tasks,
             Arrives(t) \/ CpuStepEnds(t) \/ RequestWarm(t) \/ GpuStepEnds(t)
      PROVE  [LeaseNext]_pvars
  <2>1. CASE Arrives(t)
    BY <2>1 DEF Arrives
  <2>2. CASE CpuStepEnds(t)
    BY <2>2 DEF CpuStepEnds, LeaseNext
  <2>3. CASE RequestWarm(t)
    BY <2>3 DEF RequestWarm, LeaseNext
  <2>4. CASE GpuStepEnds(t)
    BY <2>4 DEF GpuStepEnds, LeaseNext
  <2> QED
    BY <1>2, <2>1, <2>2, <2>3, <2>4
<1> QED
  BY <1>1, <1>2 DEF BaselineNext

(* The scheduler's runners and the baseline implement the protocol of leases: *)
(* each is seen by the pool as tasks that acquire, warm, run, cool and        *)
(* release in the order LeaseSpec allows.                                     *)
THEOREM UsersKeepToLeases == Spec => LeaseSpec
<1>1. Init => PoolInit
  BY DEF Init
<1>2. [Next]_uvars => [LeaseNext]_pvars
  BY RunnersLease, RequestsLease DEF Next, uvars
<1> QED
  BY <1>1, <1>2, PTL DEF Spec, LeaseSpec, uvars

\* The variables of the pool keep their types, whoever uses it.
THEOREM PoolTypeCorrect == Spec => []PoolTypeOK
<1>1. PInv => PoolTypeOK
  BY DEF PInv
<1> QED
  BY <1>1, UsersKeepToLeases, PoolInvariance, PTL

\* The pool bills its users' warm time, and nothing else.
THEOREM UsersBillWarmTime == Spec => []BillIsWarmTime
  BY UsersKeepToLeases, BillAlwaysWarmTime, PTL

\* A worker that its user gives back has been cooled.
THEOREM UsersCloseTheBill == Spec => []LeaseClosesBill
  BY UsersKeepToLeases, LeaseAlwaysClosesBill, PTL

\* No user runs a step on a worker that is cold or not its own.
THEOREM UsersNeverRaise == Spec => []RunNeverRaises
  BY UsersKeepToLeases, RunNeverEverRaises, PTL

\* No user runs a first step on a worker without having waited for its cold start.
THEOREM UsersPayColdStarts == Spec => ColdStartPaid
  BY UsersKeepToLeases, ColdStartAlwaysPaid, PTL

-----------------------------------------------------------------------------
(* The attempt ledger                                                         *)

AttemptSpan == [attempt : Nat, start : Nat, end : Nat \cup {NoTime},
                outcome : Outcomes \cup {"running"}]

StepRun == [input : StepInputs \cup {"none"},
            state : {"none", "queued", "running", "backoff", "done"},
            cancelled : BOOLEAN, wake : Nat, spans : Seq(AttemptSpan)]

AttemptsTypeOK ==
  /\ ledger \in [StepInputs -> Nat]
  /\ execution \in [Executions -> StepRun]
  /\ line \in Seq(Executions)
  /\ serving \in [Tasks -> Executions \cup {NoExecution}]

\* In records x, item e has its input from before its first attempt on.
HasInput(x, e) == x[e].state # "none" /\ x[e].input \in StepInputs

\* An item that waits or is served has its input, one that is unused no span.
Placed ==
  /\ \A e \in Executions : \/ HasInput(execution, e)
                           \/ execution[e].state = "none" /\ execution[e].spans = <<>>
  /\ \A n \in 1 .. Len(line) : HasInput(execution, line[n])
  /\ \A t \in Tasks : serving[t] # NoExecution => HasInput(execution, serving[t])

\* For records x and ledger l: a number that was given out lies below the
\* count of its step and input, and none is given out twice on an input.
Counted(x, l) ==
  \A e \in Executions : \A m \in 1 .. Len(x[e].spans) :
    x[e].spans[m].attempt < l[x[e].input]

Distinct(x) ==
  \A d, e \in Executions : \A k \in 1 .. Len(x[d].spans), m \in 1 .. Len(x[e].spans) :
    x[d].input = x[e].input /\ (d # e \/ k # m)
      => x[d].spans[k].attempt # x[e].spans[m].attempt

(* FreshDraws alone is not inductive: the next number is fresh because all    *)
(* numbers given out on that input lie below it, and an item has its input    *)
(* from before its first attempt on.                                          *)
AInv == AttemptsTypeOK /\ Placed /\ Counted(execution, ledger) /\ Distinct(execution)

\* Two spans have two positions.
LEMMA DistinctFresh == Distinct(execution) => FreshDraws
<1> SUFFICES ASSUME Distinct(execution), NEW p \in Spans, NEW q \in Spans,
                    p # q, InputAt(p) = InputAt(q)
             PROVE  SpanAt(p).attempt # SpanAt(q).attempt
  BY DEF FreshDraws
<1>1. PICK d \in Executions : \E k \in 1 .. Len(execution[d].spans) : p = <<d, k>>
  BY DEF Spans
<1>2. PICK k \in 1 .. Len(execution[d].spans) : p = <<d, k>>
  BY <1>1
<1>3. PICK e \in Executions : \E m \in 1 .. Len(execution[e].spans) : q = <<e, m>>
  BY DEF Spans
<1>4. PICK m \in 1 .. Len(execution[e].spans) : q = <<e, m>>
  BY <1>3
<1>5. execution[d].input = execution[e].input /\ (d # e \/ k # m)
  BY <1>2, <1>4 DEF InputAt
<1>6. execution[d].spans[k].attempt # execution[e].spans[m].attempt
  BY <1>5 DEF Distinct
<1> QED
  BY <1>2, <1>4, <1>6 DEF SpanAt

\* Record x has the input of r and the numbers of its attempts.
KeepsAttempts(r, x) ==
  /\ x.input = r.input
  /\ Len(x.spans) = Len(r.spans)
  /\ \A m \in 1 .. Len(r.spans) : x.spans[m].attempt = r.spans[m].attempt

\* Closing a span changes no number, and only the end of the last span, if open.
LEMMA ClosedRun ==
  ASSUME now \in Nat, NEW r \in StepRun, NEW o \in Outcomes \cup {"running"}
  PROVE  LET x == Closed(r, o)
         IN  /\ x \in StepRun /\ x.state = r.state
             /\ KeepsAttempts(r, x)
             /\ \A m \in 1 .. Len(r.spans) :
                  /\ x.spans[m].start = r.spans[m].start
                  /\ x.spans[m].end = IF m = Len(r.spans) /\ r.spans[m].end = NoTime
                                      THEN now ELSE r.spans[m].end
<1> DEFINE last == Len(r.spans)
           span(m) == IF m = last /\ r.spans[m].end = NoTime
                      THEN [r.spans[m] EXCEPT !.end = now, !.outcome = o] ELSE r.spans[m]
           spans == [m \in 1 .. last |-> span(m)]
<1>1. r.spans \in Seq(AttemptSpan) /\ last \in Nat /\ DOMAIN r.spans = 1 .. last
  BY DEF StepRun
<1>2. ASSUME NEW m \in 1 .. last
      PROVE  /\ span(m) \in AttemptSpan /\ span(m).attempt = r.spans[m].attempt
             /\ span(m).start = r.spans[m].start
             /\ span(m).end = IF m = last /\ r.spans[m].end = NoTime
                              THEN now ELSE r.spans[m].end
  <2>1. r.spans[m] \in AttemptSpan
    BY <1>1
  <2> QED
    BY <2>1 DEF AttemptSpan
<1> HIDE DEF span
<1>3. spans \in Seq(AttemptSpan) /\ Len(spans) = last
  BY <1>1, <1>2
<1>4. Closed(r, o) = [r EXCEPT !.spans = spans]
  <2> DEFINE end == IF r.spans[last].end = NoTime
                    THEN [r.spans[last] EXCEPT !.end = now, !.outcome = o] ELSE r.spans[last]
  <2>1. Closed(r, o) = [r EXCEPT !.spans = [r.spans EXCEPT ![last] = end]]
    BY DEF Closed, StepRun
  <2>2. \A m \in 1 .. last : span(m) = IF m = last THEN end ELSE r.spans[m]
    BY DEF span
  <2> HIDE DEF end
  <2>3. [r.spans EXCEPT ![last] = end] = spans
    BY <1>1, <2>2
  <2> QED
    BY <2>1, <2>3
<1> HIDE DEF spans
<1>5. Closed(r, o).spans = spans /\ Closed(r, o) \in StepRun
      /\ Closed(r, o).state = r.state /\ Closed(r, o).input = r.input
  BY <1>3, <1>4 DEF StepRun
<1> QED
  BY <1>1, <1>2, <1>3, <1>5 DEF KeepsAttempts, spans

\* A resolved record keeps everything but its state and its flag.
LEMMA ResolvedRun ==
  ASSUME NEW r \in StepRun
  PROVE  /\ Resolved(r) \in StepRun
         /\ Resolved(r).state = "done"
         /\ KeepsAttempts(r, Resolved(r))
  BY DEF Resolved, StepRun, KeepsAttempts

\* An attempt that begins has the next number of its step and input.
LEMMA BegunRun ==
  ASSUME now \in Nat, AttemptsTypeOK, NEW e \in Executions, HasInput(execution, e)
  PROVE  LET r == execution[e]
             x == Begun(e)
             n == Len(r.spans)
         IN  /\ x \in StepRun
             /\ x.state = "running" /\ x.input = r.input
             /\ Len(x.spans) = n + 1
             /\ \A m \in 1 .. n : x.spans[m] = r.spans[m]
             /\ x.spans[n + 1].attempt = ledger[r.input]
             /\ x.spans[n + 1].start = now /\ x.spans[n + 1].end = NoTime
<1> DEFINE r == execution[e]
           new == [attempt |-> NextAttempt(e), start |-> now, end |-> NoTime,
                   outcome |-> "running"]
           spans == Append(r.spans, new)
<1>1. r \in StepRun /\ r.input \in StepInputs
  BY DEF AttemptsTypeOK, HasInput
<1>2. ledger[r.input] \in Nat /\ NextAttempt(e) = ledger[r.input]
  BY <1>1 DEF AttemptsTypeOK, NextAttempt
<1>3. new \in AttemptSpan /\ new.attempt = ledger[r.input] /\ new.start = now /\ new.end = NoTime
  BY <1>2 DEF AttemptSpan
<1> HIDE DEF new
<1>4. r.spans \in Seq(AttemptSpan)
  BY <1>1 DEF StepRun
<1> HIDE DEF r
<1>5. /\ spans \in Seq(AttemptSpan) /\ Len(spans) = Len(r.spans) + 1
      /\ \A m \in 1 .. Len(r.spans) : spans[m] = r.spans[m]
      /\ spans[Len(r.spans) + 1] = new
  BY <1>3, <1>4
<1>6. Begun(e) = [r EXCEPT !.state = "running", !.wake = 0, !.spans = spans]
  BY <1>1 DEF Begun, r, new, StepRun
<1> HIDE DEF spans
<1>7. /\ Begun(e) \in StepRun /\ Begun(e).spans = spans
      /\ Begun(e).state = "running" /\ Begun(e).input = r.input
  <2>1. \A q \in StepRun : \A s \in Seq(AttemptSpan) :
          LET x == [q EXCEPT !.state = "running", !.wake = 0, !.spans = s]
          IN  x \in StepRun /\ x.spans = s /\ x.state = "running" /\ x.input = q.input
    BY DEF StepRun
  <2>2. r \in StepRun /\ spans \in Seq(AttemptSpan)
    BY <1>1, <1>5
  <2>3. LET x == [r EXCEPT !.state = "running", !.wake = 0, !.spans = spans]
        IN  x \in StepRun /\ x.spans = spans /\ x.state = "running" /\ x.input = r.input
    BY <2>1, <2>2
  <2> QED
    BY <1>6, <2>3
<1> QED
  BY <1>3, <1>5, <1>7 DEF r

-----------------------------------------------------------------------------
(* Steps                                                                      *)

\* RemoveFirst gives a sequence of elements of the one it is given, and repeats
\* none that is not repeated there.
LEMMA RemoveFirstOK ==
  ASSUME NEW S, NEW s \in Seq(S), NEW e
  PROVE  LET q == RemoveFirst(s, e)
         IN  /\ q \in Seq(S)
             /\ \A n \in 1 .. Len(q) : \E m \in 1 .. Len(s) : q[n] = s[m]
             /\ (\A m, n \in 1 .. Len(s) : s[m] = s[n] => m = n)
                  => \A m, n \in 1 .. Len(q) : q[m] = q[n] => m = n
<1> DEFINE I == {i \in 1 .. Len(s) : s[i] = e}
           k == CHOOSE i \in I : \A j \in I : i <= j
<1>1. CASE I = {}
  BY <1>1 DEF RemoveFirst
<1>2. CASE I # {}
  <2>1. I \subseteq Nat
    OBVIOUS
  <2> HIDE DEF I
  <2>2. PICK least \in I : \A j \in I : ~(<<j, least>> \in OpToRel(<, Nat))
    BY <1>2, <2>1, WFMin, NatLessThanWellFounded
  <2>9. \A j \in I : ~(j < least)
    BY <2>1, <2>2 DEF OpToRel
  <2>10. \A j \in I : least <= j
    BY <2>1, <2>9
  <2>11. k \in I
    BY <2>10
  <2>3. RemoveFirst(s, e) = RemoveAt(s, k)
    BY <1>2 DEF RemoveFirst, SelectInSeq, Min, I
  <2> HIDE DEF k
  <2>4. k \in 1 .. Len(s) /\ Len(s) \in Nat
    BY <2>11 DEF I
  <2>5. /\ SubSeq(s, 1, k - 1) \in Seq(S) /\ Len(SubSeq(s, 1, k - 1)) = k - 1
        /\ SubSeq(s, k + 1, Len(s)) \in Seq(S) /\ Len(SubSeq(s, k + 1, Len(s))) = Len(s) - k
        /\ \A n \in 1 .. k - 1 : SubSeq(s, 1, k - 1)[n] = s[n]
        /\ \A n \in 1 .. Len(s) - k : SubSeq(s, k + 1, Len(s))[n] = s[n + k]
    BY <2>4
  <2>6. /\ RemoveAt(s, k) \in Seq(S) /\ Len(RemoveAt(s, k)) = Len(s) - 1
        /\ \A n \in 1 .. Len(s) - 1 :
              RemoveAt(s, k)[n] = IF n < k THEN s[n] ELSE s[n + 1]
    <3> DEFINE a == SubSeq(s, 1, k - 1)
               b == SubSeq(s, k + 1, Len(s))
    <3>1. RemoveAt(s, k) = a \o b
      BY DEF RemoveAt
    <3> HIDE DEF a, b
    <3>2. a \in Seq(S) /\ Len(a) = k - 1 /\ b \in Seq(S) /\ Len(b) = Len(s) - k
      BY <2>5 DEF a, b
    <3>3. a \o b \in Seq(S) /\ Len(a \o b) = Len(s) - 1
      BY <2>4, <3>2
    <3>4. ASSUME NEW n \in 1 .. Len(s) - 1
          PROVE  (a \o b)[n] = IF n < k THEN s[n] ELSE s[n + 1]
      <4>1. CASE n < k
        <5>1. n \in 1 .. k - 1
          BY <2>4, <4>1
        <5> QED
          BY <2>5, <3>2, <4>1, <5>1 DEF a
      <4>2. CASE ~(n < k)
        <5>1. n - (k - 1) \in 1 .. Len(s) - k /\ n - (k - 1) + k = n + 1
          BY <2>4, <4>2
        <5>2. (a \o b)[n] = b[n - (k - 1)]
          BY <2>4, <3>2, <4>2, <5>1
        <5>3. b[n - (k - 1)] = s[n - (k - 1) + k]
          BY <2>5, <5>1 DEF b
        <5> QED
          BY <4>2, <5>1, <5>2, <5>3
      <4> QED
        BY <4>1, <4>2
    <3> QED
      BY <3>1, <3>3, <3>4
  <2>7. ASSUME NEW n \in 1 .. Len(s) - 1
        PROVE  \E m \in 1 .. Len(s) : /\ RemoveAt(s, k)[n] = s[m]
                                      /\ m = IF n < k THEN n ELSE n + 1
    BY <2>4, <2>6
  <2>8. ASSUME \A i, j \in 1 .. Len(s) : s[i] = s[j] => i = j,
               NEW m \in 1 .. Len(s) - 1, NEW n \in 1 .. Len(s) - 1,
               RemoveAt(s, k)[m] = RemoveAt(s, k)[n]
        PROVE  m = n
    <3>1. PICK i \in 1 .. Len(s) : RemoveAt(s, k)[m] = s[i] /\ i = IF m < k THEN m ELSE m + 1
      BY <2>7
    <3>2. PICK j \in 1 .. Len(s) : RemoveAt(s, k)[n] = s[j] /\ j = IF n < k THEN n ELSE n + 1
      BY <2>7
    <3>3. i = j
      BY <2>8, <3>1, <3>2
    <3> QED
      BY <2>4, <3>1, <3>2, <3>3
  <2> QED
    BY <2>3, <2>6, <2>7, <2>8
<1> QED
  BY <1>1, <1>2

\* Records whose attempts stay as they are
LEMMA KeptNumbers ==
  ASSUME NEW l, NEW x, NEW y, Counted(x, l), Distinct(x),
         \A e \in Executions : \/ KeepsAttempts(x[e], y[e])
                               \/ y[e].spans = <<>>
  PROVE  Counted(y, l) /\ Distinct(y)
<1>1. Counted(y, l)
  BY DEF Counted, KeepsAttempts
<1>2. Distinct(y)
  BY DEF Distinct, KeepsAttempts
<1> QED
  BY <1>1, <1>2

\* An attempt that begins
LEMMA BegunNumbers ==
  ASSUME now \in Nat, AttemptsTypeOK, Counted(execution, ledger), Distinct(execution),
         NEW e \in Executions, HasInput(execution, e),
         NEW r \in [Executions -> StepRun],
         \A d \in Executions : KeepsAttempts(execution[d], r[d]),
         Begins(e, r)
  PROVE  /\ ledger' \in [StepInputs -> Nat]
         /\ execution' \in [Executions -> StepRun]
         /\ HasInput(execution', e)
         /\ \A d \in Executions \ {e} : execution'[d] = r[d]
         /\ Counted(execution', ledger')
         /\ Distinct(execution')
<1> DEFINE i == execution[e].input
           n == Len(execution[e].spans)
<1>1. /\ i \in StepInputs
      /\ ledger' = [ledger EXCEPT ![i] = @ + 1]
      /\ execution' = [r EXCEPT ![e] = Begun(e)]
  BY DEF Begins, HasInput
<1>2. /\ ledger' \in [StepInputs -> Nat]
      /\ ledger[i] \in Nat /\ ledger'[i] = ledger[i] + 1
      /\ \A j \in StepInputs \ {i} : ledger'[j] = ledger[j]
  BY <1>1 DEF AttemptsTypeOK
<1>3. /\ Begun(e) \in StepRun
      /\ Begun(e).state = "running" /\ Begun(e).input = i
      /\ Len(Begun(e).spans) = n + 1
      /\ \A m \in 1 .. n : Begun(e).spans[m].attempt = execution[e].spans[m].attempt
      /\ Begun(e).spans[n + 1].attempt = ledger[i]
  BY BegunRun
<1>4. /\ execution' \in [Executions -> StepRun]
      /\ execution'[e] = Begun(e)
      /\ \A d \in Executions \ {e} : execution'[d] = r[d]
  BY <1>1, <1>3
<1>5. HasInput(execution', e)
  BY <1>1, <1>3, <1>4 DEF HasInput
<1>6. \A d \in Executions : execution[d].spans \in Seq(AttemptSpan)
  BY DEF AttemptsTypeOK, StepRun
<1>7. n \in Nat
  BY <1>6
<1>8. ASSUME NEW d \in Executions, NEW m \in 1 .. Len(execution[d].spans)
      PROVE  execution[d].spans[m].attempt \in Nat
  <2>1. execution[d].spans[m] \in AttemptSpan
    BY <1>6
  <2> QED
    BY <2>1 DEF AttemptSpan
<1>9. \A d \in Executions \ {e} : KeepsAttempts(execution[d], execution'[d])
  BY <1>4
<1> HIDE DEF i, n
<1>10. ASSUME NEW d \in Executions, NEW m \in 1 .. Len(execution'[d].spans)
       PROVE  /\ execution'[d].spans[m].attempt < ledger'[execution'[d].input]
              /\ d = e /\ m = n + 1 => /\ execution'[d].spans[m].attempt = ledger[i]
                                       /\ execution'[d].input = i
              /\ ~(d = e /\ m = n + 1) =>
                    /\ m \in 1 .. Len(execution[d].spans)
                    /\ execution'[d].input = execution[d].input
                    /\ execution'[d].spans[m].attempt = execution[d].spans[m].attempt
                    /\ execution[d].spans[m].attempt < ledger[execution[d].input]
  <2>1. CASE d = e /\ m = n + 1
    BY <1>2, <1>3, <1>4, <2>1
  <2>2. CASE d = e /\ m # n + 1
    <3>1. m \in 1 .. n /\ n = Len(execution[d].spans) /\ execution[d].input = i
      BY <1>3, <1>4, <1>7, <2>2 DEF n, i
    <3>2. execution[d].spans[m].attempt < ledger[i]
      BY <3>1 DEF Counted
    <3>3. execution[d].spans[m].attempt \in Nat
      BY <1>8, <3>1
    <3>4. execution'[d].spans[m].attempt = execution[d].spans[m].attempt
          /\ execution'[d].input = i
      BY <1>3, <1>4, <2>2, <3>1
    <3> QED
      BY <1>2, <2>2, <3>1, <3>2, <3>3, <3>4
  <2>3. CASE d # e
    <3>1. /\ m \in 1 .. Len(execution[d].spans)
          /\ execution'[d].input = execution[d].input
          /\ execution'[d].spans[m].attempt = execution[d].spans[m].attempt
      BY <1>9, <2>3 DEF KeepsAttempts
    <3>2. execution[d].spans[m].attempt < ledger[execution[d].input]
      BY <3>1 DEF Counted
    <3>3. execution[d].input \in StepInputs => ledger[execution[d].input] \in Nat
      BY DEF AttemptsTypeOK
    <3>4. CASE execution[d].input \in StepInputs
      <4>1. ledger[execution[d].input] <= ledger'[execution[d].input]
        BY <1>2, <3>3, <3>4
      <4>2. ledger'[execution[d].input] \in Nat /\ execution[d].spans[m].attempt \in Nat
        BY <1>2, <1>8, <3>1, <3>4
      <4>3. execution[d].spans[m].attempt < ledger'[execution[d].input]
        BY <3>2, <3>3, <3>4, <4>1, <4>2
      <4> QED
        BY <2>3, <3>1, <3>2, <4>3
    <3>5. CASE execution[d].input \notin StepInputs
      BY <1>1, <2>3, <3>1, <3>2, <3>5 DEF AttemptsTypeOK
    <3> QED
      BY <3>4, <3>5
  <2> QED
    BY <2>1, <2>2, <2>3
<1>11. Counted(execution', ledger')
  BY <1>10 DEF Counted
<1>12. Distinct(execution')
  <2> SUFFICES ASSUME NEW c \in Executions, NEW d \in Executions,
                      NEW k \in 1 .. Len(execution'[c].spans),
                      NEW m \in 1 .. Len(execution'[d].spans),
                      execution'[c].input = execution'[d].input, c # d \/ k # m
               PROVE  execution'[c].spans[k].attempt # execution'[d].spans[m].attempt
    BY DEF Distinct
  <2>1. CASE c = e /\ k = n + 1
    <3>1. /\ execution'[d].spans[m].attempt = execution[d].spans[m].attempt
          /\ execution[d].spans[m].attempt \in Nat
          /\ execution[d].spans[m].attempt < ledger[execution'[d].input]
      BY <1>8, <1>10, <2>1
    <3>2. execution'[c].spans[k].attempt = ledger[i] /\ execution'[d].input = i
      BY <1>10, <2>1
    <3> QED
      BY <1>2, <3>1, <3>2
  <2>2. CASE d = e /\ m = n + 1
    <3>1. /\ execution'[c].spans[k].attempt = execution[c].spans[k].attempt
          /\ execution[c].spans[k].attempt \in Nat
          /\ execution[c].spans[k].attempt < ledger[execution'[c].input]
      BY <1>8, <1>10, <2>2
    <3>2. execution'[d].spans[m].attempt = ledger[i] /\ execution'[c].input = i
      BY <1>10, <2>2
    <3> QED
      BY <1>2, <3>1, <3>2
  <2>3. CASE ~(c = e /\ k = n + 1) /\ ~(d = e /\ m = n + 1)
    BY <1>10, <2>3 DEF Distinct
  <2> QED
    BY <2>1, <2>2, <2>3
<1> QED
  BY <1>2, <1>4, <1>5, <1>11, <1>12

\* Items stay placed if each keeps its record or has its input, and the line
\* and the runners hold items they or others held, or that have their input.
LEMMA PlacedStays ==
  ASSUME Placed,
         \A e \in Executions : execution'[e] = execution[e] \/ HasInput(execution', e),
         \A n \in 1 .. Len(line') : \/ HasInput(execution', line'[n])
                                    \/ \E m \in 1 .. Len(line) : line'[n] = line[m],
         \A t \in Tasks : \/ serving'[t] \in {NoExecution, serving[t]}
                          \/ HasInput(execution', serving'[t]),
         line \in Seq(Executions), serving \in [Tasks -> Executions \cup {NoExecution}]
  PROVE  Placed'
<1>1. \A e \in Executions : HasInput(execution, e) => HasInput(execution', e)
  BY DEF HasInput
<1>2. \A m \in 1 .. Len(line) : HasInput(execution', line[m])
  BY <1>1 DEF Placed
<1>3. \A t \in Tasks : serving[t] # NoExecution => HasInput(execution', serving[t])
  BY <1>1 DEF Placed
<1>4. ASSUME NEW e \in Executions
      PROVE  \/ HasInput(execution', e)
             \/ execution'[e].state = "none" /\ execution'[e].spans = <<>>
  BY DEF Placed, HasInput
<1> QED
  BY <1>2, <1>3, <1>4 DEF Placed

\* A runner goes on with the head of the line, r being what else is recorded.
LEMMA TakesStep ==
  ASSUME now \in Nat, AInv, NEW t \in Tasks, line # <<>>,
         NEW r \in [Executions -> StepRun],
         \A d \in Executions : /\ KeepsAttempts(execution[d], r[d])
                               /\ \/ r[d] = execution[d]
                                  \/ HasInput(execution, d) /\ r[d].state # "none",
         Takes(t, r)
  PROVE  AInv'
<1> DEFINE e == Head(line)
<1>1. /\ line \in Seq(Executions) /\ e \in Executions /\ e = line[1] /\ 1 \in 1 .. Len(line)
      /\ Tail(line) \in Seq(Executions)
      /\ \A n \in 1 .. Len(Tail(line)) : n + 1 \in 1 .. Len(line) /\ Tail(line)[n] = line[n + 1]
  BY DEF AInv, AttemptsTypeOK
<1>2. HasInput(execution, e)
  BY <1>1 DEF AInv, Placed
<1>3. /\ Begins(e, r) /\ line' = Tail(line)
      /\ serving' = [serving EXCEPT ![t] = e]
  BY DEF Takes
<1> HIDE DEF e
<1>4. /\ ledger' \in [StepInputs -> Nat]
      /\ execution' \in [Executions -> StepRun]
      /\ HasInput(execution', e)
      /\ \A d \in Executions \ {e} : execution'[d] = r[d]
      /\ Counted(execution', ledger')
      /\ Distinct(execution')
  BY <1>1, <1>2, <1>3, BegunNumbers DEF AInv
<1>5. AttemptsTypeOK'
  BY <1>1, <1>3, <1>4 DEF AInv, AttemptsTypeOK
<1>6. \A d \in Executions : execution'[d] = execution[d] \/ HasInput(execution', d)
  BY <1>4 DEF HasInput, KeepsAttempts
<1>7. Placed'
  BY <1>1, <1>3, <1>4, <1>6, PlacedStays DEF AInv, AttemptsTypeOK
<1> QED
  BY <1>4, <1>5, <1>7 DEF AInv

\* A step that changes records but no number
LEMMA RecordsStep ==
  ASSUME AInv, AttemptsTypeOK', Placed', ledger' = ledger,
         \A e \in Executions : \/ KeepsAttempts(execution[e], execution'[e])
                               \/ execution'[e].spans = <<>>
  PROVE  AInv'
  BY KeptNumbers DEF AInv

LEMMA EnqueueStep ==
  ASSUME AInv, NEW e \in Executions, NEW i \in StepInputs, Enqueue(e, i)
  PROVE  AInv'
<1> DEFINE x == [execution[e] EXCEPT !.input = i, !.state = "queued"]
<1>1. /\ execution[e] \in StepRun /\ execution[e].state = "none" /\ execution[e].spans = <<>>
  BY DEF AInv, AttemptsTypeOK, Placed, HasInput, Enqueue
<1>2. x \in StepRun /\ x.state = "queued" /\ x.input = i /\ x.spans = <<>>
  BY <1>1 DEF StepRun
<1>3. execution' = [execution EXCEPT ![e] = x]
  BY DEF Enqueue, AInv, AttemptsTypeOK
<1> HIDE DEF x
<1>4. /\ execution' \in [Executions -> StepRun] /\ execution'[e] = x
      /\ \A d \in Executions \ {e} : execution'[d] = execution[d]
  BY <1>2, <1>3 DEF AInv, AttemptsTypeOK
<1>5. HasInput(execution', e)
  BY <1>2, <1>4 DEF HasInput
<1>6. /\ line' \in Seq(Executions)
      /\ \A n \in 1 .. Len(line') : line'[n] = e \/ \E m \in 1 .. Len(line) : line'[n] = line[m]
  BY DEF Enqueue, AInv, AttemptsTypeOK
<1>7. AttemptsTypeOK' /\ ledger' = ledger /\ serving' = serving
  BY <1>4, <1>6 DEF Enqueue, AInv, AttemptsTypeOK
<1>8. Placed'
  BY <1>4, <1>5, <1>6, <1>7, PlacedStays DEF AInv, AttemptsTypeOK
<1>9. \A d \in Executions : \/ KeepsAttempts(execution[d], execution'[d])
                            \/ execution'[d].spans = <<>>
  BY <1>2, <1>4 DEF KeepsAttempts
<1> QED
  BY <1>7, <1>8, <1>9, RecordsStep

LEMMA CancelStep ==
  ASSUME AInv, NEW e \in Executions, CancelExecution(e)
  PROVE  AInv'
<1> DEFINE r == execution[e]
           x == IF r.state = "queued" THEN Resolved(r) ELSE [r EXCEPT !.cancelled = TRUE]
<1>1. r \in StepRun /\ HasInput(execution, e)
  BY DEF AInv, AttemptsTypeOK, Placed, CancelExecution
<1>2. x \in StepRun /\ x.state # "none" /\ KeepsAttempts(r, x)
  <2>1. CASE r.state = "queued"
    BY <1>1, <2>1, ResolvedRun
  <2>2. CASE r.state # "queued"
    BY <1>1, <2>2 DEF StepRun, KeepsAttempts, HasInput
  <2> QED
    BY <2>1, <2>2
<1>3. execution' = [execution EXCEPT ![e] = x]
  BY DEF CancelExecution, AInv, AttemptsTypeOK
<1> HIDE DEF x
<1>4. /\ execution' \in [Executions -> StepRun] /\ execution'[e] = x
      /\ \A d \in Executions \ {e} : execution'[d] = execution[d]
  BY <1>2, <1>3 DEF AInv, AttemptsTypeOK
<1>5. HasInput(execution', e)
  BY <1>1, <1>2, <1>4 DEF HasInput, KeepsAttempts
<1>6. /\ line' \in Seq(Executions)
      /\ \A n \in 1 .. Len(line') : \E m \in 1 .. Len(line) : line'[n] = line[m]
  BY RemoveFirstOK DEF CancelExecution, AInv, AttemptsTypeOK
<1>7. AttemptsTypeOK' /\ ledger' = ledger /\ serving' = serving
  BY <1>4, <1>6 DEF CancelExecution, AInv, AttemptsTypeOK
<1>8. Placed'
  BY <1>4, <1>5, <1>6, <1>7, PlacedStays DEF AInv, AttemptsTypeOK
<1>9. \A d \in Executions : KeepsAttempts(execution[d], execution'[d])
  BY <1>2, <1>4 DEF KeepsAttempts
<1> QED
  BY <1>7, <1>8, <1>9, RecordsStep

LEMMA KeepsSame == \A r : KeepsAttempts(r, r)
  BY DEF KeepsAttempts

\* A turn in which runner t settles or suspends item e: x is what it records.
LEMMA SettleStep ==
  ASSUME AInv, NEW e \in Executions, HasInput(execution, e),
         NEW x \in StepRun, x.state # "none", KeepsAttempts(execution[e], x),
         execution' = [execution EXCEPT ![e] = x],
         serving' \in [Tasks -> Executions \cup {NoExecution}],
         \A t \in Tasks : serving'[t] \in {NoExecution, serving[t]},
         UNCHANGED <<ledger, line>>
  PROVE  AInv'
<1>1. /\ execution' \in [Executions -> StepRun] /\ execution'[e] = x
      /\ \A d \in Executions \ {e} : execution'[d] = execution[d]
  BY DEF AInv, AttemptsTypeOK
<1>2. HasInput(execution', e)
  BY <1>1 DEF HasInput, KeepsAttempts
<1>3. AttemptsTypeOK'
  BY <1>1 DEF AInv, AttemptsTypeOK
<1>4. \A n \in 1 .. Len(line') : \E m \in 1 .. Len(line) : line'[n] = line[m]
  OBVIOUS
<1>5. Placed'
  BY <1>1, <1>2, <1>3, <1>4, PlacedStays DEF AInv, AttemptsTypeOK
<1>6. \A d \in Executions : KeepsAttempts(execution[d], execution'[d])
  BY <1>1, KeepsSame
<1> QED
  BY <1>3, <1>5, <1>6, RecordsStep

\* An attempt of a runner that serves nothing ends: there is none.
LEMMA NothingStep ==
  ASSUME AInv, NEW t \in Tasks, serving[t] = NoExecution, UNCHANGED <<ledger, line>>,
         execution' = execution, serving' \in {serving, [serving EXCEPT ![t] = NoExecution]}
  PROVE  AInv'
<1>1. serving' = serving
  BY DEF AInv, AttemptsTypeOK
<1> QED
  BY <1>1 DEF AInv, AttemptsTypeOK, Placed, HasInput

LEMMA AttemptEndsStep ==
  ASSUME now \in Nat, AInv, NEW t \in Tasks, NEW o \in Failures \cup {"ok"}, AttemptEnds(t, o)
  PROVE  AInv'
<1> DEFINE e    == serving[t]
           r    == Closed(execution[e], o)
           next == AfterAttempt(o, Len(r.spans), r.cancelled)
           over == [execution EXCEPT ![e] = Resolved(r)]
<1>1. o \in Outcomes \cup {"running"}
  BY AttemptAssumption DEF Outcomes
<1>2. \/ /\ next = "backoff"
         /\ \E b \in 0 .. BackoffLimit(Len(r.spans)) :
              execution' = [execution EXCEPT ![e] = [r EXCEPT !.state = "backoff",
                                                              !.wake = now + b]]
         /\ UNCHANGED <<ledger, line, serving>>
      \/ /\ next # "backoff" /\ line = <<>>
         /\ execution' = over
         /\ serving' = [serving EXCEPT ![t] = NoExecution]
         /\ UNCHANGED <<ledger, line>>
      \/ line # <<>> /\ Takes(t, over)
  BY DEF AttemptEnds
<1>3. e \in Executions \cup {NoExecution} /\ DOMAIN execution = Executions
      /\ execution \in [Executions -> StepRun]
      /\ serving \in [Tasks -> Executions \cup {NoExecution}]
  BY DEF AInv, AttemptsTypeOK
<1>4. CASE e \notin Executions
  <2>1. over = execution /\ \A x : [execution EXCEPT ![e] = x] = execution
    BY <1>3, <1>4
  <2>2. serving[t] = NoExecution
    BY <1>3, <1>4
  <2> HIDE DEF over, e, r
  <2>3. CASE line # <<>> /\ Takes(t, over)
    <3>1. over \in [Executions -> StepRun]
          /\ \A d \in Executions : KeepsAttempts(execution[d], over[d]) /\ over[d] = execution[d]
      BY <1>3, <2>1, KeepsSame
    <3> QED
      BY <2>3, <3>1, TakesStep
  <2>4. CASE ~(line # <<>> /\ Takes(t, over))
    <3>1. execution' = execution
      BY <1>2, <2>1, <2>4
    <3>2. UNCHANGED <<ledger, line>>
          /\ serving' \in {serving, [serving EXCEPT ![t] = NoExecution]}
      BY <1>2, <2>4
    <3> QED
      BY <2>2, <3>1, <3>2, NothingStep
  <2> QED
    BY <2>3, <2>4
<1>5. CASE e \in Executions
  <2>1. HasInput(execution, e)
    BY <1>5, AttemptAssumption DEF AInv, Placed
  <2>2. r \in StepRun /\ r.state # "none" /\ KeepsAttempts(execution[e], r)
    BY <1>1, <1>3, <1>5, <2>1, ClosedRun DEF HasInput
  <2> HIDE DEF r
  <2>3. /\ Resolved(r) \in StepRun /\ Resolved(r).state = "done"
        /\ KeepsAttempts(execution[e], Resolved(r))
    BY <2>2, ResolvedRun DEF KeepsAttempts
  <2>4. ASSUME NEW b \in Nat
        PROVE  LET x == [r EXCEPT !.state = "backoff", !.wake = now + b]
               IN  x \in StepRun /\ x.state = "backoff" /\ KeepsAttempts(execution[e], x)
    <3> DEFINE x == [r EXCEPT !.state = "backoff", !.wake = now + b]
    <3>1. r \in StepRun /\ now + b \in Nat
      BY <2>2
    <3>2. x \in StepRun /\ x.state = "backoff" /\ x.spans = r.spans /\ x.input = r.input
      BY <3>1 DEF StepRun
    <3> HIDE DEF x
    <3>3. KeepsAttempts(execution[e], x)
      BY <2>2, <3>2 DEF KeepsAttempts
    <3> QED
      BY <3>2, <3>3 DEF x
  <2> HIDE DEF e
  <2>5. CASE /\ \E b \in 0 .. BackoffLimit(Len(r.spans)) :
                  execution' = [execution EXCEPT ![e] = [r EXCEPT !.state = "backoff",
                                                                  !.wake = now + b]]
             /\ UNCHANGED <<ledger, line, serving>>
    <3>1. PICK b \in 0 .. BackoffLimit(Len(r.spans)) :
            execution' = [execution EXCEPT ![e] = [r EXCEPT !.state = "backoff",
                                                            !.wake = now + b]]
      BY <2>5
    <3> DEFINE x == [r EXCEPT !.state = "backoff", !.wake = now + b]
    <3>2. b \in Nat
      OBVIOUS
    <3>3. x \in StepRun /\ x.state # "none" /\ KeepsAttempts(execution[e], x)
      BY <2>4, <3>2
    <3> HIDE DEF x
    <3>4. execution' = [execution EXCEPT ![e] = x]
      BY <3>1 DEF x
    <3> QED
      BY <1>3, <1>5, <2>1, <2>5, <3>3, <3>4, SettleStep
  <2>6. CASE /\ execution' = over
             /\ serving' = [serving EXCEPT ![t] = NoExecution]
             /\ UNCHANGED <<ledger, line>>
    <3>1. /\ serving' \in [Tasks -> Executions \cup {NoExecution}]
          /\ \A u \in Tasks : serving'[u] \in {NoExecution, serving[u]}
      BY <1>3, <2>6
    <3> QED
      BY <1>5, <2>1, <2>3, <2>6, <3>1, SettleStep
  <2>7. CASE line # <<>> /\ Takes(t, over)
    <3>1. /\ over \in [Executions -> StepRun] /\ over[e] = Resolved(r)
          /\ \A d \in Executions \ {e} : over[d] = execution[d]
      BY <1>3, <1>5, <2>3
    <3>2. \A d \in Executions : KeepsAttempts(execution[d], over[d])
      BY <2>3, <3>1, KeepsSame
    <3>3. \A d \in Executions : \/ over[d] = execution[d]
                                \/ HasInput(execution, d) /\ over[d].state # "none"
      BY <2>1, <2>3, <3>1
    <3> HIDE DEF over
    <3> QED
      BY <2>7, <3>1, <3>2, <3>3, TakesStep
  <2> QED
    BY <1>2, <2>5, <2>6, <2>7
<1> QED
  BY <1>4, <1>5

LEMMA RunnerStep ==
  ASSUME now \in Nat, AInv, NEW t \in Tasks,
         \/ RunnerEnters(t) \/ RunnerWarm(t) \/ RunnerTakes(t)
         \/ \E o \in Failures \cup {"ok"} : AttemptEnds(t, o)
         \/ BackoffOver(t) \/ RunnerRetires(t) \/ RunnerCancelled(t)
  PROVE  AInv'
<1>1. /\ execution \in [Executions -> StepRun]
      /\ serving \in [Tasks -> Executions \cup {NoExecution}]
      /\ \A d \in Executions : KeepsAttempts(execution[d], execution[d])
  BY KeepsSame DEF AInv, AttemptsTypeOK
<1>2. CASE UNCHANGED avars
  BY <1>2 DEF avars, AInv, AttemptsTypeOK, Placed, HasInput
<1>3. CASE line # <<>> /\ Takes(t, execution)
  BY <1>1, <1>3, TakesStep
<1>4. CASE RunnerWarm(t)
  BY <1>2, <1>3, <1>4 DEF RunnerWarm, avars
<1>5. ASSUME NEW o \in Failures \cup {"ok"}, AttemptEnds(t, o) PROVE AInv'
  BY <1>5, AttemptEndsStep
<1>6. CASE BackoffOver(t)
  <2> DEFINE e == serving[t]
  <2>1. e \in Executions /\ HasInput(execution, e) /\ Begins(e, execution)
    BY <1>1, <1>6 DEF BackoffOver, AInv, Placed
  <2> HIDE DEF e
  <2>2. /\ ledger' \in [StepInputs -> Nat]
        /\ execution' \in [Executions -> StepRun]
        /\ HasInput(execution', e)
        /\ \A d \in Executions \ {e} : execution'[d] = execution[d]
        /\ Counted(execution', ledger')
        /\ Distinct(execution')
    BY <1>1, <2>1, BegunNumbers DEF AInv
  <2>3. line' = line /\ serving' = serving
    BY <1>6 DEF BackoffOver
  <2>4. AttemptsTypeOK'
    BY <2>2, <2>3 DEF AInv, AttemptsTypeOK
  <2>5. Placed'
    BY <2>2, <2>3, PlacedStays DEF AInv, AttemptsTypeOK
  <2> QED
    BY <2>2, <2>4, <2>5 DEF AInv
<1>7. CASE RunnerCancelled(t)
  <2> DEFINE e == serving[t]
             x == Resolved(Closed(execution[e], "running"))
  <2>1. /\ serving' = [serving EXCEPT ![t] = NoExecution]
        /\ execution' = [d \in Executions |-> IF d = e THEN x ELSE execution[d]]
        /\ UNCHANGED <<ledger, line>>
    BY <1>7 DEF RunnerCancelled
  <2>2. CASE e = NoExecution
    <3>1. execution' = execution
      BY <1>1, <2>1, <2>2, AttemptAssumption
    <3> QED
      BY <2>1, <2>2, <3>1, NothingStep
  <2>3. CASE e # NoExecution
    <3>1. e \in Executions /\ HasInput(execution, e)
      BY <1>1, <2>3 DEF AInv, Placed
    <3>2. x \in StepRun /\ x.state # "none" /\ KeepsAttempts(execution[e], x)
      BY <1>1, <3>1, ClosedRun, ResolvedRun DEF KeepsAttempts
    <3> HIDE DEF x
    <3>3. execution' = [execution EXCEPT ![e] = x]
      BY <1>1, <2>1
    <3>4. /\ serving' \in [Tasks -> Executions \cup {NoExecution}]
          /\ \A u \in Tasks : serving'[u] \in {NoExecution, serving[u]}
      BY <1>1, <2>1
    <3> HIDE DEF e
    <3> QED
      BY <2>1, <3>1, <3>2, <3>3, <3>4, SettleStep
  <2> QED
    BY <2>2, <2>3
<1> QED
  BY <1>2, <1>3, <1>4, <1>5, <1>6, <1>7 DEF RunnerEnters, RunnerTakes, RunnerRetires

LEMMA InitAInv == AttemptsInit => AInv
<1> SUFFICES ASSUME AttemptsInit PROVE AInv
  OBVIOUS
<1>1. Unused \in StepRun /\ Unused.state = "none" /\ Unused.spans = <<>>
  BY DEF Unused, StepRun
<1>2. AttemptsTypeOK
  BY <1>1 DEF AttemptsInit, AttemptsTypeOK
<1>3. Placed
  BY <1>1 DEF AttemptsInit, Placed
<1>4. Counted(execution, ledger) /\ Distinct(execution)
  BY <1>1 DEF AttemptsInit, Counted, Distinct
<1> QED
  BY <1>2, <1>3, <1>4 DEF AInv

LEMMA NextAInv == PoolTypeOK /\ AInv /\ [Next]_uvars => AInv'
<1> SUFFICES ASSUME PoolTypeOK, AInv, [Next]_uvars PROVE AInv'
  OBVIOUS
<1>1. now \in Nat
  BY DEF PoolTypeOK
<1>2. CASE UNCHANGED avars
  BY <1>2 DEF avars, AInv, AttemptsTypeOK, Placed, HasInput
<1>3. CASE AttemptsNext
  <2>1. CASE StopRunners
    BY <2>1 DEF StopRunners, AInv, AttemptsTypeOK, Placed, HasInput
  <2>2. ASSUME NEW e \in Executions, NEW i \in StepInputs, Enqueue(e, i) PROVE AInv'
    BY <2>2, EnqueueStep
  <2>3. ASSUME NEW e \in Executions, CancelExecution(e) PROVE AInv'
    BY <2>3, CancelStep
  <2>4. ASSUME NEW t \in Tasks,
               \/ RunnerEnters(t) \/ RunnerWarm(t) \/ RunnerTakes(t)
               \/ \E o \in Failures \cup {"ok"} : AttemptEnds(t, o)
               \/ BackoffOver(t) \/ RunnerRetires(t) \/ RunnerCancelled(t)
        PROVE  AInv'
    BY <1>1, <2>4, RunnerStep
  <2> QED
    BY <1>2, <1>3, <2>1, <2>2, <2>3, <2>4 DEF AttemptsNext
<1> QED
  BY <1>2, <1>3 DEF Next, uvars

(* No two attempts of one step on one input have the same number, and so      *)
(* share a draw, whatever executions of it, retries, cancels and resubmissions*)
(* there are, on any number of runners.                                       *)
THEOREM DrawsAlwaysFresh == Spec => []FreshDraws
<1>1. Init => AInv
  BY InitAInv DEF Init
<1>2. PoolTypeOK /\ AInv /\ [Next]_uvars => AInv'
  BY NextAInv
<1>3. AInv => FreshDraws
  BY DistinctFresh DEF AInv
<1> QED
  BY <1>1, <1>2, <1>3, PoolTypeCorrect, PTL DEF Spec, uvars

-----------------------------------------------------------------------------
(* The trace                                                                  *)

\* Of a record: whether it has spans, and the ends of the time it was held
Tried(r)      == r.spans # <<>>
FirstStart(r) == r.spans[1].start
LastEnd(r)    == r.spans[Len(r.spans)].end

\* Seconds are named by the time they begin at.  At time n, and with serving
\* sv: the seconds until which item r was held, and those its worker was kept
\* from others.
Served(sv, e)   == \E t \in Tasks : sv[t] = e
HeldUntil(n, r) == IF LastEnd(r) = NoTime THEN n ELSE LastEnd(r)
Occupies(n, x, sv, e) ==
  FirstStart(x[e]) .. ((IF Served(sv, e) THEN n ELSE LastEnd(x[e])) - 1)

\* The spans of the items agree with what the runners do.
ServingFit(n, x, sv, d) ==
  /\ \A e \in Executions : Tried(x[e]) =>
       /\ FirstStart(x[e]) \in Nat /\ FirstStart(x[e]) <= n
       /\ \/ LastEnd(x[e]) = NoTime /\ Served(sv, e)
          \/ LastEnd(x[e]) \in Nat /\ FirstStart(x[e]) <= LastEnd(x[e]) /\ LastEnd(x[e]) <= n
  /\ \A t \in Tasks :
       \/ sv[t] = NoExecution /\ d[t] # "running"
       \/ /\ sv[t] \in Executions /\ Tried(x[sv[t]])
          /\ d[t] = IF LastEnd(x[sv[t]]) = NoTime THEN "running" ELSE "ready"
  /\ \A t, u \in Tasks : sv[t] = sv[u] /\ sv[t] # NoExecution => t = u

\* Items that were held by worker hm[e] do not overlap there, and it was warm.
RoomFit(n, x, sv, o, wh, hm) ==
  /\ \A t \in Tasks : sv[t] # NoExecution => hm[sv[t]] = o[t]
  /\ \A e \in Executions : Tried(x[e]) => Occupies(n, x, sv, e) \subseteq wh[hm[e]]
  /\ \A c, e \in Executions :
       c # e /\ Tried(x[c]) /\ Tried(x[e]) /\ hm[c] = hm[e]
         => Occupies(n, x, sv, c) \cap Occupies(n, x, sv, e) = {}

\* In every second a worker ran it was held by an item.
RanFit(n, x, rn, hm) ==
  \A w \in Workers : \A s \in rn[w] :
    \E e \in Executions : /\ Tried(x[e]) /\ hm[e] = w
                          /\ s \in FirstStart(x[e]) .. (HeldUntil(n, x[e]) - 1)

Fit(n, x, sv, d, o, wh, rn, hm) ==
  ServingFit(n, x, sv, d) /\ RoomFit(n, x, sv, o, wh, hm) /\ RanFit(n, x, rn, hm)

\* Record y is held when r is.
KeepsTimes(r, y) ==
  /\ Tried(y) <=> Tried(r)
  /\ Tried(r) => FirstStart(y) = FirstStart(r) /\ LastEnd(y) = LastEnd(r)

-----------------------------------------------------------------------------
\* No span begins or ends, and tasks that serve nothing do what they do.
LEMMA FitRests ==
  ASSUME NEW n \in Nat, NEW x, NEW sv, NEW d, NEW o, NEW wh, NEW rn, NEW hm,
         Fit(n, x, sv, d, o, wh, rn, hm),
         NEW y, \A e \in Executions : KeepsTimes(x[e], y[e]),
         NEW d2, NEW o2,
         \A t \in Tasks : sv[t] # NoExecution => d2[t] = d[t] /\ o2[t] = o[t],
         \A t \in Tasks : sv[t] = NoExecution => d2[t] # "running"
  PROVE  Fit(n, y, sv, d2, o2, wh, rn, hm)
<1>1. ServingFit(n, y, sv, d2)
  BY DEF Fit, ServingFit, KeepsTimes
<1>2. \A e \in Executions : Tried(x[e]) => /\ Occupies(n, y, sv, e) = Occupies(n, x, sv, e)
                                           /\ FirstStart(y[e]) = FirstStart(x[e])
                                           /\ HeldUntil(n, y[e]) = HeldUntil(n, x[e])
  BY DEF Occupies, KeepsTimes, HeldUntil
<1>3. \A e \in Executions : Tried(y[e]) <=> Tried(x[e])
  BY DEF KeepsTimes
<1>4. RoomFit(n, y, sv, o2, wh, hm)
  BY <1>2, <1>3 DEF Fit, RoomFit
<1>5. RanFit(n, y, rn, hm)
  BY <1>2, <1>3 DEF Fit, RanFit
<1> QED
  BY <1>1, <1>4, <1>5 DEF Fit

\* Task t ends the span of the item it serves, if it is open; it keeps the
\* item, or not.
LEMMA FitEnds ==
  ASSUME NEW n \in Nat, NEW x, NEW sv \in [Tasks -> Executions \cup {NoExecution}],
         NEW d, NEW o, NEW wh, NEW rn, NEW hm,
         Fit(n, x, sv, d, o, wh, rn, hm),
         NEW t \in Tasks, sv[t] \in Executions,
         NEW y, \A e \in Executions \ {sv[t]} : KeepsTimes(x[e], y[e]),
         Tried(y[sv[t]]), FirstStart(y[sv[t]]) = FirstStart(x[sv[t]]),
         LastEnd(y[sv[t]]) = HeldUntil(n, x[sv[t]]),
         NEW sv2, NEW d2, NEW o2,
         \A u \in Tasks \ {t} : sv2[u] = sv[u] /\ d2[u] = d[u] /\ o2[u] = o[u],
         \/ sv2[t] = sv[t] /\ d2[t] = "ready" /\ o2[t] = o[t]
         \/ sv2[t] = NoExecution /\ d2[t] # "running"
  PROVE  Fit(n, y, sv2, d2, o2, wh, rn, hm)
<1> DEFINE e == sv[t]
<1>1. /\ e \in Executions /\ e # NoExecution /\ Tried(x[e])
      /\ FirstStart(x[e]) \in Nat /\ FirstStart(x[e]) <= n
      /\ HeldUntil(n, x[e]) \in Nat /\ FirstStart(x[e]) <= HeldUntil(n, x[e])
      /\ HeldUntil(n, x[e]) <= n /\ HeldUntil(n, x[e]) # NoTime
  BY AttemptAssumption, PoolAssumption DEF Fit, ServingFit, HeldUntil
<1>2. \A u \in Tasks \ {t} : sv[u] # e
  BY <1>1 DEF Fit, ServingFit
<1>3. \A c \in Executions \ {e} : Served(sv2, c) <=> Served(sv, c)
  BY AttemptAssumption DEF Served
<1>4. Served(sv, e)
  BY DEF Served
<1>5. \A c \in Executions : Tried(y[c]) <=> Tried(x[c])
  BY <1>1 DEF KeepsTimes
<1>6. \A c \in Executions : Tried(x[c]) => /\ FirstStart(y[c]) = FirstStart(x[c])
                                           /\ HeldUntil(n, y[c]) = HeldUntil(n, x[c])
  BY <1>1 DEF HeldUntil, KeepsTimes
<1>7. \A c \in Executions \ {e} : Tried(x[c]) => Occupies(n, y, sv2, c) = Occupies(n, x, sv, c)
  BY <1>3 DEF Occupies, KeepsTimes
<1>8. Occupies(n, y, sv2, e) \subseteq Occupies(n, x, sv, e)
  BY <1>1, <1>4 DEF Occupies
<1>9. ServingFit(n, y, sv2, d2)
  <2>1. \A u \in Tasks \ {t} : LastEnd(y[sv[u]]) = LastEnd(x[sv[u]]) \/ sv[u] = NoExecution
    BY <1>2 DEF KeepsTimes, Fit, ServingFit
  <2>2. ASSUME NEW c \in Executions, Tried(y[c])
        PROVE  /\ FirstStart(y[c]) \in Nat /\ FirstStart(y[c]) <= n
               /\ \/ LastEnd(y[c]) = NoTime /\ Served(sv2, c)
                  \/ LastEnd(y[c]) \in Nat /\ FirstStart(y[c]) <= LastEnd(y[c])
                     /\ LastEnd(y[c]) <= n
    <3>1. CASE c = e
      BY <1>1, <3>1
    <3>2. CASE c # e
      BY <1>3, <2>2, <3>2 DEF Fit, ServingFit, KeepsTimes
    <3> QED
      BY <3>1, <3>2
  <2>3. ASSUME NEW u \in Tasks
        PROVE  \/ sv2[u] = NoExecution /\ d2[u] # "running"
               \/ /\ sv2[u] \in Executions /\ Tried(y[sv2[u]])
                  /\ d2[u] = IF LastEnd(y[sv2[u]]) = NoTime THEN "running" ELSE "ready"
    <3>1. CASE u = t
      BY <1>1, <3>1
    <3>2. CASE u # t
      <4>1. sv2[u] = sv[u] /\ d2[u] = d[u]
        BY <3>2
      <4>2. \/ sv[u] = NoExecution /\ d[u] # "running"
            \/ /\ sv[u] \in Executions /\ Tried(x[sv[u]])
               /\ d[u] = IF LastEnd(x[sv[u]]) = NoTime THEN "running" ELSE "ready"
        BY DEF Fit, ServingFit
      <4> QED
        BY <1>5, <2>1, <3>2, <4>1, <4>2, AttemptAssumption
    <3> QED
      BY <3>1, <3>2
  <2>4. \A u, v \in Tasks : sv2[u] = sv2[v] /\ sv2[u] # NoExecution => u = v
    BY <1>2 DEF Fit, ServingFit
  <2> QED
    BY <2>2, <2>3, <2>4 DEF ServingFit
<1>10. RoomFit(n, y, sv2, o2, wh, hm)
  <2>1. \A u \in Tasks : sv2[u] # NoExecution => hm[sv2[u]] = o2[u]
    BY DEF Fit, RoomFit
  <2>2. \A c \in Executions : Tried(y[c]) => /\ Tried(x[c])
                                             /\ Occupies(n, y, sv2, c) \subseteq Occupies(n, x, sv, c)
    BY <1>5, <1>7, <1>8
  <2> QED
    BY <2>1, <2>2 DEF Fit, RoomFit
<1>11. RanFit(n, y, rn, hm)
  BY <1>5, <1>6 DEF Fit, RanFit
<1> QED
  BY <1>9, <1>10, <1>11 DEF Fit

\* Task t, which serves nothing, begins an item that was never tried.
LEMMA FitTakes ==
  ASSUME NEW n \in Nat, NEW x, NEW sv \in [Tasks -> Executions \cup {NoExecution}],
         NEW d, NEW o, NEW wh, NEW rn, NEW hm,
         Fit(n, x, sv, d, o, wh, rn, hm),
         NEW t \in Tasks, sv[t] = NoExecution,
         NEW e \in Executions, ~Tried(x[e]),
         NEW y, \A c \in Executions \ {e} : KeepsTimes(x[c], y[c]),
         Tried(y[e]), FirstStart(y[e]) = n, LastEnd(y[e]) = NoTime,
         NEW d2, NEW o2,
         \A u \in Tasks \ {t} : d2[u] = d[u] /\ o2[u] = o[u],
         d2[t] = "running",
         NEW sv2, sv2[t] = e, \A u \in Tasks \ {t} : sv2[u] = sv[u],
         NEW hm2, hm2[e] = o2[t], \A c \in Executions \ {e} : hm2[c] = hm[c]
  PROVE  Fit(n, y, sv2, d2, o2, wh, rn, hm2)
<1>1. e # NoExecution
  BY AttemptAssumption
<1>2. \A u \in Tasks : sv[u] # e
  BY <1>1 DEF Fit, ServingFit
<1>3. \A c \in Executions \ {e} : Served(sv2, c) <=> Served(sv, c)
  BY <1>1, AttemptAssumption DEF Served
<1>4. Served(sv2, e)
  BY <1>1 DEF Served
<1>5. \A c \in Executions \ {e} : Tried(x[c]) =>
        /\ Occupies(n, y, sv2, c) = Occupies(n, x, sv, c)
        /\ FirstStart(y[c]) = FirstStart(x[c])
        /\ HeldUntil(n, y[c]) = HeldUntil(n, x[c])
  BY <1>3 DEF Occupies, KeepsTimes, HeldUntil
<1>6. Occupies(n, y, sv2, e) = {}
  BY <1>4 DEF Occupies
<1>7. \A c \in Executions \ {e} : Tried(y[c]) <=> Tried(x[c])
  BY DEF KeepsTimes
<1>8. ServingFit(n, y, sv2, d2)
  <2>2. ASSUME NEW c \in Executions, Tried(y[c])
        PROVE  /\ FirstStart(y[c]) \in Nat /\ FirstStart(y[c]) <= n
               /\ \/ LastEnd(y[c]) = NoTime /\ Served(sv2, c)
                  \/ LastEnd(y[c]) \in Nat /\ FirstStart(y[c]) <= LastEnd(y[c])
                     /\ LastEnd(y[c]) <= n
    <3>1. CASE c = e
      BY <1>4, <3>1
    <3>2. CASE c # e
      BY <1>3, <2>2, <3>2 DEF Fit, ServingFit, KeepsTimes
    <3> QED
      BY <3>1, <3>2
  <2>3. ASSUME NEW u \in Tasks
        PROVE  \/ sv2[u] = NoExecution /\ d2[u] # "running"
               \/ /\ sv2[u] \in Executions /\ Tried(y[sv2[u]])
                  /\ d2[u] = IF LastEnd(y[sv2[u]]) = NoTime THEN "running" ELSE "ready"
    <3>1. CASE u = t
      BY <1>1, <3>1
    <3>2. CASE u # t
      BY <1>1, <1>2, <3>2 DEF Fit, ServingFit, KeepsTimes
    <3> QED
      BY <3>1, <3>2
  <2>4. \A u, v \in Tasks : sv2[u] = sv2[v] /\ sv2[u] # NoExecution => u = v
    BY <1>1, <1>2 DEF Fit, ServingFit
  <2> QED
    BY <2>2, <2>3, <2>4 DEF ServingFit
<1>9. RoomFit(n, y, sv2, o2, wh, hm2)
  <2>1. \A u \in Tasks : sv2[u] # NoExecution => hm2[sv2[u]] = o2[u]
    BY <1>1, <1>2 DEF Fit, RoomFit
  <2>2. \A c \in Executions : Tried(y[c]) => Occupies(n, y, sv2, c) \subseteq wh[hm2[c]]
    BY <1>1, <1>5, <1>6, <1>7 DEF Fit, RoomFit
  <2>3. ASSUME NEW b \in Executions, NEW c \in Executions,
               b # c, Tried(y[b]), Tried(y[c]), hm2[b] = hm2[c]
        PROVE  Occupies(n, y, sv2, b) \cap Occupies(n, y, sv2, c) = {}
    <3>1. CASE b = e \/ c = e
      BY <1>6, <3>1
    <3>2. CASE b # e /\ c # e
      BY <1>1, <1>5, <1>7, <2>3, <3>2 DEF Fit, RoomFit
    <3> QED
      BY <3>1, <3>2
  <2> QED
    BY <2>1, <2>2, <2>3 DEF RoomFit
<1>10. RanFit(n, y, rn, hm2)
  BY <1>1, <1>5, <1>7 DEF Fit, RanFit
<1> QED
  BY <1>8, <1>9, <1>10 DEF Fit

\* Task t begins another attempt of the item it serves.
LEMMA FitAgain ==
  ASSUME NEW n \in Nat, NEW x, NEW sv \in [Tasks -> Executions \cup {NoExecution}],
         NEW d, NEW o, NEW wh, NEW rn, NEW hm,
         Fit(n, x, sv, d, o, wh, rn, hm),
         NEW t \in Tasks, sv[t] \in Executions,
         NEW y, \A c \in Executions \ {sv[t]} : KeepsTimes(x[c], y[c]),
         Tried(y[sv[t]]), FirstStart(y[sv[t]]) = FirstStart(x[sv[t]]),
         LastEnd(y[sv[t]]) = NoTime,
         NEW d2, \A u \in Tasks \ {t} : d2[u] = d[u],
         d2[t] = "running"
  PROVE  Fit(n, y, sv, d2, o, wh, rn, hm)
<1> DEFINE e == sv[t]
<1>1. /\ e # NoExecution /\ Tried(x[e]) /\ Served(sv, e)
      /\ FirstStart(x[e]) \in Nat /\ FirstStart(x[e]) <= n
      /\ HeldUntil(n, x[e]) \in Nat /\ HeldUntil(n, x[e]) <= n
  BY AttemptAssumption DEF Fit, ServingFit, HeldUntil, Served
<1>2. \A u \in Tasks \ {t} : sv[u] # e
  BY <1>1 DEF Fit, ServingFit
<1>3. \A c \in Executions : Tried(y[c]) <=> Tried(x[c])
  BY <1>1 DEF KeepsTimes
<1>4. \A c \in Executions : Tried(x[c]) =>
        /\ Occupies(n, y, sv, c) = Occupies(n, x, sv, c)
        /\ FirstStart(y[c]) = FirstStart(x[c])
        /\ HeldUntil(n, y[c]) = HeldUntil(n, x[c])
           \/ /\ HeldUntil(n, y[c]) = n /\ HeldUntil(n, x[c]) \in Nat
              /\ HeldUntil(n, x[c]) <= n
  BY <1>1 DEF Occupies, KeepsTimes, HeldUntil
<1>5. ServingFit(n, y, sv, d2)
  <2>1. ASSUME NEW c \in Executions, Tried(y[c])
        PROVE  /\ FirstStart(y[c]) \in Nat /\ FirstStart(y[c]) <= n
               /\ \/ LastEnd(y[c]) = NoTime /\ Served(sv, c)
                  \/ LastEnd(y[c]) \in Nat /\ FirstStart(y[c]) <= LastEnd(y[c])
                     /\ LastEnd(y[c]) <= n
    <3>1. CASE c = e
      BY <1>1, <3>1
    <3>2. CASE c # e
      BY <2>1, <3>2 DEF Fit, ServingFit, KeepsTimes
    <3> QED
      BY <3>1, <3>2
  <2>2. ASSUME NEW u \in Tasks
        PROVE  \/ sv[u] = NoExecution /\ d2[u] # "running"
               \/ /\ sv[u] \in Executions /\ Tried(y[sv[u]])
                  /\ d2[u] = IF LastEnd(y[sv[u]]) = NoTime THEN "running" ELSE "ready"
    <3>1. CASE u = t
      BY <1>1, <3>1
    <3>2. CASE u # t
      BY <1>2, <3>2 DEF Fit, ServingFit, KeepsTimes
    <3> QED
      BY <3>1, <3>2
  <2> QED
    BY <2>1, <2>2 DEF Fit, ServingFit
<1>6. RoomFit(n, y, sv, o, wh, hm)
  BY <1>3, <1>4 DEF Fit, RoomFit
<1>7. RanFit(n, y, rn, hm)
  <2> SUFFICES ASSUME NEW w \in Workers, NEW s \in rn[w]
               PROVE  \E c \in Executions :
                        /\ Tried(y[c]) /\ hm[c] = w
                        /\ s \in FirstStart(y[c]) .. (HeldUntil(n, y[c]) - 1)
    BY DEF RanFit
  <2>1. PICK c \in Executions : /\ Tried(x[c]) /\ hm[c] = w
                                /\ s \in FirstStart(x[c]) .. (HeldUntil(n, x[c]) - 1)
    BY DEF Fit, RanFit
  <2>2. s \in FirstStart(y[c]) .. (HeldUntil(n, y[c]) - 1)
    BY <1>4, <2>1
  <2> QED
    BY <1>3, <2>1, <2>2
<1> QED
  BY <1>5, <1>6, <1>7 DEF Fit

\* A second goes by.
LEMMA FitTicks ==
  ASSUME NEW n \in Nat, NEW x, NEW sv, NEW d, NEW o, NEW wh, NEW rn,
         NEW hm, Fit(n, x, sv, d, o, wh, rn, hm),
         NEW wh2, NEW rn2,
         \A w \in Workers : wh[w] \subseteq wh2[w] /\ rn2[w] \subseteq rn[w] \cup {n},
         \A t \in Tasks : d[t] \in {"ready", "running"} => n \in wh2[o[t]],
         \A t, u \in Tasks : /\ d[t] \in {"ready", "running"} /\ d[u] \in {"ready", "running"}
                             /\ o[t] = o[u]
                             => t = u,
         \A w \in Workers : n \in rn2[w] => \E t \in Tasks : d[t] = "running" /\ o[t] = w,
         \A e \in Executions : hm[e] \in Workers
  PROVE  Fit(n + 1, x, sv, d, o, wh2, rn2, hm)
<1>1. ServingFit(n + 1, x, sv, d)
  <2>1. \A e \in Executions : Tried(x[e]) =>
          /\ FirstStart(x[e]) \in Nat /\ FirstStart(x[e]) <= n
          /\ \/ LastEnd(x[e]) = NoTime /\ Served(sv, e)
             \/ LastEnd(x[e]) \in Nat /\ FirstStart(x[e]) <= LastEnd(x[e]) /\ LastEnd(x[e]) <= n
    BY DEF Fit, ServingFit
  <2> QED
    BY <2>1 DEF Fit, ServingFit
<1>2. ASSUME NEW e \in Executions, Tried(x[e])
      PROVE  /\ FirstStart(x[e]) \in Nat /\ FirstStart(x[e]) <= n
             /\ Served(sv, e) => /\ Occupies(n + 1, x, sv, e) = Occupies(n, x, sv, e) \cup {n}
                                 /\ n \in wh2[hm[e]]
             /\ ~Served(sv, e) => Occupies(n + 1, x, sv, e) = Occupies(n, x, sv, e)
             /\ n \notin Occupies(n, x, sv, e)
             /\ HeldUntil(n, x[e]) \in Nat /\ HeldUntil(n + 1, x[e]) \in Nat
             /\ HeldUntil(n, x[e]) <= HeldUntil(n + 1, x[e])
  <2>1. /\ FirstStart(x[e]) \in Nat /\ FirstStart(x[e]) <= n
        /\ \/ LastEnd(x[e]) = NoTime /\ Served(sv, e)
           \/ LastEnd(x[e]) \in Nat /\ FirstStart(x[e]) <= LastEnd(x[e]) /\ LastEnd(x[e]) <= n
    BY <1>2 DEF Fit, ServingFit
  <2>2. CASE Served(sv, e)
    <3>1. PICK t \in Tasks : sv[t] = e
      BY <2>2 DEF Served
    <3>2. d[t] \in {"ready", "running"} /\ hm[e] = o[t]
      BY <3>1, AttemptAssumption DEF Fit, ServingFit, RoomFit
    <3>3. n \in wh2[hm[e]]
      BY <3>2
    <3>4. Occupies(n, x, sv, e) = FirstStart(x[e]) .. (n - 1)
          /\ Occupies(n + 1, x, sv, e) = FirstStart(x[e]) .. n
      BY <2>2 DEF Occupies
    <3> QED
      BY <2>1, <2>2, <3>3, <3>4, PoolAssumption DEF HeldUntil
  <2>3. CASE ~Served(sv, e)
    <3>1. Occupies(n, x, sv, e) = FirstStart(x[e]) .. (LastEnd(x[e]) - 1)
          /\ Occupies(n + 1, x, sv, e) = FirstStart(x[e]) .. (LastEnd(x[e]) - 1)
      BY <2>3 DEF Occupies
    <3> QED
      BY <2>1, <2>3, <3>1, PoolAssumption DEF HeldUntil
  <2> QED
    BY <2>2, <2>3
<1>3. RoomFit(n + 1, x, sv, o, wh2, hm)
  <2>1. \A t \in Tasks : sv[t] # NoExecution => hm[sv[t]] = o[t]
    BY DEF Fit, RoomFit
  <2>2. ASSUME NEW e \in Executions, Tried(x[e])
        PROVE  Occupies(n + 1, x, sv, e) \subseteq wh2[hm[e]]
    <3>1. Occupies(n, x, sv, e) \subseteq wh2[hm[e]]
      BY <2>2 DEF Fit, RoomFit
    <3> QED
      BY <1>2, <2>2, <3>1
  <2>3. ASSUME NEW c \in Executions, NEW e \in Executions,
               c # e, Tried(x[c]), Tried(x[e]), hm[c] = hm[e]
        PROVE  Occupies(n + 1, x, sv, c) \cap Occupies(n + 1, x, sv, e) = {}
    <3>1. Occupies(n, x, sv, c) \cap Occupies(n, x, sv, e) = {}
      BY <2>3 DEF Fit, RoomFit
    <3>2. ~(Served(sv, c) /\ Served(sv, e))
      <4> SUFFICES ASSUME Served(sv, c), Served(sv, e) PROVE FALSE
        OBVIOUS
      <4>1. PICK t \in Tasks : sv[t] = c
        BY DEF Served
      <4>2. PICK u \in Tasks : sv[u] = e
        BY DEF Served
      <4>3. /\ d[t] \in {"ready", "running"} /\ d[u] \in {"ready", "running"}
            /\ o[t] = o[u]
        BY <2>3, <4>1, <4>2, AttemptAssumption DEF Fit, ServingFit, RoomFit
      <4>4. t = u
        BY <4>3
      <4> QED
        BY <2>3, <4>1, <4>2, <4>4
    <3> QED
      BY <1>2, <2>3, <3>1, <3>2
  <2> QED
    BY <2>1, <2>2, <2>3 DEF RoomFit
<1>4. RanFit(n + 1, x, rn2, hm)
  <2> SUFFICES ASSUME NEW w \in Workers, NEW s \in rn2[w]
               PROVE  \E c \in Executions :
                        /\ Tried(x[c]) /\ hm[c] = w
                        /\ s \in FirstStart(x[c]) .. (HeldUntil(n + 1, x[c]) - 1)
    BY DEF RanFit
  <2>1. CASE s = n
    <3>1. PICK t \in Tasks : d[t] = "running" /\ o[t] = w
      BY <2>1
    <3>2. /\ sv[t] \in Executions /\ Tried(x[sv[t]]) /\ LastEnd(x[sv[t]]) = NoTime
          /\ hm[sv[t]] = w
      BY <3>1, AttemptAssumption DEF Fit, ServingFit, RoomFit
    <3>3. HeldUntil(n + 1, x[sv[t]]) = n + 1
      BY <3>2 DEF HeldUntil
    <3>4. s \in FirstStart(x[sv[t]]) .. (HeldUntil(n + 1, x[sv[t]]) - 1)
      BY <1>2, <2>1, <3>2, <3>3
    <3> QED
      BY <3>2, <3>4
  <2>2. CASE s # n
    <3>1. s \in rn[w]
      BY <2>2
    <3>2. PICK c \in Executions : /\ Tried(x[c]) /\ hm[c] = w
                                  /\ s \in FirstStart(x[c]) .. (HeldUntil(n, x[c]) - 1)
      BY <3>1 DEF Fit, RanFit
    <3>3. s \in FirstStart(x[c]) .. (HeldUntil(n + 1, x[c]) - 1)
      BY <1>2, <3>2
    <3> QED
      BY <3>2, <3>3
  <2> QED
    BY <2>1, <2>2
<1> QED
  BY <1>1, <1>3, <1>4 DEF Fit

\* No item is queued twice, or after its first attempt has begun.
LineFit(x, q) ==
  /\ \A m \in 1 .. Len(q) : ~Tried(x[q[m]])
  /\ \A m, k \in 1 .. Len(q) : q[m] = q[k] => m = k

(* The seconds in which each worker was warm (wh) and ran (rn), and the       *)
(* worker that holds or held each item (hm): the trace adds up because the    *)
(* items find room, side by side, in the seconds their workers were warm, and *)
(* fill those in which they ran.                                              *)
TraceInv(wh, rn, hm) ==
  /\ Books(now, warmTime, workers, wh, rn)
  /\ Fit(now, execution, serving, doing, on, wh, rn, hm)
  /\ LineFit(execution, line)

TInv ==
  user = "service" =>
    \E wh, rn \in [Workers -> SUBSET Nat], hm \in [Executions -> Workers] : TraceInv(wh, rn, hm)

-----------------------------------------------------------------------------
\* The ends of the spans of a record that was tried are spans.
LEMMA TriedLen ==
  ASSUME NEW r \in StepRun
  PROVE  /\ Len(r.spans) \in Nat
         /\ Tried(r) <=> 1 \in 1 .. Len(r.spans)
         /\ Tried(r) => Len(r.spans) \in 1 .. Len(r.spans)
<1>1. r.spans \in Seq(AttemptSpan)
  BY DEF StepRun
<1> QED
  BY <1>1 DEF Tried

\* A record with the same spans is held for the same time.
LEMMA SameSpans ==
  \A r, y : y.spans = r.spans => KeepsTimes(r, y)
  BY DEF KeepsTimes, Tried, FirstStart, LastEnd

\* What closing and beginning a span does to the time an item is held
LEMMA ClosedTimes ==
  ASSUME now \in Nat, NEW r \in StepRun, Tried(r), NEW o \in Outcomes \cup {"running"}
  PROVE  /\ Tried(Closed(r, o)) /\ FirstStart(Closed(r, o)) = FirstStart(r)
         /\ LastEnd(Closed(r, o)) = HeldUntil(now, r)
<1> DEFINE x == Closed(r, o)
<1>1. /\ x \in StepRun /\ Len(x.spans) = Len(r.spans)
      /\ \A m \in 1 .. Len(r.spans) :
           /\ x.spans[m].start = r.spans[m].start
           /\ x.spans[m].end = IF m = Len(r.spans) /\ r.spans[m].end = NoTime
                               THEN now ELSE r.spans[m].end
  BY ClosedRun DEF KeepsAttempts
<1> HIDE DEF x
<1>2. 1 \in 1 .. Len(r.spans) /\ Len(r.spans) \in 1 .. Len(r.spans) /\ Tried(x)
  BY <1>1, TriedLen
<1> QED
  BY <1>1, <1>2 DEF FirstStart, LastEnd, HeldUntil, x

\* The first attempt begins the time an item is held, and each one leaves it open.
LEMMA BegunTimes ==
  ASSUME now \in Nat, AttemptsTypeOK, NEW e \in Executions, HasInput(execution, e)
  PROVE  /\ Tried(Begun(e)) /\ LastEnd(Begun(e)) = NoTime
         /\ FirstStart(Begun(e)) = IF Tried(execution[e]) THEN FirstStart(execution[e]) ELSE now
<1> DEFINE r == execution[e]
           x == Begun(e)
           n == Len(r.spans)
<1>1. /\ x \in StepRun /\ Len(x.spans) = n + 1
      /\ \A m \in 1 .. n : x.spans[m] = r.spans[m]
      /\ x.spans[n + 1].start = now /\ x.spans[n + 1].end = NoTime
  BY BegunRun
<1>2. r \in StepRun
  BY DEF AttemptsTypeOK
<1>3. n \in Nat /\ (Tried(r) <=> 1 \in 1 .. n) /\ Tried(x)
  <2>1. n \in Nat /\ (Tried(r) <=> 1 \in 1 .. n)
    BY <1>2, TriedLen
  <2> HIDE DEF x
  <2> QED
    BY <1>1, <2>1, TriedLen
<1> HIDE DEF x, n, r
<1>4. LastEnd(x) = NoTime
  BY <1>1 DEF LastEnd
<1>5. FirstStart(x) = IF Tried(r) THEN FirstStart(r) ELSE now
  <2>1. CASE Tried(r)
    BY <1>1, <1>3, <2>1 DEF FirstStart
  <2>2. CASE ~Tried(r)
    <3>1. n = 0
      BY <1>3, <2>2
    <3> QED
      BY <1>1, <2>2, <3>1 DEF FirstStart
  <2> QED
    BY <2>1, <2>2
<1> QED
  BY <1>3, <1>4, <1>5 DEF x, r

\* A runner that serves nothing runs nothing; one that serves an item runs when
\* its last span is open.
LEMMA IdleFit ==
  ASSUME NEW n, NEW x, NEW sv, NEW d, NEW o, NEW wh, NEW rn, NEW hm,
         Fit(n, x, sv, d, o, wh, rn, hm)
  PROVE  \A t \in Tasks : /\ sv[t] = NoExecution <=> sv[t] \notin Executions
                          /\ sv[t] = NoExecution => d[t] # "running"
                          /\ sv[t] \in Executions => /\ Tried(x[sv[t]])
                                                     /\ d[t] = IF LastEnd(x[sv[t]]) = NoTime
                                                              THEN "running" ELSE "ready"
  BY AttemptAssumption DEF Fit, ServingFit

\* An item that nobody has tried joins the line.
LEMMA EnqueueTrace ==
  ASSUME AInv, NEW wh, NEW rn, NEW hm, PoolTypeOK, TraceInv(wh, rn, hm),
         NEW e \in Executions, NEW i \in StepInputs, Enqueue(e, i)
  PROVE  TraceInv(wh, rn, hm)'
<1>1. execution[e].state = "none" /\ execution[e].spans = <<>> /\ ~Tried(execution[e])
  BY DEF Enqueue, AInv, Placed, HasInput, Tried
<1>2. \A c \in Executions : execution'[c].spans = execution[c].spans
  BY DEF Enqueue, AInv, AttemptsTypeOK, StepRun
<1>3. \A c \in Executions : KeepsTimes(execution[c], execution'[c])
  BY <1>2, SameSpans
<1>4. /\ UNCHANGED <<pvars, serving>> /\ line' = Append(line, e) /\ line \in Seq(Executions)
      /\ now \in Nat
  BY DEF Enqueue, AInv, AttemptsTypeOK, PoolTypeOK
<1>5. \A m \in 1 .. Len(line) : line[m] # e /\ line[m] \in Executions
  BY <1>1, <1>4 DEF AInv, Placed, HasInput
<1>6. /\ Len(line') = Len(line) + 1 /\ line'[Len(line) + 1] = e /\ Len(line) \in Nat
      /\ \A m \in 1 .. Len(line) : line'[m] = line[m]
  BY <1>4
<1>7. LineFit(execution', line')
  BY <1>1, <1>3, <1>5, <1>6 DEF TraceInv, LineFit, KeepsTimes
<1>8. Fit(now, execution', serving, doing, on, wh, rn, hm)
  <2>1. Fit(now, execution, serving, doing, on, wh, rn, hm)
    BY DEF TraceInv
  <2>2. \A t \in Tasks : serving[t] = NoExecution => doing[t] # "running"
    BY <2>1, IdleFit
  <2> QED
    BY <1>3, <1>4, <2>1, <2>2, FitRests
<1> QED
  BY <1>4, <1>7, <1>8 DEF TraceInv, pvars

\* A cancel of a job touches the flag and the line, not the spans.
LEMMA CancelTrace ==
  ASSUME AInv, NEW wh, NEW rn, NEW hm, PoolTypeOK, TraceInv(wh, rn, hm),
         NEW e \in Executions, CancelExecution(e)
  PROVE  TraceInv(wh, rn, hm)'
<1>1. \A c \in Executions : execution'[c].spans = execution[c].spans
  BY DEF CancelExecution, AInv, AttemptsTypeOK, StepRun, Resolved
<1>2. \A c \in Executions : KeepsTimes(execution[c], execution'[c])
  BY <1>1, SameSpans
<1>3. /\ UNCHANGED <<pvars, serving>> /\ line' = RemoveFirst(line, e) /\ line \in Seq(Executions)
      /\ now \in Nat
  BY DEF CancelExecution, AInv, AttemptsTypeOK, PoolTypeOK
<1>4. /\ \A n \in 1 .. Len(line') : \E m \in 1 .. Len(line) : line'[n] = line[m]
      /\ \A m, n \in 1 .. Len(line') : line'[m] = line'[n] => m = n
  BY <1>3, RemoveFirstOK DEF TraceInv, LineFit
<1>5. \A m \in 1 .. Len(line) : line[m] \in Executions /\ ~Tried(execution[line[m]])
  BY <1>3 DEF TraceInv, LineFit
<1>6. LineFit(execution', line')
  BY <1>2, <1>4, <1>5 DEF LineFit, KeepsTimes
<1>7. Fit(now, execution', serving, doing, on, wh, rn, hm)
  <2>1. Fit(now, execution, serving, doing, on, wh, rn, hm)
    BY DEF TraceInv
  <2>2. \A t \in Tasks : serving[t] = NoExecution => doing[t] # "running"
    BY <2>1, IdleFit
  <2> QED
    BY <1>2, <1>3, <2>1, <2>2, FitRests
<1> QED
  BY <1>3, <1>6, <1>7 DEF TraceInv, pvars

\* A task moves from one await to another.
LEMMA TurnsKeepOthers ==
  ASSUME PoolTypeOK, NEW t \in Tasks,
         \/ Enter(t) \/ WarmReturns(t) \/ WarmRuns(t)
         \/ Run(t) \/ RunEnds(t) \/ RunNext(t) \/ Leave(t)
  PROVE  /\ \A u \in Tasks \ {t} : doing'[u] = doing[u] /\ on'[u] = on[u]
         /\ Enter(t) => doing[t] = "out" /\ doing'[t] \in {"warming", "ready"}
         /\ WarmReturns(t) => doing[t] = "warming" /\ doing'[t] = "ready"
         /\ WarmRuns(t) => doing[t] = "warming" /\ doing'[t] = "running"
         /\ Run(t) => doing[t] = "ready" /\ doing'[t] = "running" /\ on'[t] = on[t]
         /\ RunEnds(t) => doing[t] = "running" /\ doing'[t] = "ready" /\ on'[t] = on[t]
         /\ RunNext(t) => doing[t] = "running" /\ doing'[t] = "running" /\ on'[t] = on[t]
         /\ Leave(t) => doing[t] # "out" /\ doing'[t] = "out"
<1>1. doing \in [Tasks -> {"out", "warming", "ready", "running"}] /\ on \in [Tasks -> Workers]
  BY DEF PoolTypeOK
<1> QED
  BY <1>1 DEF Enter, Lease, WarmReturns, WarmRuns, WarmDone, Run, RunEnds, RunNext, Leave, Becomes

\* Runner t, which serves nothing, goes on with the head of the line; the
\* records are those of x, where no item begins or ends.
LEMMA TakesTrace ==
  ASSUME AInv, now \in Nat, now' = now, NEW wh, NEW rn, NEW hm \in [Executions -> Workers],
         NEW x \in [Executions -> StepRun],
         NEW sv \in [Tasks -> Executions \cup {NoExecution}], NEW d, NEW o,
         Fit(now, x, sv, d, o, wh, rn, hm),
         LineFit(execution, line),
         \A c \in Executions : Tried(execution[c]) \/ x[c] = execution[c],
         line # <<>>, NEW t \in Tasks, sv[t] = NoExecution, Takes(t, x),
         \A u \in Tasks \ {t} : serving'[u] = sv[u] /\ doing'[u] = d[u] /\ on'[u] = o[u],
         serving \in [Tasks -> Executions \cup {NoExecution}], doing'[t] = "running",
         on'[t] \in Workers
  PROVE  \E g \in [Executions -> Workers] :
           /\ Fit(now', execution', serving', doing', on', wh, rn, g)
           /\ LineFit(execution', line')
<1>1. PICK e \in Executions :
        /\ e = Head(line) /\ e = line[1] /\ 1 \in 1 .. Len(line)
        /\ \A n \in 1 .. Len(Tail(line)) : n + 1 \in 1 .. Len(line) /\ Tail(line)[n] = line[n + 1]
  BY DEF AInv, AttemptsTypeOK
<1>2. HasInput(execution, e) /\ x[e] = execution[e] /\ ~Tried(x[e])
  BY <1>1 DEF AInv, Placed, LineFit
<1>3. Tried(Begun(e)) /\ LastEnd(Begun(e)) = NoTime /\ FirstStart(Begun(e)) = now
  BY <1>2, BegunTimes DEF AInv
<1>4. /\ execution' = [x EXCEPT ![e] = Begun(e)] /\ line' = Tail(line)
      /\ serving' = [serving EXCEPT ![t] = e]
  BY <1>1 DEF Takes, Begins
<1>5. /\ execution'[e] = Begun(e) /\ \A c \in Executions \ {e} : execution'[c] = x[c]
  BY <1>4
<1>6. \A c \in Executions \ {e} : KeepsTimes(x[c], execution'[c])
  BY <1>5, SameSpans
<1>7. PICK g \in [Executions -> Workers] :
        g[e] = on'[t] /\ \A c \in Executions \ {e} : g[c] = hm[c]
  <2>1. [hm EXCEPT ![e] = on'[t]] \in [Executions -> Workers]
    OBVIOUS
  <2> QED
    BY <2>1
<1>8. Fit(now, execution', serving', doing', on', wh, rn, g)
  <2>1. Tried(execution'[e]) /\ FirstStart(execution'[e]) = now /\ LastEnd(execution'[e]) = NoTime
    BY <1>3, <1>5
  <2>2. serving'[t] = e /\ \A u \in Tasks \ {t} : serving'[u] = sv[u]
    BY <1>4
  <2>3. \A u \in Tasks \ {t} : doing'[u] = d[u] /\ on'[u] = o[u]
    OBVIOUS
  <2>4. now \in Nat /\ Fit(now, x, sv, d, o, wh, rn, hm) /\ sv[t] = NoExecution /\ doing'[t] = "running"
    OBVIOUS
  <2> QED
    BY ONLY <1>2, <1>6, <1>7, <2>1, <2>2, <2>3, <2>4, FitTakes
<1>9. LineFit(execution', line')
  <2>1. ASSUME NEW n \in 1 .. Len(line')
        PROVE  ~Tried(execution'[line'[n]]) /\ n + 1 \in 1 .. Len(line) /\ line'[n] = line[n + 1]
    <3>1. n + 1 \in 1 .. Len(line) /\ line'[n] = line[n + 1] /\ n + 1 # 1
      BY <1>1, <1>4
    <3>2. line'[n] # e /\ line'[n] \in Executions
      BY <1>1, <3>1 DEF LineFit, AInv, AttemptsTypeOK
    <3>3. ~Tried(execution[line'[n]])
      BY <3>1 DEF LineFit
    <3>4. execution'[line'[n]] = execution[line'[n]]
      BY <1>5, <3>2, <3>3
    <3> QED
      BY <3>1, <3>3, <3>4
  <2>2. \A m, n \in 1 .. Len(line') : line'[m] = line'[n] => m = n
    BY SMTT(30), <2>1 DEF LineFit
  <2> QED
    BY <2>1, <2>2 DEF LineFit
<1>10. Fit(now', execution', serving', doing', on', wh, rn, g)
  BY <1>8
<1> QED
  BY <1>7, <1>9, <1>10

\* A runner that serves nothing goes on serving nothing.
LEMMA RestTrace ==
  ASSUME PInv, NEW wh, NEW rn, NEW hm, TraceInv(wh, rn, hm),
         NEW t \in Tasks, serving[t] = NoExecution,
         Enter(t) \/ WarmReturns(t) \/ Leave(t),
         UNCHANGED <<execution, line, serving>>
  PROVE  TraceInv(wh, rn, hm)'
<1>1. PoolTypeOK /\ now \in Nat
  BY PoolTypes, PoolAssumption DEF PInv
<1>2. Books(now', warmTime', workers', wh, rn) /\ now' = now
  BY BooksStay, TurnKeepsBusy DEF TraceInv
<1>3. Fit(now, execution, serving, doing, on, wh, rn, hm)
  BY DEF TraceInv
<1>4. /\ \A u \in Tasks \ {t} : doing'[u] = doing[u] /\ on'[u] = on[u]
      /\ doing'[t] # "running"
  BY <1>1, TurnsKeepOthers
<1>5. \A c \in Executions : KeepsTimes(execution[c], execution[c])
  BY SameSpans
<1>6. \A u \in Tasks : serving[u] = NoExecution => doing[u] # "running"
  BY <1>3, IdleFit
<1>7. \A u \in Tasks : serving[u] # NoExecution => doing'[u] = doing[u] /\ on'[u] = on[u]
  BY <1>4
<1>8. \A u \in Tasks : serving[u] = NoExecution => doing'[u] # "running"
  BY <1>4, <1>6
<1>9. Fit(now, execution, serving, doing', on', wh, rn, hm)
  BY ONLY <1>1, <1>3, <1>5, <1>7, <1>8, FitRests
<1> QED
  BY <1>2, <1>9 DEF TraceInv

\* A runner that serves nothing takes the head of the line.
LEMMA FirstTakesTrace ==
  ASSUME PInv, AInv, NEW wh, NEW rn, NEW hm \in [Executions -> Workers], TraceInv(wh, rn, hm),
         NEW t \in Tasks, serving[t] = NoExecution, WarmRuns(t) \/ Run(t),
         line # <<>>, Takes(t, execution)
  PROVE  \E g \in [Executions -> Workers] : TraceInv(wh, rn, g)'
<1>1. PoolTypeOK /\ PoolTypeOK' /\ now \in Nat /\ on'[t] \in Workers
  <2>1. PInv'
    BY WarmStep, RunStep
  <2>2. PoolTypeOK /\ PoolTypeOK' /\ now \in Nat
    BY <2>1, PoolTypes, PoolAssumption DEF PInv
  <2>3. on'[t] \in Workers
    BY <2>2 DEF PoolTypeOK
  <2> QED
    BY <2>2, <2>3
<1>2. Books(now', warmTime', workers', wh, rn) /\ now' = now
  BY BooksStay, TurnKeepsBusy DEF TraceInv
<1>3. Fit(now, execution, serving, doing, on, wh, rn, hm) /\ LineFit(execution, line)
  BY DEF TraceInv
<1>4. /\ \A u \in Tasks \ {t} : doing'[u] = doing[u] /\ on'[u] = on[u]
      /\ doing'[t] = "running"
  BY <1>1, TurnsKeepOthers
<1>5. /\ execution \in [Executions -> StepRun]
      /\ serving \in [Tasks -> Executions \cup {NoExecution}]
  BY DEF AInv, AttemptsTypeOK
<1>6. \A u \in Tasks \ {t} : serving'[u] = serving[u]
  BY <1>5 DEF Takes
<1>7. \A c \in Executions : Tried(execution[c]) \/ execution[c] = execution[c]
  OBVIOUS
<1>8. \E g \in [Executions -> Workers] :
           /\ Fit(now', execution', serving', doing', on', wh, rn, g)
           /\ LineFit(execution', line')
  <2>1. AInv /\ hm \in [Executions -> Workers] /\ t \in Tasks /\ serving[t] = NoExecution
        /\ line # <<>> /\ Takes(t, execution)
    OBVIOUS
  <2> QED
    BY ONLY <2>1, <1>1, <1>2, <1>3, <1>4, <1>5, <1>6, <1>7, TakesTrace
<1> QED
  BY <1>2, <1>8 DEF TraceInv

\* The line stays as it is while the item that runner t serves changes.
LEMMA LineStays ==
  ASSUME AInv, LineFit(execution, line), NEW e \in Executions, Tried(execution[e]),
         NEW y, \A c \in Executions \ {e} : y[c] = execution[c]
  PROVE  LineFit(y, line)
<1>1. \A m \in 1 .. Len(line) : line[m] \in Executions /\ line[m] # e
  BY DEF AInv, AttemptsTypeOK, LineFit
<1> QED
  BY <1>1 DEF LineFit

\* The span of the item that runner t serves is closed, in record x.
LEMMA EndTrace ==
  ASSUME PInv, AInv, NEW wh, NEW rn, NEW hm, TraceInv(wh, rn, hm),
         NEW t \in Tasks, NEW e \in Executions, serving[t] = e,
         NEW o \in Outcomes \cup {"running"},
         NEW x \in StepRun, x.spans = Closed(execution[e], o).spans,
         NEW y, y[e] = x, \A c \in Executions \ {e} : y[c] = execution[c],
         NEW sv, NEW d, NEW w,
         \A u \in Tasks \ {t} : sv[u] = serving[u] /\ d[u] = doing[u] /\ w[u] = on[u],
         \/ sv[t] = serving[t] /\ d[t] = "ready" /\ w[t] = on[t]
         \/ sv[t] = NoExecution /\ d[t] # "running"
  PROVE  Fit(now, y, sv, d, w, wh, rn, hm)
<1>1. now \in Nat /\ execution \in [Executions -> StepRun]
      /\ serving \in [Tasks -> Executions \cup {NoExecution}]
  BY PoolTypes, PoolAssumption DEF PInv, AInv, AttemptsTypeOK
<1>2. Fit(now, execution, serving, doing, on, wh, rn, hm) /\ LineFit(execution, line)
  BY DEF TraceInv
<1>3. Tried(execution[e])
  BY <1>2, IdleFit
<1>4. /\ Tried(Closed(execution[e], o))
      /\ FirstStart(Closed(execution[e], o)) = FirstStart(execution[e])
      /\ LastEnd(Closed(execution[e], o)) = HeldUntil(now, execution[e])
  BY <1>1, <1>3, ClosedTimes
<1>5. KeepsTimes(Closed(execution[e], o), x)
  BY SameSpans
<1>6. /\ Tried(x) /\ FirstStart(x) = FirstStart(execution[e])
      /\ LastEnd(x) = HeldUntil(now, execution[e])
  BY <1>4, <1>5 DEF KeepsTimes
<1>7. y[e] = x /\ \A c \in Executions \ {e} : y[c] = execution[c]
  OBVIOUS
<1>8. \A c \in Executions \ {e} : KeepsTimes(execution[c], y[c])
  BY <1>7, SameSpans
<1>9. /\ Tried(y[e]) /\ FirstStart(y[e]) = FirstStart(execution[e])
      /\ LastEnd(y[e]) = HeldUntil(now, execution[e])
  BY <1>6, <1>7
<1>10. Fit(now, y, sv, d, w, wh, rn, hm)
  <2>1. /\ t \in Tasks /\ e \in Executions /\ serving[t] = e
        /\ \A u \in Tasks \ {t} : sv[u] = serving[u] /\ d[u] = doing[u] /\ w[u] = on[u]
        /\ \/ sv[t] = serving[t] /\ d[t] = "ready" /\ w[t] = on[t]
           \/ sv[t] = NoExecution /\ d[t] # "running"
    OBVIOUS
  <2> QED
    BY ONLY <1>1, <1>2, <1>8, <1>9, <2>1, FitEnds
<1> QED
  BY <1>10

\* An attempt ends: the item goes into its backoff, or the runner rests or goes on.
LEMMA AttemptEndsTrace ==
  ASSUME PInv, AInv, NEW wh, NEW rn, NEW hm \in [Executions -> Workers], TraceInv(wh, rn, hm),
         NEW t \in Tasks, NEW o \in Failures \cup {"ok"}, AttemptEnds(t, o)
  PROVE  \E g \in [Executions -> Workers] : TraceInv(wh, rn, g)'
<1>0. PInv /\ AInv /\ TraceInv(wh, rn, hm) /\ t \in Tasks /\ hm \in [Executions -> Workers]
  OBVIOUS
<1>1. /\ PoolTypeOK /\ now \in Nat /\ execution \in [Executions -> StepRun]
      /\ serving \in [Tasks -> Executions \cup {NoExecution}]
      /\ o \in Outcomes \cup {"running"}
      /\ on \in [Tasks -> Workers] /\ doing \in [Tasks -> TaskStates]
  BY PoolTypes, PoolAssumption, AttemptAssumption DEF PInv, AInv, AttemptsTypeOK, Outcomes
<1>2. Fit(now, execution, serving, doing, on, wh, rn, hm) /\ LineFit(execution, line)
  BY DEF TraceInv
<1>3. PICK e \in Executions : serving[t] = e /\ Tried(execution[e])
  <2>1. doing[t] = "running"
    BY DEF AttemptEnds
  <2> QED
    BY <1>1, <1>2, <2>1, IdleFit
<1>4. PICK r \in StepRun : r = Closed(execution[e], o)
  BY <1>1, ClosedRun
<1>5. /\ RunEnds(t) \/ RunNext(t)
      /\ \/ /\ RunEnds(t) /\ UNCHANGED <<line, serving>>
            /\ \E b \in 0 .. BackoffLimit(Len(r.spans)) :
                 execution' = [execution EXCEPT ![e] = [r EXCEPT !.state = "backoff",
                                                                 !.wake = now + b]]
         \/ /\ RunEnds(t) /\ UNCHANGED line
            /\ execution' = [execution EXCEPT ![e] = Resolved(r)]
            /\ serving' = [serving EXCEPT ![t] = NoExecution]
         \/ /\ RunNext(t) /\ line # <<>>
            /\ Takes(t, [execution EXCEPT ![e] = Resolved(r)])
  BY <1>3, <1>4 DEF AttemptEnds
<1>6. Books(now', warmTime', workers', wh, rn) /\ now' = now
  BY <1>5, BooksStay, TurnKeepsBusy DEF TraceInv
<1>7. \A u \in Tasks \ {t} : doing'[u] = doing[u] /\ on'[u] = on[u]
  BY <1>1, <1>5, TurnsKeepOthers
<1>8. Resolved(r) \in StepRun /\ Resolved(r).spans = Closed(execution[e], o).spans
  BY <1>4, ResolvedRun DEF Resolved, StepRun
<1>9. CASE /\ RunEnds(t) /\ UNCHANGED <<line, serving>>
           /\ \E b \in 0 .. BackoffLimit(Len(r.spans)) :
                execution' = [execution EXCEPT ![e] = [r EXCEPT !.state = "backoff",
                                                                !.wake = now + b]]
  <2>1. PICK b \in 0 .. BackoffLimit(Len(r.spans)) :
                execution' = [execution EXCEPT ![e] = [r EXCEPT !.state = "backoff",
                                                                !.wake = now + b]]
    BY <1>9
  <2> DEFINE x == [r EXCEPT !.state = "backoff", !.wake = now + b]
  <2>2. x \in StepRun /\ x.spans = Closed(execution[e], o).spans
    <3>1. now + b \in Nat
      BY <1>1
    <3>2. x \in StepRun /\ x.spans = r.spans
      BY <3>1 DEF StepRun
    <3> QED
      BY <1>4, <3>2
  <2> HIDE DEF x
  <2>3. execution'[e] = x /\ \A c \in Executions \ {e} : execution'[c] = execution[c]
    BY <1>1, <2>1 DEF x
  <2>4. doing'[t] = "ready" /\ on'[t] = on[t] /\ serving' = serving /\ line' = line
    BY <1>1, <1>9, TurnsKeepOthers
  <2>5. \A u \in Tasks \ {t} : serving'[u] = serving[u] /\ doing'[u] = doing[u] /\ on'[u] = on[u]
    BY <1>7, <2>4
  <2>6. Fit(now, execution', serving', doing', on', wh, rn, hm)
    <3>1. o \in Outcomes \cup {"running"} /\ (serving'[t] = serving[t] /\ doing'[t] = "ready" /\ on'[t] = on[t])
      BY <1>1, <2>4
    <3> QED
      BY ONLY <1>0, <1>3, <2>2, <2>3, <2>5, <3>1, EndTrace
  <2>7. LineFit(execution', line)
    BY <1>2, <1>3, <2>3, LineStays
  <2> QED
    BY <1>6, <2>4, <2>6, <2>7 DEF TraceInv
<1>10. CASE /\ RunEnds(t) /\ UNCHANGED line
            /\ execution' = [execution EXCEPT ![e] = Resolved(r)]
            /\ serving' = [serving EXCEPT ![t] = NoExecution]
  <2>1. /\ execution'[e] = Resolved(r) /\ \A c \in Executions \ {e} : execution'[c] = execution[c]
        /\ serving'[t] = NoExecution /\ doing'[t] # "running"
    BY <1>1, <1>10, TurnsKeepOthers
  <2>2. \A u \in Tasks \ {t} : serving'[u] = serving[u] /\ doing'[u] = doing[u] /\ on'[u] = on[u]
    BY <1>1, <1>7, <1>10
  <2>3. Fit(now, execution', serving', doing', on', wh, rn, hm)
    <3>1. o \in Outcomes \cup {"running"}
      BY <1>1
    <3> QED
      BY ONLY <1>0, <1>3, <1>8, <2>1, <2>2, <3>1, EndTrace
  <2>4. LineFit(execution', line)
    BY <1>2, <1>3, <2>1, LineStays
  <2> QED
    BY <1>6, <1>10, <2>3, <2>4 DEF TraceInv
<1>11. CASE /\ RunNext(t) /\ line # <<>>
            /\ Takes(t, [execution EXCEPT ![e] = Resolved(r)])
  <2> DEFINE over == [execution EXCEPT ![e] = Resolved(r)]
             sv == [serving EXCEPT ![t] = NoExecution]
             d == [doing EXCEPT ![t] = "ready"]
  <2>1. /\ sv \in [Tasks -> Executions \cup {NoExecution}] /\ sv[t] = NoExecution
        /\ d[t] # "running"
    BY <1>1
  <2>2. \A u \in Tasks \ {t} : sv[u] = serving[u] /\ d[u] = doing[u] /\ on[u] = on[u]
    BY <1>1
  <2>3. /\ over \in [Executions -> StepRun]
        /\ over[e] = Resolved(r) /\ \A c \in Executions \ {e} : over[c] = execution[c]
        /\ \A c \in Executions : Tried(execution[c]) \/ over[c] = execution[c]
    BY <1>1, <1>3, <1>8
  <2>4. Takes(t, over) /\ line # <<>>
    BY <1>11
  <2> HIDE DEF sv, d, over
  <2>5. Fit(now, over, sv, d, on, wh, rn, hm)
    BY ONLY <1>0, <1>1, <1>3, <1>8, <2>1, <2>2, <2>3, EndTrace
  <2>6. /\ doing'[t] = "running" /\ on'[t] \in Workers
        /\ \A u \in Tasks \ {t} : serving'[u] = sv[u] /\ doing'[u] = d[u] /\ on'[u] = on[u]
    BY <1>1, <1>7, <1>11, <2>2, <2>4, TurnsKeepOthers DEF Takes
  <2>7. \E g \in [Executions -> Workers] :
           /\ Fit(now', execution', serving', doing', on', wh, rn, g)
           /\ LineFit(execution', line')
    BY ONLY <1>0, <1>1, <1>2, <1>6, <2>1, <2>3, <2>4, <2>5, <2>6, TakesTrace
  <2> QED
    BY <1>6, <2>7 DEF TraceInv
<1> QED
  BY <1>5, <1>9, <1>10, <1>11

\* Runner t makes another attempt of the item it serves.
LEMMA AgainTrace ==
  ASSUME PInv, AInv, NEW wh, NEW rn, NEW hm, TraceInv(wh, rn, hm),
         NEW t \in Tasks, BackoffOver(t)
  PROVE  TraceInv(wh, rn, hm)'
<1> DEFINE e == serving[t]
<1>1. /\ PoolTypeOK /\ now \in Nat /\ execution \in [Executions -> StepRun]
      /\ serving \in [Tasks -> Executions \cup {NoExecution}]
      /\ e \in Executions /\ HasInput(execution, e) /\ AttemptsTypeOK
      /\ on \in [Tasks -> Workers]
  BY PoolTypes, PoolAssumption DEF PInv, AInv, AttemptsTypeOK, Placed, BackoffOver
<1>2. /\ Run(t) /\ Begins(e, execution) /\ line' = line /\ serving' = serving
  BY DEF BackoffOver
<1>3. Fit(now, execution, serving, doing, on, wh, rn, hm) /\ LineFit(execution, line)
  BY DEF TraceInv
<1>4. Books(now', warmTime', workers', wh, rn) /\ now' = now
  BY <1>2, BooksStay, TurnKeepsBusy DEF TraceInv
<1>5. Tried(execution[e])
  BY <1>1, <1>3, IdleFit
<1>6. /\ Tried(Begun(e)) /\ LastEnd(Begun(e)) = NoTime
      /\ FirstStart(Begun(e)) = FirstStart(execution[e])
  BY <1>1, <1>5, BegunTimes
<1>7. execution'[e] = Begun(e) /\ \A c \in Executions \ {e} : execution'[c] = execution[c]
  BY <1>1, <1>2 DEF Begins
<1>8. \A c \in Executions \ {e} : KeepsTimes(execution[c], execution'[c])
  BY <1>7, SameSpans
<1>9. /\ Tried(execution'[e]) /\ FirstStart(execution'[e]) = FirstStart(execution[e])
      /\ LastEnd(execution'[e]) = NoTime
  BY <1>6, <1>7
<1>10. /\ \A u \in Tasks \ {t} : doing'[u] = doing[u]
       /\ doing'[t] = "running" /\ on' = on
  <2>1. on' = on
    BY <1>1, <1>2 DEF Run, Becomes
  <2> QED
    BY <1>1, <1>2, <2>1, TurnsKeepOthers
<1>11. Fit(now, execution', serving, doing', on, wh, rn, hm)
  BY ONLY <1>1, <1>3, <1>8, <1>9, <1>10, FitAgain
<1>12. LineFit(execution', line)
  <2>1. \A m \in 1 .. Len(line) : line[m] \in Executions
    BY DEF AInv, AttemptsTypeOK
  <2> QED
    BY <1>3, <1>5, <1>7, <2>1 DEF LineFit
<1> QED
  BY <1>2, <1>4, <1>10, <1>11, <1>12 DEF TraceInv

\* A runner that is cancelled closes the span of its item and lets its worker go.
LEMMA CancelledTrace ==
  ASSUME PInv, AInv, NEW wh, NEW rn, NEW hm, TraceInv(wh, rn, hm),
         NEW t \in Tasks, RunnerCancelled(t)
  PROVE  TraceInv(wh, rn, hm)'
<1>1. /\ PoolTypeOK /\ now \in Nat /\ execution \in [Executions -> StepRun]
      /\ serving \in [Tasks -> Executions \cup {NoExecution}]
  BY PoolTypes, PoolAssumption DEF PInv, AInv, AttemptsTypeOK
<1>2. /\ Leave(t) /\ line' = line /\ serving' = [serving EXCEPT ![t] = NoExecution]
      /\ execution' = [c \in Executions |->
                       IF c = serving[t] THEN Resolved(Closed(execution[c], "running"))
                       ELSE execution[c]]
  BY DEF RunnerCancelled
<1>3. CASE serving[t] = NoExecution
  <2>1. execution' = execution /\ serving' = serving
    BY <1>1, <1>2, <1>3, AttemptAssumption
  <2> QED
    BY <1>2, <1>3, <2>1, RestTrace
<1>4. CASE serving[t] # NoExecution
  <2>1. PICK e \in Executions : serving[t] = e
    BY <1>1, <1>4
  <2>2. Closed(execution[e], "running") \in StepRun
    BY <1>1, <2>1, ClosedRun
  <2>3. PICK x \in StepRun : /\ x = Resolved(Closed(execution[e], "running"))
                             /\ x.spans = Closed(execution[e], "running").spans
    BY <2>2, ResolvedRun DEF Resolved, StepRun
  <2>4. execution'[e] = x /\ \A c \in Executions \ {e} : execution'[c] = execution[c]
    BY <1>2, <2>1, <2>3
  <2>5. serving'[t] = NoExecution /\ \A u \in Tasks \ {t} : serving'[u] = serving[u]
    BY <1>1, <1>2
  <2>6. doing'[t] # "running" /\ \A u \in Tasks \ {t} : doing'[u] = doing[u] /\ on'[u] = on[u]
    BY <1>1, <1>2, TurnsKeepOthers
  <2>7. "running" \in Outcomes \cup {"running"}
    OBVIOUS
  <2>8. Fit(now, execution', serving', doing', on', wh, rn, hm)
    <3>1. PInv /\ AInv /\ TraceInv(wh, rn, hm) /\ t \in Tasks
      OBVIOUS
    <3> QED
      BY ONLY <2>1, <2>3, <2>4, <2>5, <2>6, <2>7, <3>1, EndTrace
  <2>9. Books(now', warmTime', workers', wh, rn) /\ now' = now
    BY <1>2, BooksStay, TurnKeepsBusy DEF TraceInv
  <2>10. Fit(now, execution, serving, doing, on, wh, rn, hm) /\ LineFit(execution, line)
    BY DEF TraceInv
  <2>11. Tried(execution[e])
    BY <2>1, <2>10, IdleFit
  <2>12. LineFit(execution', line)
    BY <2>1, <2>4, <2>10, <2>11, LineStays
  <2> QED
    BY <1>2, <2>8, <2>9, <2>12 DEF TraceInv
<1> QED
  BY <1>3, <1>4

\* The clock ticks: the second that begins is added where workers are warm.
LEMMA TickTrace ==
  ASSUME PInv, AInv, NEW wh \in [Workers -> SUBSET Nat], NEW rn \in [Workers -> SUBSET Nat],
         NEW hm \in [Executions -> Workers], TraceInv(wh, rn, hm),
         Tick, UNCHANGED avars
  PROVE  \E wh2, rn2 \in [Workers -> SUBSET Nat] : TraceInv(wh2, rn2, hm)'
<1>1. /\ now \in Nat /\ now' = now + 1 /\ on \in [Tasks -> Workers]
      /\ doing \in [Tasks -> TaskStates] /\ doing' = doing /\ on' = on
      /\ Consistent(now, warmTime, workers, doing, on)
      /\ UNCHANGED <<execution, line, serving>>
  BY PoolTypes, PoolAssumption DEF PInv, Tick, avars
<1>2. Fit(now, execution, serving, doing, on, wh, rn, hm)
      /\ LineFit(execution, line) /\ Books(now, warmTime, workers, wh, rn)
  BY DEF TraceInv
<1>3. PICK wh2 \in [Workers -> SUBSET Nat] :
        wh2 = [w \in Workers |-> IF workers[w].state = "cold" THEN wh[w] ELSE wh[w] \cup {now}]
  BY <1>1
<1>4. PICK rn2 \in [Workers -> SUBSET Nat] :
        rn2 = [w \in Workers |-> IF workers[w].state = "busy" THEN rn[w] \cup {now} ELSE rn[w]]
  BY <1>1
<1>5. \A w \in Workers : wh[w] \subseteq wh2[w] /\ rn2[w] \subseteq rn[w] \cup {now}
  BY <1>3, <1>4
<1>6. \A t \in Tasks : doing[t] \in {"ready", "running"} =>
        workers[on[t]].state \in {"idle", "busy"} /\ now \in wh2[on[t]]
  BY <1>1, <1>3 DEF Consistent, StateFor
<1>7. \A t, u \in Tasks : /\ doing[t] \in {"ready", "running"} /\ doing[u] \in {"ready", "running"}
                          /\ on[t] = on[u]
                          => t = u
  BY <1>1 DEF Consistent
<1>8. ASSUME NEW w \in Workers, now \in rn2[w]
      PROVE  \E t \in Tasks : doing[t] = "running" /\ on[t] = w
  <2>1. workers[w].state = "busy"
    <3>1. rn[w] \subseteq 0 .. (now - 1)
      BY <1>2 DEF Books
    <3> QED
      BY <1>1, <1>4, <1>8, <3>1
  <2>2. workers[w].leased
    BY <1>1, <2>1 DEF Consistent
  <2>3. PICK t \in Tasks : doing[t] # "out" /\ on[t] = w
    BY <1>1, <2>2 DEF Consistent
  <2>4. StateFor(doing[t]) = "busy"
    BY <1>1, <2>1, <2>3 DEF Consistent
  <2>5. doing[t] = "running"
    BY <1>1, <2>3, <2>4 DEF StateFor, TaskStates
  <2> QED
    BY <2>3, <2>5
<1>9. \A e \in Executions : hm[e] \in Workers
  OBVIOUS
<1>10. Fit(now + 1, execution, serving, doing, on, wh2, rn2, hm)
  BY ONLY <1>1, <1>2, <1>5, <1>6, <1>7, <1>8, <1>9, FitTicks
<1>11. Books(now', warmTime', workers', wh2, rn2)
  BY <1>2, <1>3, <1>4, BooksTick
<1>12. TraceInv(wh2, rn2, hm)'
  BY <1>1, <1>2, <1>10, <1>11 DEF TraceInv
<1> QED
  BY <1>12

\* Nothing was warm, run or held before the start.
LEMMA InitTrace ==
  PoolInit /\ AttemptsInit =>
    \E wh, rn \in [Workers -> SUBSET Nat], hm \in [Executions -> Workers] : TraceInv(wh, rn, hm)
<1> SUFFICES ASSUME PoolInit, AttemptsInit
             PROVE  \E wh, rn \in [Workers -> SUBSET Nat], hm \in [Executions -> Workers] :
                      TraceInv(wh, rn, hm)
  OBVIOUS
<1> DEFINE none == [w \in Workers |-> {}]
           one  == [e \in Executions |-> 1]
<1>1. none \in [Workers -> SUBSET Nat] /\ one \in [Executions -> Workers]
  BY PoolAssumption DEF Workers
<1>2. \A e \in Executions : ~Tried(execution[e])
  BY DEF AttemptsInit, Tried, Unused
<1>3. ServingFit(now, execution, serving, doing)
  BY <1>2 DEF ServingFit, AttemptsInit, PoolInit
<1>4. RoomFit(now, execution, serving, on, none, one)
  BY <1>2 DEF RoomFit, AttemptsInit, PoolInit
<1>5. RanFit(now, execution, none, one)
  BY DEF RanFit
<1>6. LineFit(execution, line)
  BY DEF LineFit, AttemptsInit
<1>7. Books(now, warmTime, workers, none, none)
  BY FS_EmptySet DEF Books, Busied, Elapsed, PoolInit, ColdWorker
<1> QED
  BY <1>1, <1>3, <1>4, <1>5, <1>6, <1>7 DEF TraceInv, Fit

\* Every step of the two users keeps the trace in the bill.
LEMMA NextTrace == PInv /\ AInv /\ TInv /\ [Next]_uvars => TInv'
<1> SUFFICES ASSUME PInv, AInv, TInv, [Next]_uvars, user' = "service" PROVE TInv'
  BY DEF TInv
<1>1. user = "service" /\ (AttemptsNext \/ UNCHANGED <<pvars, avars>>)
  BY DEF Next, uvars
<1>2. PICK wh \in [Workers -> SUBSET Nat], rn \in [Workers -> SUBSET Nat],
           hm \in [Executions -> Workers] : TraceInv(wh, rn, hm)
  BY <1>1 DEF TInv
<1> SUFFICES \E wh2, rn2 \in [Workers -> SUBSET Nat], g \in [Executions -> Workers] :
               TraceInv(wh2, rn2, g)'
  BY DEF TInv
<1>3. PoolTypeOK
  BY DEF PInv
<1>4. CASE UNCHANGED <<pvars, execution, line, serving>>
  <2>1. TraceInv(wh, rn, hm)'
    BY <1>2, <1>4 DEF TraceInv, pvars
  <2> QED
    BY <2>1
<1>5. CASE Tick /\ UNCHANGED avars
  <2>1. \E wh2, rn2 \in [Workers -> SUBSET Nat] : TraceInv(wh2, rn2, hm)'
    BY <1>2, <1>5, TickTrace
  <2> QED
    BY <2>1
<1>6. ASSUME NEW e \in Executions, NEW i \in StepInputs, Enqueue(e, i)
      PROVE  TraceInv(wh, rn, hm)'
  BY <1>2, <1>3, <1>6, EnqueueTrace
<1>7. ASSUME NEW e \in Executions, CancelExecution(e) PROVE TraceInv(wh, rn, hm)'
  BY <1>2, <1>3, <1>7, CancelTrace
<1>8. ASSUME NEW t \in Tasks,
             \/ RunnerEnters(t) \/ RunnerWarm(t) \/ RunnerTakes(t)
             \/ \E o \in Failures \cup {"ok"} : AttemptEnds(t, o)
             \/ BackoffOver(t) \/ RunnerRetires(t) \/ RunnerCancelled(t)
      PROVE  \E g \in [Executions -> Workers] : TraceInv(wh, rn, g)'
  <2>0. /\ doing[t] \in {"out", "warming"} => serving[t] = NoExecution
        /\ serving[t] \in Executions \cup {NoExecution}
    <3>1. Fit(now, execution, serving, doing, on, wh, rn, hm)
      BY <1>2 DEF TraceInv
    <3> QED
      BY <3>1, IdleFit DEF AInv, AttemptsTypeOK
  <2>1. CASE RunnerEnters(t)
    <3>1. Enter(t) /\ UNCHANGED <<execution, line, serving>> /\ serving[t] = NoExecution
      BY <2>0, <2>1 DEF RunnerEnters, avars, Enter
    <3> QED
      BY <1>2, <3>1, RestTrace
  <2>2. CASE RunnerWarm(t)
    <3>1. serving[t] = NoExecution
      BY <2>0, <2>2 DEF RunnerWarm, WarmReturns, WarmRuns, WarmDone
    <3>2. CASE line = <<>>
      <4>1. WarmReturns(t) /\ UNCHANGED <<execution, line, serving>>
        BY <2>2, <3>2 DEF RunnerWarm
      <4> QED
        BY <1>2, <3>1, <4>1, RestTrace
    <3>3. CASE line # <<>>
      <4>1. WarmRuns(t) /\ Takes(t, execution)
        BY <2>2, <3>3 DEF RunnerWarm
      <4> QED
        BY <1>2, <3>1, <3>3, <4>1, FirstTakesTrace
    <3> QED
      BY <3>2, <3>3
  <2>3. CASE RunnerTakes(t)
    <3>1. Run(t) /\ Takes(t, execution) /\ line # <<>> /\ serving[t] = NoExecution
      BY <2>3 DEF RunnerTakes
    <3> QED
      BY <1>2, <3>1, FirstTakesTrace
  <2>4. ASSUME NEW o \in Failures \cup {"ok"}, AttemptEnds(t, o)
        PROVE  \E g \in [Executions -> Workers] : TraceInv(wh, rn, g)'
    BY <1>2, <2>4, AttemptEndsTrace
  <2>5. CASE BackoffOver(t)
    BY <1>2, <2>5, AgainTrace
  <2>6. CASE RunnerRetires(t)
    <3>1. Leave(t) /\ UNCHANGED <<execution, line, serving>> /\ serving[t] = NoExecution
      BY <2>6 DEF RunnerRetires, avars
    <3> QED
      BY <1>2, <3>1, RestTrace
  <2>7. CASE RunnerCancelled(t)
    BY <1>2, <2>7, CancelledTrace
  <2> QED
    BY <1>8, <2>1, <2>2, <2>3, <2>4, <2>5, <2>6, <2>7
<1>9. CASE StopRunners
  BY <1>4, <1>9 DEF StopRunners
<1>10. CASE UNCHANGED <<pvars, avars>>
  BY <1>4, <1>10 DEF avars
<1> QED
  BY <1>1, <1>5, <1>6, <1>7, <1>8, <1>9, <1>10 DEF AttemptsNext

-----------------------------------------------------------------------------
\* What the invariant says of the sums
LEMMA TraceAdds ==
  ASSUME PInv, AInv, NEW wh \in [Workers -> SUBSET Nat], NEW rn \in [Workers -> SUBSET Nat],
         NEW hm \in [Executions -> Workers], TraceInv(wh, rn, hm)
  PROVE  AttributedWithinBill
<1> DEFINE held(e)  == IF Tried(execution[e]) /\ LastEnd(execution[e]) # NoTime
                       THEN FirstStart(execution[e]) .. (LastEnd(execution[e]) - 1) ELSE {}
           heldOf   == [e \in Executions |-> held(e)]
           Held     == UNION {{e} \X heldOf[e] : e \in Executions}
           Warm     == UNION {{w} \X wh[w] : w \in Workers}
           Ran2     == UNION {{w} \X rn[w] : w \in Workers}
           secondsOf == [e \in Executions |-> HeldSeconds(execution[e])]
           warmOf == [w \in Workers |-> WarmSeconds(workers[w])]
           busyOf == [w \in Workers |-> BusySeconds(workers[w])]
<1>1. /\ now \in Nat /\ execution \in [Executions -> StepRun]
      /\ \A w \in Workers : LedgerOK(now, workers[w], warmTime[w])
      /\ serving \in [Tasks -> Executions \cup {NoExecution}]
  BY PoolTypes, PoolAssumption DEF PInv, Consistent, AInv, AttemptsTypeOK
<1>2. Fit(now, execution, serving, doing, on, wh, rn, hm)
      /\ Books(now, warmTime, workers, wh, rn)
  BY DEF TraceInv
<1>3. ASSUME NEW e \in Executions, Tried(execution[e])
      PROVE  /\ FirstStart(execution[e]) \in Nat /\ FirstStart(execution[e]) <= now
             /\ \/ LastEnd(execution[e]) = NoTime /\ Served(serving, e)
                \/ /\ LastEnd(execution[e]) \in Nat /\ LastEnd(execution[e]) # NoTime
                   /\ FirstStart(execution[e]) <= LastEnd(execution[e])
                   /\ LastEnd(execution[e]) <= now
  BY <1>2, <1>3, PoolAssumption DEF Fit, ServingFit
<1>4. ASSUME NEW e \in Executions, NEW s \in heldOf[e]
      PROVE  /\ Tried(execution[e]) /\ s \in Occupies(now, execution, serving, e)
             /\ s \in wh[hm[e]]
  <2>1. /\ Tried(execution[e]) /\ LastEnd(execution[e]) # NoTime
        /\ s \in FirstStart(execution[e]) .. (LastEnd(execution[e]) - 1)
    OBVIOUS
  <2>2. s \in Occupies(now, execution, serving, e)
    BY <1>1, <1>3, <2>1 DEF Occupies
  <2> QED
    BY <1>2, <2>1, <2>2 DEF Fit, RoomFit
<1>5. IsFiniteSet(Warm) /\ IsFiniteSet(Ran2)
  <2>1. IsFiniteSet(Workers \X (0 .. (now - 1)))
    <3>1. IsFiniteSet(Workers) /\ IsFiniteSet(0 .. (now - 1))
      BY <1>1, FS_Interval, PoolAssumption DEF Workers
    <3> QED
      BY <3>1, FS_Product
  <2>2. Warm \subseteq Workers \X (0 .. (now - 1)) /\ Ran2 \subseteq Workers \X (0 .. (now - 1))
    BY <1>2 DEF Books
  <2> QED
    BY <2>1, <2>2, FS_Subset
<1>6. /\ IsFiniteSet(Held) /\ Cardinality(Held) <= Cardinality(Warm)
      /\ Cardinality(Held) \in Nat /\ Cardinality(Ran2) \in Nat
  <2> DEFINE room == [p \in Held |-> <<hm[p[1]], p[2]>>]
  <2>1. \A p \in Held : \E e \in Executions : \E s \in heldOf[e] : p = <<e, s>>
    OBVIOUS
  <2>2. \A w \in Workers : \A s \in wh[w] : <<w, s>> \in Warm
    OBVIOUS
  <2> HIDE DEF Held, Warm, heldOf
  <2>3. room \in [Held -> Warm]
    BY <1>4, <2>1, <2>2
  <2>4. ASSUME NEW p \in Held, NEW q \in Held, room[p] = room[q] PROVE p = q
    <3>1. PICK c \in Executions : \E s \in heldOf[c] : p = <<c, s>>
      BY <2>1
    <3>2. PICK e \in Executions : \E s \in heldOf[e] : q = <<e, s>>
      BY <2>1
    <3>3. PICK s : s \in heldOf[c] /\ p = <<c, s>>
      BY <3>1
    <3>4. s \in heldOf[e] /\ q = <<e, s>> /\ hm[c] = hm[e]
      BY <2>4, <3>2, <3>3
    <3>5. c = e
      BY <1>2, <1>4, <3>3, <3>4 DEF Fit, RoomFit
    <3> QED
      BY <3>3, <3>4, <3>5
  <2>5. room \in Injection(Held, Warm)
    BY <2>3, <2>4 DEF Injection, IsInjective
  <2> QED
    BY <1>5, <2>5, FS_Injection, FS_CardinalityType
<1>7. Total(warmOf) = Cardinality(Warm) /\ Total(busyOf) = Cardinality(Ran2)
  <2>1. ASSUME NEW w \in Workers
        PROVE  /\ IsFiniteSet(wh[w]) /\ Cardinality(wh[w]) = warmOf[w]
               /\ IsFiniteSet(rn[w]) /\ Cardinality(rn[w]) = busyOf[w]
    <3>1. IsFiniteSet(0 .. (now - 1))
      BY <1>1, FS_Interval
    <3>2. IsFiniteSet(wh[w]) /\ IsFiniteSet(rn[w])
      BY <1>2, <3>1, FS_Subset DEF Books
    <3>3. Cardinality(wh[w]) = warmOf[w] /\ Cardinality(rn[w]) = busyOf[w]
      BY <1>1, <1>2 DEF Books, LedgerOK, WarmSeconds, BusySeconds, Busied, Since, Elapsed
    <3> QED
      BY <3>2, <3>3
  <2>2. DOMAIN warmOf = Workers /\ DOMAIN busyOf = Workers
    OBVIOUS
  <2> HIDE DEF warmOf, busyOf
  <2> QED
    BY <1>5, <2>1, <2>2, TotalOf
<1>8. Total(secondsOf) = Cardinality(Held)
  <2>1. ASSUME NEW e \in Executions
        PROVE  IsFiniteSet(heldOf[e]) /\ Cardinality(heldOf[e]) = secondsOf[e]
    <3>1. HeldSeconds(execution[e]) =
            IF Tried(execution[e]) /\ LastEnd(execution[e]) # NoTime
            THEN LastEnd(execution[e]) - FirstStart(execution[e]) ELSE 0
      BY DEF HeldSeconds, Tried, LastEnd, FirstStart, Last
    <3>2. CASE Tried(execution[e]) /\ LastEnd(execution[e]) # NoTime
      <4> DEFINE a == FirstStart(execution[e])
                 b == LastEnd(execution[e]) - 1
      <4>1. a \in Int /\ b \in Int /\ a <= b + 1
        BY <1>3, <3>2
      <4>2. heldOf[e] = a .. b /\ secondsOf[e] = b + 1 - a
        BY <1>3, <3>1, <3>2
      <4> HIDE DEF a, b
      <4> QED
        BY <4>1, <4>2, FS_Interval
    <3>3. CASE ~(Tried(execution[e]) /\ LastEnd(execution[e]) # NoTime)
      BY <3>1, <3>3, FS_EmptySet
    <3> QED
      BY <3>2, <3>3
  <2>2. DOMAIN secondsOf = Executions
    OBVIOUS
  <2> HIDE DEF secondsOf, heldOf
  <2> QED
    BY <1>6, <2>1, <2>2, TotalOf
<1>9. ASSUME \A t \in Tasks : doing[t] # "running"
      PROVE  Cardinality(Ran2) <= Cardinality(Held)
  <2> DEFINE by(p) == CHOOSE e \in Executions : hm[e] = p[1] /\ p[2] \in heldOf[e]
             item == [p \in Ran2 |-> <<by(p), p[2]>>]
  <2>1. ASSUME NEW p \in Ran2
        PROVE  by(p) \in Executions /\ hm[by(p)] = p[1] /\ p[2] \in heldOf[by(p)]
    <3>1. p[1] \in Workers /\ p[2] \in rn[p[1]]
      OBVIOUS
    <3>2. PICK e \in Executions :
            /\ Tried(execution[e]) /\ hm[e] = p[1]
            /\ p[2] \in FirstStart(execution[e]) .. (HeldUntil(now, execution[e]) - 1)
      BY <1>2, <3>1 DEF Fit, RanFit
    <3>3. LastEnd(execution[e]) # NoTime
      <4> SUFFICES ASSUME LastEnd(execution[e]) = NoTime PROVE FALSE
        OBVIOUS
      <4>1. PICK t \in Tasks : serving[t] = e
        BY <1>3, <3>2 DEF Served
      <4>2. doing[t] = "running"
        BY <1>2, <4>1, IdleFit
      <4> QED
        BY <1>9, <4>2
    <3>4. p[2] \in heldOf[e]
      BY <3>2, <3>3 DEF HeldUntil
    <3> HIDE DEF heldOf
    <3> QED
      BY <3>2, <3>4
  <2>2. \A p \in Ran2 : p = <<p[1], p[2]>>
    OBVIOUS
  <2>3. \A e \in Executions : \A s \in heldOf[e] : <<e, s>> \in Held
    OBVIOUS
  <2> HIDE DEF by, Held, Ran2, heldOf
  <2>4. item \in [Ran2 -> Held]
    BY <2>1, <2>3
  <2>5. ASSUME NEW p \in Ran2, NEW q \in Ran2, item[p] = item[q] PROVE p = q
    <3>1. by(p) = by(q) /\ p[2] = q[2]
      BY <2>5
    <3>2. p[1] = q[1]
      BY <2>1, <3>1
    <3> QED
      BY <2>2, <3>1, <3>2
  <2>6. item \in Injection(Ran2, Held)
    BY <2>4, <2>5 DEF Injection, IsInjective
  <2> QED
    BY <1>6, <2>6, FS_Injection
<1> QED
  BY <1>6, <1>7, <1>8, <1>9 DEF AttributedWithinBill, TotalWarmSeconds, TotalBusySeconds

(* What the trace attributes to the steps of jobs is never more than what the *)
(* pool bills, and at least the time its workers ran whenever no attempt is   *)
(* open: for any number of runners and items, cancelled or not, with the      *)
(* backoffs in between.                                                       *)
THEOREM TraceAlwaysWithinBill == Spec => []TraceWithinBill
<1>1. Init => AInv /\ TInv
  BY InitAInv, InitTrace DEF Init, TInv
<1>2. PInv /\ AInv /\ TInv /\ [Next]_uvars => AInv' /\ TInv'
  BY NextAInv, NextTrace DEF PInv
<1>3. PInv /\ AInv /\ TInv => TraceWithinBill
  BY TraceAdds DEF TraceWithinBill, TInv
<1> QED
  BY <1>1, <1>2, <1>3, UsersKeepToLeases, PoolInvariance, PTL DEF Spec, uvars

-----------------------------------------------------------------------------
(* The row of the baseline                                                    *)

Verdicts == {"succeeded", "failed", "shed"}

BaselineTypeOK ==
  /\ chain \in [Tasks -> Chains \cup {<<>>}]
  /\ at \in [Tasks -> Nat]
  /\ verdict \in [Tasks -> Verdicts \cup {"none"}]
  /\ counts \in [succeeded : Nat, failed : Nat, shed : Nat, cold_starts : Nat]

\* The requests that ended with v, and the GPU steps that were begun or shed
EndedWith(vd, v) == {t \in Tasks : vd[t] = v}
GpuStepsOf(c, a) == UNION {{t} \X {n \in 1 .. a[t] : c[t][n] = "gpu"} : t \in Tasks}

VerdictsCounted(vd, n) ==
  \A v \in Verdicts : IsFiniteSet(EndedWith(vd, v)) /\ Cardinality(EndedWith(vd, v)) = n[v]

StepsCounted(c, a, n) ==
  IsFiniteSet(GpuStepsOf(c, a)) /\ Cardinality(GpuStepsOf(c, a)) = n.cold_starts + n.shed

(* A request of user us is at step a of its chain c, has ended with v or not, *)
(* and awaits d: on the pool only for a GPU step, off it only for a CPU step  *)
(* or when it has ended.                                                      *)
RequestFits(us, c, a, v, d) ==
  /\ a <= Len(c)
  /\ v # "none" => us = "naive" /\ d = "out" /\ a > 0
  /\ us = "naive" /\ d # "out" => a > 0 /\ c[a] = "gpu"
  /\ us = "naive" /\ d = "out" /\ v = "none" /\ a > 0 => c[a] = "cpu"
  /\ v = "shed" => a > 1 /\ c[a - 1] = "cpu"

(* BaselineIsHonest is not inductive: a verdict is counted once because a     *)
(* request that has one does not move, and a cold start once a step because   *)
(* a request enters the pool only at a GPU step, where it finds cold workers. *)
BInv ==
  /\ BaselineTypeOK
  /\ VerdictsCounted(verdict, counts)
  /\ StepsCounted(chain, at, counts)
  /\ \A t \in Tasks : RequestFits(user, chain[t], at[t], verdict[t], doing[t])

\* Each chain is a sequence of steps, and begins with a CPU step.
LEMMA ChainKinds ==
  ASSUME NEW c \in Chains
  PROVE  /\ c \in Seq({"cpu", "gpu"}) /\ Len(c) \in Nat /\ Len(c) > 0 /\ c[1] = "cpu"
         /\ \A n \in 2 .. Len(c) : c[n] = "cpu" => c[n - 1] = "cpu"
  BY ChainsAssumption

\* A verdict that is given and counted leaves the counts right.
LEMMA VerdictGiven ==
  ASSUME NEW vd \in [Tasks -> Verdicts \cup {"none"}],
         NEW n \in [succeeded : Nat, failed : Nat, shed : Nat, cold_starts : Nat],
         VerdictsCounted(vd, n), NEW t \in Tasks, vd[t] = "none", NEW v \in Verdicts
  PROVE  VerdictsCounted([vd EXCEPT ![t] = v], [n EXCEPT ![v] = @ + 1])
<1> DEFINE x == [vd EXCEPT ![t] = v]
           m == [n EXCEPT ![v] = @ + 1]
<1>1. EndedWith(x, v) = EndedWith(vd, v) \cup {t} /\ t \notin EndedWith(vd, v)
  BY DEF EndedWith, Verdicts
<1>2. \A w \in Verdicts \ {v} : EndedWith(x, w) = EndedWith(vd, w)
  BY DEF EndedWith, Verdicts
<1>3. m[v] = n[v] + 1 /\ \A w \in Verdicts \ {v} : m[w] = n[w]
  BY DEF Verdicts
<1>4. IsFiniteSet(EndedWith(x, v)) /\ Cardinality(EndedWith(x, v)) = n[v] + 1
  <2>1. IsFiniteSet(EndedWith(vd, v)) /\ Cardinality(EndedWith(vd, v)) = n[v]
    BY DEF VerdictsCounted
  <2>2. PICK S : S = EndedWith(vd, v)
    OBVIOUS
  <2>3. IsFiniteSet(S \cup {t}) /\ Cardinality(S \cup {t}) = Cardinality(S) + 1
    BY ONLY <1>1, <2>1, <2>2, FS_AddElement
  <2> QED
    BY <1>1, <2>1, <2>2, <2>3
<1> HIDE DEF x, m
<1>5. VerdictsCounted(x, m)
  BY <1>2, <1>3, <1>4 DEF VerdictsCounted
<1> QED
  BY <1>5 DEF x, m

\* A cold start does not change how many requests ended.
LEMMA VerdictsStay ==
  ASSUME NEW vd, NEW n \in [succeeded : Nat, failed : Nat, shed : Nat, cold_starts : Nat],
         VerdictsCounted(vd, n)
  PROVE  VerdictsCounted(vd, [n EXCEPT !.cold_starts = @ + 1])
  BY DEF VerdictsCounted, Verdicts

\* A request that goes on to a GPU step adds that step.
LEMMA GpuStepAdds ==
  ASSUME NEW c, NEW a \in [Tasks -> Nat], NEW b \in [Tasks -> Nat], NEW t \in Tasks,
         b[t] = a[t] + 1, \A u \in Tasks \ {t} : b[u] = a[u], c[t][b[t]] = "gpu",
         IsFiniteSet(GpuStepsOf(c, a))
  PROVE  /\ IsFiniteSet(GpuStepsOf(c, b))
         /\ Cardinality(GpuStepsOf(c, b)) = Cardinality(GpuStepsOf(c, a)) + 1
<1> DEFINE p == <<t, b[t]>>
<1>1. ASSUME NEW q PROVE q \in GpuStepsOf(c, b) <=> q \in GpuStepsOf(c, a) \cup {p}
  <2>1. q \in GpuStepsOf(c, b) <=>
          \E u \in Tasks : \E n \in 1 .. b[u] : q = <<u, n>> /\ c[u][n] = "gpu"
    BY DEF GpuStepsOf
  <2>2. q \in GpuStepsOf(c, a) <=>
          \E u \in Tasks : \E n \in 1 .. a[u] : q = <<u, n>> /\ c[u][n] = "gpu"
    BY DEF GpuStepsOf
  <2>3. 1 .. b[t] = (1 .. a[t]) \cup {b[t]}
    OBVIOUS
  <2> QED
    BY <2>1, <2>2, <2>3
<1>2. p \notin GpuStepsOf(c, a)
  BY DEF GpuStepsOf
<1>3. GpuStepsOf(c, b) = GpuStepsOf(c, a) \cup {p}
  BY <1>1
<1>4. PICK S : S = GpuStepsOf(c, a)
  OBVIOUS
<1>5. IsFiniteSet(S \cup {p}) /\ Cardinality(S \cup {p}) = Cardinality(S) + 1
  BY <1>2, <1>4, FS_AddElement
<1> QED
  BY <1>3, <1>4, <1>5

\* A request that goes on to a CPU step, or arrives at one, adds none.
LEMMA CpuStepAdds ==
  ASSUME NEW c, NEW x, NEW a \in [Tasks -> Nat], NEW b \in [Tasks -> Nat], NEW t \in Tasks,
         b[t] = a[t] + 1, \A u \in Tasks \ {t} : b[u] = a[u], x[t][b[t]] = "cpu",
         \A u \in Tasks \ {t} : x[u] = c[u], a[t] = 0 \/ x[t] = c[t]
  PROVE  GpuStepsOf(x, b) = GpuStepsOf(c, a)
<1>1. ASSUME NEW q PROVE q \in GpuStepsOf(x, b) <=> q \in GpuStepsOf(c, a)
  <2>1. q \in GpuStepsOf(x, b) <=>
          \E u \in Tasks : \E n \in 1 .. b[u] : q = <<u, n>> /\ x[u][n] = "gpu"
    BY DEF GpuStepsOf
  <2>2. q \in GpuStepsOf(c, a) <=>
          \E u \in Tasks : \E n \in 1 .. a[u] : q = <<u, n>> /\ c[u][n] = "gpu"
    BY DEF GpuStepsOf
  <2>3. 1 .. b[t] = (1 .. a[t]) \cup {b[t]}
    OBVIOUS
  <2>4. \A n \in 1 .. b[t] : x[t][n] = "gpu" <=> n \in 1 .. a[t] /\ c[t][n] = "gpu"
    BY <2>3
  <2> QED
    BY <2>1, <2>2, <2>4
<1> QED
  BY <1>1

-----------------------------------------------------------------------------
(* Each action of the baseline preserves the invariant                        *)

\* One request moves.
LEMMA RequestMoves ==
  ASSUME PoolTypeOK, BInv, user' = user, NEW t \in Tasks,
         chain' = [chain EXCEPT ![t] = chain'[t]], at' = [at EXCEPT ![t] = at'[t]],
         verdict' = [verdict EXCEPT ![t] = verdict'[t]],
         doing' = [doing EXCEPT ![t] = doing'[t]],
         BaselineTypeOK', VerdictsCounted(verdict', counts'),
         StepsCounted(chain', at', counts'),
         RequestFits(user, chain'[t], at'[t], verdict'[t], doing'[t])
  PROVE  BInv'
<1>1. ASSUME NEW u \in Tasks
      PROVE  RequestFits(user', chain'[u], at'[u], verdict'[u], doing'[u])
  <2>1. CASE u = t
    BY <2>1
  <2>2. CASE u # t
    <3>1. chain'[u] = chain[u] /\ at'[u] = at[u] /\ verdict'[u] = verdict[u]
          /\ doing'[u] = doing[u]
      BY <2>2, PoolTypes DEF BInv, BaselineTypeOK
    <3>2. RequestFits(user, chain[u], at[u], verdict[u], doing[u])
      BY DEF BInv
    <3> QED  BY <3>1, <3>2
  <2> QED  BY <2>1, <2>2
<1>2. VerdictsCounted(verdict, counts)' /\ StepsCounted(chain, at, counts)'
  BY DEF VerdictsCounted, StepsCounted, EndedWith, GpuStepsOf
<1> QED
  BY <1>1, <1>2 DEF BInv

\* Nothing of the baseline moves, and nobody enters or leaves the pool for it.
LEMMA RequestsStay ==
  ASSUME BInv, UNCHANGED <<chain, at, verdict, counts, user>>,
         user = "naive" => \A t \in Tasks : doing'[t] = "out" <=> doing[t] = "out"
  PROVE  BInv'
<1>1. ASSUME NEW t \in Tasks
      PROVE  RequestFits(user', chain'[t], at'[t], verdict'[t], doing'[t])
  BY DEF BInv, RequestFits
<1>2. BaselineTypeOK' /\ VerdictsCounted(verdict, counts)' /\ StepsCounted(chain, at, counts)'
  BY SMTT(30) DEF BInv, BaselineTypeOK, VerdictsCounted, StepsCounted, EndedWith, GpuStepsOf
<1> QED
  BY <1>1, <1>2 DEF BInv

\* A request arrives, at the CPU step its chain begins with.
LEMMA ArrivesStep ==
  ASSUME PoolTypeOK, BInv, user = "naive", user' = user, NEW t \in Tasks, Arrives(t)
  PROVE  BInv'
<1>1. at[t] = 0 /\ UNCHANGED <<pvars, verdict, counts>> /\ at' = [at EXCEPT ![t] = 1]
  BY DEF Arrives
<1>2. PICK c \in Chains : chain' = [chain EXCEPT ![t] = c]
  BY DEF Arrives
<1>3. c[1] = "cpu" /\ Len(c) \in Nat /\ Len(c) > 0
  BY ChainKinds
<1>4. chain'[t] = c /\ at'[t] = 1 /\ at' = [at EXCEPT ![t] = @ + 1]
      /\ \A u \in Tasks \ {t} : chain'[u] = chain[u]
  BY <1>1, <1>2 DEF BInv, BaselineTypeOK
<1>5. BaselineTypeOK' /\ at \in [Tasks -> Nat] /\ doing' = doing
  BY <1>1, <1>2 DEF BInv, BaselineTypeOK, pvars
<1>6. GpuStepsOf(chain', at') = GpuStepsOf(chain, at)
  <2>1. PICK x : x = chain'
    OBVIOUS
  <2>2. PICK b : b = at'
    OBVIOUS
  <2>3. /\ b \in [Tasks -> Nat] /\ b[t] = at[t] + 1 /\ \A u \in Tasks \ {t} : b[u] = at[u]
        /\ x[t][b[t]] = "cpu" /\ \A u \in Tasks \ {t} : x[u] = chain[u]
    BY <1>1, <1>3, <1>4, <1>5, <2>1, <2>2
  <2>4. GpuStepsOf(x, b) = GpuStepsOf(chain, at)
    BY <1>1, <1>5, <2>3, CpuStepAdds
  <2> QED
    BY <2>1, <2>2, <2>4
<1>7. doing[t] = "out" /\ verdict[t] = "none"
  BY <1>1 DEF BInv, RequestFits, BaselineTypeOK
<1>8. RequestFits(user, chain'[t], at'[t], verdict'[t], doing'[t])
  BY <1>1, <1>3, <1>4, <1>5, <1>7 DEF RequestFits
<1>9. VerdictsCounted(verdict', counts') /\ StepsCounted(chain', at', counts')
  BY <1>1, <1>6 DEF BInv, StepsCounted
<1> QED
  BY <1>1, <1>2, <1>4, <1>5, <1>8, <1>9, PoolTypes, RequestMoves DEF BInv, BaselineTypeOK

\* A request that has arrived has a chain and is at a step of it.
LEMMA AtAStep ==
  ASSUME BInv, NEW t \in Tasks, at[t] > 0
  PROVE  /\ chain[t] \in Chains /\ at[t] \in 1 .. Len(chain[t]) /\ Len(chain[t]) \in Nat
<1>1. at[t] <= Len(chain[t]) /\ at[t] \in Nat /\ chain[t] \in Chains \cup {<<>>}
  BY DEF BInv, RequestFits, BaselineTypeOK
<1>2. chain[t] # <<>>
  BY <1>1
<1> QED
  BY <1>1, <1>2, ChainKinds

\* A request ends at the step it is at, and is off the pool.
LEMMA EndsStep ==
  ASSUME PoolTypeOK, BInv, user = "naive", user' = user, NEW t \in Tasks,
         at[t] > 0, verdict[t] = "none", NEW v \in {"succeeded", "failed"}, Ends(t, v),
         UNCHANGED <<chain, at>>, doing' = [doing EXCEPT ![t] = "out"]
  PROVE  BInv'
<1>1. /\ verdict \in [Tasks -> Verdicts \cup {"none"}] /\ v \in Verdicts
      /\ counts \in [succeeded : Nat, failed : Nat, shed : Nat, cold_starts : Nat]
      /\ verdict' = [verdict EXCEPT ![t] = v] /\ counts' = [counts EXCEPT ![v] = @ + 1]
  BY DEF Ends, BInv, BaselineTypeOK, Verdicts
<1>2. verdict'[t] = v /\ verdict' = [verdict EXCEPT ![t] = verdict'[t]]
      /\ verdict' \in [Tasks -> Verdicts \cup {"none"}]
  BY <1>1
<1>3. /\ counts' \in [succeeded : Nat, failed : Nat, shed : Nat, cold_starts : Nat]
      /\ counts'.cold_starts = counts.cold_starts /\ counts'.shed = counts.shed
  BY <1>1
<1>4. VerdictsCounted(verdict', counts')
  <2>1. VerdictsCounted([verdict EXCEPT ![t] = v], [counts EXCEPT ![v] = @ + 1])
    BY <1>1, VerdictGiven DEF BInv
  <2> QED  BY <1>1, <2>1
<1>5. StepsCounted(chain', at', counts')
  BY <1>3 DEF BInv, StepsCounted
<1>6. BaselineTypeOK'
  BY <1>2, <1>3 DEF BInv, BaselineTypeOK
<1>7. chain' = [chain EXCEPT ![t] = chain'[t]] /\ at' = [at EXCEPT ![t] = at'[t]]
      /\ doing'[t] = "out" /\ doing' = [doing EXCEPT ![t] = doing'[t]]
  BY PoolTypes DEF BInv, BaselineTypeOK
<1>8. RequestFits(user, chain'[t], at'[t], verdict'[t], doing'[t])
  BY <1>2, <1>7 DEF BInv, RequestFits
<1> QED
  BY <1>2, <1>4, <1>5, <1>6, <1>7, <1>8, RequestMoves

\* A request goes on to a CPU step.
LEMMA CpuAdvanceStep ==
  ASSUME PoolTypeOK, BInv, user' = user, NEW t \in Tasks, at[t] > 0, verdict[t] = "none",
         doing[t] = "out", NextIs(t, "cpu"), Advances(t), UNCHANGED <<doing, verdict, counts>>
  PROVE  BInv'
<1>1. at \in [Tasks -> Nat] /\ chain[t] \in Chains /\ Len(chain[t]) \in Nat
  BY AtAStep DEF BInv, BaselineTypeOK
<1>2. /\ at' \in [Tasks -> Nat] /\ at'[t] = at[t] + 1
      /\ \A u \in Tasks \ {t} : at'[u] = at[u]
      /\ at' = [at EXCEPT ![t] = at'[t]] /\ chain' = chain /\ at'[t] <= Len(chain[t])
      /\ chain[t][at'[t]] = "cpu"
  BY <1>1 DEF Advances, NextIs
<1>3. GpuStepsOf(chain', at') = GpuStepsOf(chain, at)
  <2>1. PICK b : b = at'
    OBVIOUS
  <2>2. /\ b \in [Tasks -> Nat] /\ b[t] = at[t] + 1 /\ \A u \in Tasks \ {t} : b[u] = at[u]
        /\ chain[t][b[t]] = "cpu"
    BY <1>2, <2>1
  <2>3. GpuStepsOf(chain, b) = GpuStepsOf(chain, at)
    BY <1>1, <2>2, CpuStepAdds
  <2> QED
    BY <1>2, <2>1, <2>3
<1>4. BaselineTypeOK' /\ chain' = [chain EXCEPT ![t] = chain'[t]]
      /\ verdict' = [verdict EXCEPT ![t] = verdict'[t]]
      /\ doing' = [doing EXCEPT ![t] = doing'[t]]
  BY <1>2, PoolTypes DEF BInv, BaselineTypeOK
<1>5. VerdictsCounted(verdict', counts') /\ StepsCounted(chain', at', counts')
  BY <1>3 DEF BInv, StepsCounted
<1>6. RequestFits(user, chain'[t], at'[t], verdict'[t], doing'[t])
  BY <1>2 DEF RequestFits
<1> QED
  BY <1>2, <1>4, <1>5, <1>6, RequestMoves

\* What goes on to a GPU step is one step more.
LEMMA GpuAdvances ==
  ASSUME BInv, NEW t \in Tasks, at[t] > 0, NextIs(t, "gpu"), Advances(t)
  PROVE  /\ at' \in [Tasks -> Nat] /\ at'[t] = at[t] + 1 /\ at[t] \in Nat
         /\ at' = [at EXCEPT ![t] = at'[t]] /\ chain' = chain /\ at'[t] <= Len(chain[t])
         /\ chain' = [chain EXCEPT ![t] = chain'[t]] /\ chain'[t] = chain[t]
         /\ chain[t][at'[t]] = "gpu"
         /\ IsFiniteSet(GpuStepsOf(chain', at'))
         /\ Cardinality(GpuStepsOf(chain', at')) = counts.cold_starts + counts.shed + 1
<1>1. at \in [Tasks -> Nat] /\ chain[t] \in Chains /\ Len(chain[t]) \in Nat
      /\ chain \in [Tasks -> Chains \cup {<<>>}]
  BY AtAStep DEF BInv, BaselineTypeOK
<1>2. /\ at' \in [Tasks -> Nat] /\ at'[t] = at[t] + 1
      /\ \A u \in Tasks \ {t} : at'[u] = at[u]
      /\ at' = [at EXCEPT ![t] = at'[t]] /\ chain' = chain /\ at'[t] <= Len(chain[t])
      /\ chain[t][at'[t]] = "gpu"
  BY <1>1 DEF Advances, NextIs
<1>3. PICK b : b = at'
  OBVIOUS
<1>4. /\ b \in [Tasks -> Nat] /\ b[t] = at[t] + 1 /\ \A u \in Tasks \ {t} : b[u] = at[u]
      /\ chain[t][b[t]] = "gpu"
  BY <1>2, <1>3
<1>5. /\ IsFiniteSet(GpuStepsOf(chain, at))
      /\ Cardinality(GpuStepsOf(chain, at)) = counts.cold_starts + counts.shed
  BY DEF BInv, StepsCounted
<1>6. /\ IsFiniteSet(GpuStepsOf(chain, b))
      /\ Cardinality(GpuStepsOf(chain, b)) = Cardinality(GpuStepsOf(chain, at)) + 1
  BY <1>1, <1>4, <1>5, GpuStepAdds
<1> QED
  BY <1>1, <1>2, <1>3, <1>5, <1>6

\* A request goes on to a GPU step on a cold worker.
LEMMA GpuAdvanceStep ==
  ASSUME PoolTypeOK, BInv, user' = user, NEW t \in Tasks, at[t] > 0, verdict[t] = "none",
         NextIs(t, "gpu"), Advances(t),
         counts' = [counts EXCEPT !.cold_starts = @ + 1], verdict' = verdict,
         doing' = [doing EXCEPT ![t] = "warming"]
  PROVE  BInv'
<1>1. counts \in [succeeded : Nat, failed : Nat, shed : Nat, cold_starts : Nat]
  BY DEF BInv, BaselineTypeOK
<1>2. /\ counts' \in [succeeded : Nat, failed : Nat, shed : Nat, cold_starts : Nat]
      /\ counts'.cold_starts = counts.cold_starts + 1 /\ counts'.shed = counts.shed
  BY <1>1
<1>3. VerdictsCounted(verdict', counts')
  <2>1. VerdictsCounted(verdict, [counts EXCEPT !.cold_starts = @ + 1])
    BY <1>1, VerdictsStay DEF BInv
  <2> QED  BY <2>1
<1>4. StepsCounted(chain', at', counts')
  <2>1. /\ IsFiniteSet(GpuStepsOf(chain', at'))
        /\ Cardinality(GpuStepsOf(chain', at')) = counts.cold_starts + counts.shed + 1
    BY GpuAdvances
  <2> QED
    BY <1>1, <1>2, <2>1 DEF StepsCounted
<1>5. BaselineTypeOK' /\ verdict' = [verdict EXCEPT ![t] = verdict'[t]]
      /\ doing'[t] = "warming" /\ doing' = [doing EXCEPT ![t] = doing'[t]]
  <2>1. BaselineTypeOK
    BY DEF BInv
  <2>2. BaselineTypeOK' /\ verdict' = [verdict EXCEPT ![t] = verdict'[t]]
    BY SMTT(30), <1>2, <2>1, GpuAdvances DEF BaselineTypeOK
  <2>3. doing'[t] = "warming" /\ doing' = [doing EXCEPT ![t] = doing'[t]]
    BY PoolTypes
  <2> QED
    BY <2>2, <2>3
<1>6. RequestFits(user, chain'[t], at'[t], verdict'[t], doing'[t])
  BY <1>5, GpuAdvances DEF RequestFits
<1> QED
  BY <1>3, <1>4, <1>5, <1>6, GpuAdvances, RequestMoves

\* A request finds the pool full at its first GPU step.
LEMMA ShedStep ==
  ASSUME PoolTypeOK, BInv, user = "naive", user' = user, NEW t \in Tasks, at[t] > 0,
         verdict[t] = "none", doing[t] = "out", NextIs(t, "gpu"), Advances(t),
         Ends(t, "shed"), doing' = doing
  PROVE  BInv'
<1>1. /\ verdict \in [Tasks -> Verdicts \cup {"none"}] /\ "shed" \in Verdicts
      /\ counts \in [succeeded : Nat, failed : Nat, shed : Nat, cold_starts : Nat]
      /\ verdict' = [verdict EXCEPT ![t] = "shed"]
      /\ counts' = [counts EXCEPT !["shed"] = @ + 1]
  BY DEF Ends, BInv, BaselineTypeOK, Verdicts
<1>2. /\ counts' \in [succeeded : Nat, failed : Nat, shed : Nat, cold_starts : Nat]
      /\ counts'.cold_starts = counts.cold_starts /\ counts'.shed = counts.shed + 1
  BY <1>1
<1>3. VerdictsCounted(verdict', counts')
  <2>1. VerdictsCounted([verdict EXCEPT ![t] = "shed"], [counts EXCEPT !["shed"] = @ + 1])
    BY <1>1, VerdictGiven DEF BInv
  <2> QED  BY <1>1, <2>1
<1>4. StepsCounted(chain', at', counts')
  <2>1. /\ IsFiniteSet(GpuStepsOf(chain', at'))
        /\ Cardinality(GpuStepsOf(chain', at')) = counts.cold_starts + counts.shed + 1
    BY GpuAdvances
  <2> QED
    BY <1>1, <1>2, <2>1 DEF StepsCounted
<1>5. BaselineTypeOK' /\ verdict'[t] = "shed" /\ verdict' = [verdict EXCEPT ![t] = verdict'[t]]
      /\ doing' = [doing EXCEPT ![t] = doing'[t]]
  BY <1>1, <1>2, GpuAdvances, PoolTypes DEF BInv, BaselineTypeOK
<1>6. RequestFits(user, chain'[t], at'[t], verdict'[t], doing'[t])
  <2>1. chain[t][at[t]] = "cpu"
    BY DEF BInv, RequestFits
  <2> QED
    BY <1>5, <2>1, GpuAdvances DEF RequestFits
<1> QED
  BY <1>3, <1>4, <1>5, <1>6, GpuAdvances, RequestMoves

\* acquire() hands out a cold worker, so its warm-up is a cold start.
LEMMA EntersCold ==
  ASSUME PInv, NEW t \in Tasks, Enter(t)
  PROVE  /\ workers[FirstOf(Free)].state = "cold"
         /\ doing' = [doing EXCEPT ![t] = "warming"]
<1>1. Free \in SUBSET Workers /\ Free # {} /\ Lease(t, workers, Free)
  BY DEF Enter, Free
<1>2. FirstOf(Free) \in Free
  BY <1>1, FirstOfIsFirst
<1>3. workers[FirstOf(Free)].state = "cold"
  BY <1>2 DEF PInv, Consistent, Free
<1> QED
  BY <1>1, <1>3 DEF Lease

\* So does acquire() when the task has just let its own worker go.
LEMMA ReletsCold ==
  ASSUME PInv, NEW t \in Tasks, Relet(t)
  PROVE  /\ LetGoBy(t)[FirstOf(Free \cup {on[t]})].state = "cold"
         /\ doing' = [doing EXCEPT ![t] = "warming"]
<1>1. doing[t] # "out" /\ Lease(t, LetGoBy(t), Free \cup {on[t]})
  BY DEF Relet
<1>2. now \in Nat /\ on[t] \in Workers /\ LedgerOK(now, Mine(t), warmTime[on[t]])
  BY <1>1, HolderFinds
<1>3. LetGo(Mine(t)).state = "cold"
  BY <1>2, LetGoOK
<1>4. PICK w : w = FirstOf(Free \cup {on[t]})
  OBVIOUS
<1>5. w \in Free \cup {on[t]}
  <2>1. Free \cup {on[t]} \in SUBSET Workers /\ Free \cup {on[t]} # {}
    BY <1>2 DEF Free
  <2> QED
    BY <1>4, <2>1, FirstOfIsFirst
<1>6. LetGoBy(t)[w].state = "cold"
  <2>1. w \in Workers /\ workers \in [Workers -> WorkerRecord]
    BY <1>2, <1>5, PoolTypes DEF Free, PInv
  <2>2. CASE w = on[t]
    BY <1>3, <2>1, <2>2 DEF LetGoBy, Mine
  <2>3. CASE w # on[t]
    <3>1. LetGoBy(t)[w] = workers[w] /\ w \in Free
      BY <1>5, <2>1, <2>3 DEF LetGoBy
    <3> QED
      BY <2>1, <3>1 DEF PInv, Consistent, Free
  <2> QED
    BY <2>2, <2>3
<1> QED
  BY <1>1, <1>4, <1>6 DEF Lease

\* A CPU step ends, whatever follows it.
LEMMA CpuStepEndsStep ==
  ASSUME PInv, BInv, user = "naive", user' = user, NEW t \in Tasks, CpuStepEnds(t)
  PROVE  BInv'
<1>1. PoolTypeOK /\ at[t] > 0 /\ verdict[t] = "none" /\ doing[t] = "out"
  BY DEF CpuStepEnds, PInv
<1>2. ASSUME UNCHANGED pvars PROVE doing' = doing /\ doing' = [doing EXCEPT ![t] = "out"]
  BY <1>1, <1>2, PoolTypes DEF pvars
<1>3. CASE Ends(t, "failed") /\ UNCHANGED <<pvars, chain, at>>
  BY <1>1, <1>2, <1>3, EndsStep
<1>4. CASE Ends(t, "succeeded") /\ UNCHANGED <<pvars, chain, at>>
  BY <1>1, <1>2, <1>4, EndsStep
<1>5. CASE NextIs(t, "cpu") /\ Advances(t) /\ UNCHANGED <<pvars, verdict, counts>>
  BY <1>1, <1>2, <1>5, CpuAdvanceStep
<1>6. CASE NextIs(t, "gpu") /\ Enter(t) /\ Advances(t) /\ CountsLease(workers, FirstOf(Free))
  <2>1. /\ counts' = [counts EXCEPT !.cold_starts = @ + 1] /\ verdict' = verdict
        /\ doing' = [doing EXCEPT ![t] = "warming"]
    BY <1>6, EntersCold DEF CountsLease
  <2> QED
    BY <1>1, <1>6, <2>1, GpuAdvanceStep
<1>7. CASE NextIs(t, "gpu") /\ Advances(t) /\ Ends(t, "shed") /\ UNCHANGED pvars
  BY <1>1, <1>2, <1>7, ShedStep
<1> QED
  BY <1>3, <1>4, <1>5, <1>6, <1>7 DEF CpuStepEnds

\* A GPU step ends, whatever follows it.
LEMMA GpuStepEndsStep ==
  ASSUME PInv, BInv, user = "naive", user' = user, NEW t \in Tasks, GpuStepEnds(t)
  PROVE  BInv'
<1>1. PoolTypeOK /\ doing[t] = "running" /\ at[t] > 0 /\ verdict[t] = "none"
  <2>1. doing[t] = "running"
    BY DEF GpuStepEnds
  <2>2. RequestFits(user, chain[t], at[t], verdict[t], doing[t])
    BY DEF BInv
  <2> QED
    BY <2>1, <2>2 DEF RequestFits, PInv
<1>2. ASSUME Leave(t) PROVE doing' = [doing EXCEPT ![t] = "out"]
  BY <1>2 DEF Leave, Becomes
<1>3. CASE Leave(t) /\ Ends(t, "failed") /\ UNCHANGED <<chain, at>>
  BY <1>1, <1>2, <1>3, EndsStep
<1>4. CASE Leave(t) /\ Ends(t, "succeeded") /\ UNCHANGED <<chain, at>>
  BY <1>1, <1>2, <1>4, EndsStep
<1>5. CASE /\ NextIs(t, "gpu") /\ Relet(t) /\ Advances(t)
           /\ CountsLease(LetGoBy(t), FirstOf(Free \cup {on[t]}))
  <2>1. /\ counts' = [counts EXCEPT !.cold_starts = @ + 1] /\ verdict' = verdict
        /\ doing' = [doing EXCEPT ![t] = "warming"]
    BY <1>5, ReletsCold DEF CountsLease
  <2> QED
    BY <1>1, <1>5, <2>1, GpuAdvanceStep
<1> QED
  BY <1>3, <1>4, <1>5 DEF GpuStepEnds

\* Nothing has arrived and nothing is counted at first.
LEMMA InitBInv == Init => BInv
<1> SUFFICES ASSUME Init PROVE BInv
  OBVIOUS
<1>1. /\ chain = [t \in Tasks |-> <<>>] /\ at = [t \in Tasks |-> 0]
      /\ verdict = [t \in Tasks |-> "none"] /\ doing = [t \in Tasks |-> "out"]
      /\ counts = [succeeded |-> 0, failed |-> 0, shed |-> 0, cold_starts |-> 0]
  BY DEF Init, PoolInit, BaselineInit
<1>2. BaselineTypeOK
  BY <1>1 DEF BaselineTypeOK
<1>3. VerdictsCounted(verdict, counts)
  <2>1. \A v \in Verdicts : EndedWith(verdict, v) = {} /\ counts[v] = 0
    BY <1>1 DEF EndedWith, Verdicts
  <2> QED
    BY <2>1, FS_EmptySet DEF VerdictsCounted
<1>4. StepsCounted(chain, at, counts)
  <2>1. GpuStepsOf(chain, at) = {} /\ counts.cold_starts + counts.shed = 0
    BY <1>1 DEF GpuStepsOf
  <2> QED
    BY <2>1, FS_EmptySet DEF StepsCounted
<1>5. \A t \in Tasks : RequestFits(user, chain[t], at[t], verdict[t], doing[t])
  BY <1>1 DEF RequestFits
<1> QED
  BY <1>2, <1>3, <1>4, <1>5 DEF BInv

\* Every step of the two users keeps the row honest.
LEMMA NextBInv == PInv /\ BInv /\ [Next]_uvars => BInv'
<1> SUFFICES ASSUME PInv, BInv, [Next]_uvars PROVE BInv'
  OBVIOUS
<1>1. CASE UNCHANGED uvars
  BY <1>1, RequestsStay DEF uvars, bvars, pvars
<1>2. CASE user = "service" /\ AttemptsNext /\ UNCHANGED bvars /\ user' = user
  BY <1>2, RequestsStay DEF bvars
<1>3. CASE user = "naive" /\ BaselineNext /\ user' = user
  <2>1. CASE Tick /\ UNCHANGED bvars
    BY <1>3, <2>1, RequestsStay DEF bvars, Tick
  <2>2. ASSUME NEW t \in Tasks, Arrives(t) PROVE BInv'
    BY <1>3, <2>2, ArrivesStep DEF PInv
  <2>3. ASSUME NEW t \in Tasks, CpuStepEnds(t) PROVE BInv'
    BY <1>3, <2>3, CpuStepEndsStep
  <2>4. ASSUME NEW t \in Tasks, RequestWarm(t) PROVE BInv'
    <3>1. doing[t] # "out" /\ doing' = [doing EXCEPT ![t] = "running"] /\ UNCHANGED bvars
      BY <2>4 DEF RequestWarm, WarmRuns, WarmDone, Becomes
    <3>2. \A u \in Tasks : doing'[u] = "out" <=> doing[u] = "out"
      BY <3>1, PoolTypes DEF PInv
    <3> QED
      BY <1>3, <3>1, <3>2, RequestsStay DEF bvars
  <2>5. ASSUME NEW t \in Tasks, GpuStepEnds(t) PROVE BInv'
    BY <1>3, <2>5, GpuStepEndsStep
  <2> QED
    BY <1>3, <2>1, <2>2, <2>3, <2>4, <2>5 DEF BaselineNext
<1> QED
  BY <1>1, <1>2, <1>3 DEF Next

\* What BaselineIsHonest says follows.
LEMMA BInvHonest == PInv /\ BInv => BaselineIsHonest
<1> SUFFICES ASSUME PInv, BInv PROVE BaselineIsHonest
  OBVIOUS
<1>1. \A v \in {"succeeded", "failed", "shed"} :
        counts[v] = Cardinality({t \in Tasks : verdict[t] = v})
  BY DEF BInv, VerdictsCounted, EndedWith, Verdicts
<1>2. counts.cold_starts + counts.shed =
        Cardinality(UNION {{t} \X {n \in 1 .. at[t] : chain[t][n] = "gpu"} : t \in Tasks})
  BY DEF BInv, StepsCounted, GpuStepsOf
<1>3. ASSUME \A t \in Tasks : verdict[t] # "none" PROVE WarmCount = 0
  <2>1. \A t \in Tasks : doing[t] = "out"
    BY <1>3 DEF BInv, RequestFits
  <2>2. \A w \in Workers : workers[w].state = "cold"
    BY <2>1 DEF PInv, Consistent
  <2>3. {w \in Workers : workers[w].state # "cold"} = {}
    BY <2>2
  <2> QED
    BY <2>3, FS_EmptySet DEF WarmCount
<1>4. \A t \in Tasks : verdict[t] = "shed" => chain[t][at[t] - 1] = "cpu"
  BY DEF BInv, RequestFits
<1> QED
  BY <1>1, <1>2, <1>3, <1>4 DEF BaselineIsHonest

(* The row of the baseline is honest: its verdicts count each request once,   *)
(* its cold starts and sheds account for every GPU step that was reached,     *)
(* nothing is warm when all requests have ended, and no request is shed       *)
(* between two GPU steps.                                                     *)
THEOREM BaselineAlwaysHonest == Spec => []BaselineIsHonest
<1>1. Spec => []PInv
  BY UsersKeepToLeases, PoolInvariance, PTL
<1>2. Init => BInv
  BY InitBInv
<1>3. PInv /\ BInv /\ [Next]_uvars => BInv'
  BY NextBInv
<1>4. PInv /\ BInv => BaselineIsHonest
  BY BInvHonest
<1> QED
  BY <1>1, <1>2, <1>3, <1>4, PTL DEF Spec, uvars

=============================================================================
