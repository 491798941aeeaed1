------------------------------ MODULE Attempts ------------------------------
(* The attempts of GPU steps on the pool's workers: the runners of the        *)
(* scheduler with run_with_retries on the worker they hold (_execute), the    *)
(* attempt ledger (runner.py), the failure draws of the kit (pipelines.py),   *)
(* the spans an observer records and the cost the trace attributes to them    *)
(* (metrics.py).                                                              *)
(*                                                                            *)
(* Tasks are runner tasks.  How many there are, and when one that is idle     *)
(* retires, is the question of GpuScheduler: here they come and go freely     *)
(* until stop().                                                              *)
EXTENDS GpuPool, RetryLoop, SequencesExt

CONSTANTS
  Executions,    \* GPU items, of whatever jobs
  StepInputs,    \* what they execute: a step on an input
  BackoffBase, BackoffFactor, BackoffCap,   \* base_s, factor, cap_s
  Failures,      \* the failures whose rate is not zero
  NoExecution

ASSUME AttemptAssumption ==
  /\ BackoffBase \in Nat /\ BackoffFactor \in Nat \ {0} /\ BackoffCap \in Nat
  /\ Failures \subseteq Outcomes
  /\ NoExecution \notin Executions

VARIABLES
  ledger,      \* _used: the next attempt number of each step and input
  execution,   \* the record of each item's step
  line,        \* the items that are queued and live
  serving,     \* the item each runner executes
  started      \* _started

avars == <<ledger, execution, line, serving, started>>

-----------------------------------------------------------------------------
(* Backoff and failure draws                                                  *)

\* What the delay after n failures is drawn below
BackoffLimit(n) ==
  LET raw == BackoffBase * BackoffFactor ^ (n - 1)
  IN  IF raw <= BackoffCap THEN raw ELSE BackoffCap

Spans == UNION {{<<e, m>> : m \in 1 .. Len(execution[e].spans)} : e \in Executions}

SpanAt(p)  == execution[p[1]].spans[p[2]]
InputAt(p) == execution[p[1]].input

(* How attempt n on input i may end.  The draw is a pure function of the      *)
(* step, the input and the number: the same number ends the same way again.   *)
Draws(i, n) ==
  {o \in Failures \cup {"ok"} :
     \A p \in Spans : LET s == SpanAt(p)
                      IN InputAt(p) = i /\ s.attempt = n /\ s.outcome \in Outcomes
                           => s.outcome = o}

-----------------------------------------------------------------------------
(* Records of a step: StepRun, AttemptSpan, StepRunObserver                   *)

Unused == [input |-> "none", state |-> "none", cancelled |-> FALSE, wake |-> 0,
           spans |-> <<>>]

\* Mutant: every execution of a step counts its attempts from zero.
NextAttempt_PerItem(e) == Len(execution[e].spans)

\* AttemptLedger.next_attempt
NextAttempt(e) == ledger[execution[e].input]

\* attempt_started
Begun(e) ==
  [execution[e] EXCEPT !.state = "running", !.wake = 0,
     !.spans = Append(@, [attempt |-> NextAttempt(e), start |-> now, end |-> NoTime,
                          outcome |-> "running"])]

\* The attempt is numbered and begins; r says what else is recorded.
Begins(e, r) ==
  /\ ledger' = [ledger EXCEPT ![execution[e].input] = @ + 1]
  /\ execution' = [r EXCEPT ![e] = Begun(e)]

\* attempt_finished, and the close of an open span by _finish_cancelled
Closed(r, o) ==
  [r EXCEPT !.spans[Len(r.spans)] =
     IF @.end = NoTime THEN [@ EXCEPT !.end = now, !.outcome = o] ELSE @]

\* The item's future is done; its flag does not matter any more.
Resolved(r) == [r EXCEPT !.state = "done", !.cancelled = FALSE]

\* Mutant: each attempt is attributed the time since the first one began.
HeldSeconds_Each(r) ==
  FoldLeft(LAMBDA sum, s : IF s.end = NoTime THEN sum ELSE sum + (s.end - r.spans[1].start),
           0, r.spans)

\* held_s of build_trace: from the first attempt to the last, backoff included
HeldSeconds(r) ==
  IF r.spans # <<>> /\ Last(r.spans).end # NoTime
  THEN Last(r.spans).end - r.spans[1].start ELSE 0

-----------------------------------------------------------------------------
AttemptsInit ==
  /\ ledger = [i \in StepInputs |-> 0]
  /\ execution = [e \in Executions |-> Unused]
  /\ line = <<>>
  /\ serving = [t \in Tasks |-> NoExecution]
  /\ started = TRUE

\* A job comes to a GPU step that is not memoized (make_item).
Enqueue(e, i) ==
  /\ execution[e].state = "none" /\ started
  /\ execution' = [execution EXCEPT ![e].input = i, ![e].state = "queued"]
  /\ line' = Append(line, e)
  /\ UNCHANGED <<pvars, ledger, serving, started>>

\* cancel() of the job: an item that is queued is resolved, another one flagged.
CancelExecution(e) ==
  /\ execution[e].state \in {"queued", "running", "backoff"} /\ ~execution[e].cancelled
  /\ started
  /\ execution' = [execution EXCEPT ![e] = IF @.state = "queued" THEN Resolved(@)
                                           ELSE [@ EXCEPT !.cancelled = TRUE]]
  /\ line' = RemoveFirst(line, e)
  /\ UNCHANGED <<pvars, ledger, serving, started>>

\* Runner t goes on with the head of the line, its own records being r.
Takes(t, r) ==
  /\ Begins(Head(line), r)
  /\ line' = Tail(line)
  /\ serving' = [serving EXCEPT ![t] = Head(line)]

RunnerEnters(t) == started /\ Enter(t) /\ UNCHANGED avars

\* warm() returns; _next_item() pops the first item or waits.
RunnerWarm(t) ==
  /\ started
  /\ IF line = <<>>
     THEN WarmReturns(t) /\ UNCHANGED <<ledger, execution, line, serving>>
     ELSE WarmRuns(t) /\ Takes(t, execution)
  /\ UNCHANGED started

\* A waiting runner is woken by an item.
RunnerTakes(t) ==
  /\ started /\ serving[t] = NoExecution /\ line # <<>>
  /\ Run(t) /\ Takes(t, execution)
  /\ UNCHANGED started

(* An attempt ends with o: the loop sleeps its backoff on the held worker, or *)
(* the item is resolved and the runner goes on with the next one.             *)
AttemptEnds(t, o) ==
  LET e    == serving[t]
      r    == Closed(execution[e], o)
      next == AfterAttempt(o, Len(r.spans), r.cancelled)
      over == [execution EXCEPT ![e] = Resolved(r)]
  IN /\ started /\ doing[t] = "running"
     /\ o \in Draws(r.input, Last(r.spans).attempt)
     /\ \/ /\ next = "backoff"
           /\ \E b \in 0 .. BackoffLimit(Len(r.spans)) :
                execution' = [execution EXCEPT
                                ![e] = [r EXCEPT !.state = "backoff", !.wake = now + b]]
           /\ RunEnds(t)
           /\ UNCHANGED <<ledger, line, serving>>
        \/ /\ next # "backoff" /\ line = <<>>
           /\ execution' = over
           /\ serving' = [serving EXCEPT ![t] = NoExecution]
           /\ RunEnds(t)
           /\ UNCHANGED <<ledger, line>>
        \/ /\ next # "backoff" /\ line # <<>>
           /\ RunNext(t) /\ Takes(t, over)
     /\ UNCHANGED started

\* The backoff is over: the next attempt, whatever was cancelled meanwhile.
BackoffOver(t) ==
  /\ started /\ serving[t] # NoExecution /\ doing[t] = "ready"
  /\ now >= execution[serving[t]].wake
  /\ Run(t) /\ Begins(serving[t], execution)
  /\ UNCHANGED <<line, serving, started>>

\* An idle runner retires.
RunnerRetires(t) ==
  /\ started /\ doing[t] = "ready" /\ serving[t] = NoExecution
  /\ Leave(t)
  /\ UNCHANGED avars

StopRunners == started /\ started' = FALSE /\ UNCHANGED <<pvars, ledger, execution, line, serving>>

(* CancelledError in a runner: the item it serves is resolved, its job closes *)
(* the span, and the worker is cooled and released.  stop() awaits this of all*)
(* runners, and none of them awaits anything more: the clock does not move.   *)
RunnerCancelled(t) ==
  /\ ~started /\ Leave(t)
  /\ serving' = [serving EXCEPT ![t] = NoExecution]
  /\ execution' = [e \in Executions |->
                     IF e = serving[t] THEN Resolved(Closed(execution[e], "running"))
                     ELSE execution[e]]
  /\ UNCHANGED <<ledger, line, started>>

AttemptsNext ==
  \/ started /\ Tick /\ UNCHANGED avars
  \/ StopRunners
  \/ \E e \in Executions : \/ \E i \in StepInputs : Enqueue(e, i)
                           \/ CancelExecution(e)
  \/ \E t \in Tasks : \/ RunnerEnters(t) \/ RunnerWarm(t) \/ RunnerTakes(t)
                      \/ \E o \in Failures \cup {"ok"} : AttemptEnds(t, o)
                      \/ BackoffOver(t) \/ RunnerRetires(t) \/ RunnerCancelled(t)

AttemptsSpec == PoolInit /\ AttemptsInit /\ [][AttemptsNext]_<<pvars, avars>>

-----------------------------------------------------------------------------
(* Properties                                                                 *)

(* "every attempt - including one made by a resubmission of a failed job -    *)
(* must use a fresh number to get an independent draw" (AttemptLedger), also  *)
(* when two jobs execute the same step on the same input at the same time.    *)
FreshDraws ==
  \A p, q \in Spans :
    p # q /\ InputAt(p) = InputAt(q) => SpanAt(p).attempt # SpanAt(q).attempt

(* The trace attributes to the steps no more than the pool bills, and, when   *)
(* no attempt is open, at least the time the workers ran: backoffs are in,    *)
(* idle time outside any job is not smeared over the jobs (build_trace).      *)
AttributedWithinBill ==
  LET attributed == Total([e \in Executions |-> HeldSeconds(execution[e])])
  IN  /\ attributed <= TotalWarmSeconds
      /\ (\A t \in Tasks : doing[t] # "running") => TotalBusySeconds <= attributed

-----------------------------------------------------------------------------
(* "retrying this input will always fail" (ERROR_KINDS, the advice that goes  *)
(* with a permanent failure; also PermanentError, and permanent_failure_rate, *)
(* "fails permanently (non-retryable) on every attempt").                     *)
PermanentIsFinal ==
  \A p, q \in Spans :
    /\ InputAt(p) = InputAt(q)
    /\ SpanAt(p).outcome = "permanent" /\ SpanAt(q).outcome = "ok"
    => SpanAt(p).attempt > SpanAt(q).attempt

=============================================================================
