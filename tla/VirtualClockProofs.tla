-------------------------- MODULE VirtualClockProofs --------------------------
(* Proofs about VirtualClock for any set of tasks, any delays, step and bound *)
(* of advance_until: types, the exactness of simulated time, and the draining *)
(* of the done-callbacks.                                                     *)
EXTENDS VirtualClock, WellFoundedInduction, TLAPS

TaskStates   == {"none", "ready", "asleep", "cancelled", "ended", "seen"}
DriverStates == {"idle", "loop", "scan", "tick", "drain", "drained", "timedOut"}

-----------------------------------------------------------------------------
(* Minima                                                                     *)

\* Min of a non-empty set of natural numbers is its least element.
LEMMA MinOfNats ==
  ASSUME NEW S, S \subseteq Nat, S # {}
  PROVE  /\ Min(S) \in S
         /\ \A y \in S : Min(S) <= y
<1>1. PICK x \in S : \A y \in S : ~ (<<y, x>> \in OpToRel(<, Nat))
  BY NatLessThanWellFounded, WFMin
<1>2. \A y \in S : ~ (y < x)
  BY <1>1 DEF OpToRel
<1>3. \A y \in S : x <= y
  BY <1>2
<1> QED
  BY <1>3 DEF Min

-----------------------------------------------------------------------------
(* The invariant                                                              *)

(* Types, with times that are never negative.                                 *)
Times ==
  /\ now \in Nat /\ target \in Nat /\ advanced \in Nat
  /\ deadline \in [Tasks -> Nat]
  /\ task \in [Tasks -> TaskStates]
  /\ driver \in DriverStates

(* A task or a callback is in at most one of the two turns; who sleeps, was   *)
(* not created or is through is in none; a callback that is due is in one.    *)
(* Between two calls nothing runs.                                            *)
Turns ==
  /\ turn \subseteq Tasks /\ soon \subseteq Tasks
  /\ turn \cap soon = {}
  /\ driver = "idle" => turn = {}
  /\ \A t \in Tasks :
       /\ task[t] \in {"none", "asleep", "seen"} => t \notin turn \cup soon
       /\ task[t] = "ended" => t \in turn \cup soon

(* Every sleeper's deadline is ahead, and an advance() in progress has not    *)
(* passed its target.                                                         *)
Ahead ==
  /\ \A t \in Asleep : now < deadline[t]
  /\ driver = "scan" => now <= target

(* From the condition on, no watched task is left; at the first of the last   *)
(* two yields the callbacks are all in the turn, and after it none is left.   *)
Draining ==
  /\ driver \in {"drain", "drained", "idle"} => Done
  /\ driver = "drain" => \A t \in Watched : t \notin soon
  /\ driver \in {"drained", "idle"} => \A t \in Watched : task[t] # "ended"

ClockInv == Times /\ Turns /\ Ahead /\ Draining

\* The parts of the invariant give the type invariant.
LEMMA InvTypes == ClockInv => ClockTypeOK
  BY DEF ClockInv, Times, Turns, ClockTypeOK, TaskStates, DriverStates

\* Initially no task exists.
LEMMA InvInit == ClockInit => ClockInv
  BY ClockAssumption
     DEF ClockInit, ClockInv, Times, Turns, Ahead, Draining, Asleep, Done,
         TaskStates, DriverStates

-----------------------------------------------------------------------------
(* The earliest deadline that is due                                          *)

\* What one iteration of advance() finds: a deadline between the time and the
\* target, which the released sleepers share and all others exceed.
LEMMA EarliestDue ==
  ASSUME ClockInv, Due # {}
  PROVE  LET m == Min({deadline[t] : t \in Due})
         IN  /\ m \in Nat /\ now < m /\ m <= target
             /\ Released \subseteq Asleep
             /\ \A t \in Released : deadline[t] = m
             /\ \A t \in Asleep \ Released : m < deadline[t]
<1> DEFINE S == {deadline[t] : t \in Due}
           m == Min(S)
<1>1. S \subseteq Nat /\ S # {}
  BY DEF ClockInv, Times, Due, Asleep
<1>2. m \in S /\ \A y \in S : m <= y
  BY <1>1, MinOfNats
<1>3. PICK t \in Due : m = deadline[t]
  BY <1>2
<1>4. \A u \in Due : m <= deadline[u]
  BY <1>2
<1> HIDE DEF m, S
<1>5. m \in Nat /\ now < m /\ m <= target
  BY <1>3 DEF ClockInv, Times, Ahead, Due, Asleep
<1>6. \A u \in Released : deadline[u] = m
  BY <1>3, <1>4, <1>5 DEF Released, Due, Asleep, ClockInv, Times
<1>7. ASSUME NEW u \in Asleep \ Released PROVE m < deadline[u]
  <2>1. CASE u \in Due
    <3>1. PICK v \in Due : ~ (deadline[u] <= deadline[v])
      BY <1>7, <2>1 DEF Released
    <3> QED
      BY <3>1, <1>4, <1>5, <2>1 DEF Due, Asleep, ClockInv, Times
  <2>2. CASE u \notin Due
    BY <1>5, <1>7, <2>2 DEF Due, Asleep, ClockInv, Times
  <2> QED BY <2>1, <2>2
<1> QED
  BY <1>5, <1>6, <1>7 DEF Released, Due, m, S

-----------------------------------------------------------------------------
(* The steps                                                                  *)

\* A task's turn preserves the invariant.
LEMMA RunInv ==
  ASSUME ClockInv, NEW t \in Tasks, Run(t)
  PROVE  ClockInv'
<1> USE DEF ClockInv, Times, Turns, Ahead, Draining, Asleep, Done, TaskStates,
            DriverStates, Run
<1>1. CASE Sleep(t)
  <2>1. PICK d \in Delays : d > 0 /\ deadline' = [deadline EXCEPT ![t] = now + d]
    BY <1>1 DEF Sleep
  <2>2. d \in Nat /\ now + d \in Nat /\ now < now + d
    BY <2>1, ClockAssumption
  <2> QED  BY <1>1, <2>1, <2>2, ClockAssumption DEF Sleep
<1>2. CASE Hop(t)
  BY <1>2, ClockAssumption DEF Hop
<1>3. ASSUME NEW u \in Tasks, Create(t, u) PROVE ClockInv'
  BY <1>3, ClockAssumption DEF Create
<1>4. ASSUME NEW u \in Tasks, Cancel(t, u) PROVE ClockInv'
  BY <1>4, ClockAssumption DEF Cancel
<1>5. CASE End(t)
  BY <1>5, ClockAssumption DEF End
<1>6. CASE DoneCallback(t)
  BY <1>6, ClockAssumption DEF DoneCallback
<1> QED
  BY <1>1, <1>2, <1>3, <1>4, <1>5, <1>6

\* The driver preserves it.
LEMMA DriverInv ==
  ASSUME ClockInv,
         Call \/ Return \/ TimeOut \/ Advance \/ Release \/ Arrive \/ Tick
  PROVE  ClockInv'
<1> USE ClockAssumption
    DEF ClockInv, Times, Turns, Ahead, Draining, Asleep, Done, TaskStates,
        DriverStates, Resumed, YieldTo
<1>1. CASE Call
  BY <1>1 DEF Call
<1>2. CASE Return
  BY <1>2 DEF Return
<1>3. CASE TimeOut
  BY <1>3 DEF TimeOut
<1>4. CASE Advance
  BY <1>4 DEF Advance
<1>5. CASE Release
  <2>1. /\ now' \in Nat /\ now' <= target
        /\ Released \subseteq Asleep
        /\ \A t \in Asleep \ Released : now' < deadline[t]
    BY <1>5, EarliestDue DEF Release
  <2> QED  BY <1>5, <2>1 DEF Release
<1>6. CASE Arrive
  <2>1. \A t \in Asleep : target < deadline[t]
    BY <1>6 DEF Arrive, Due
  <2> QED  BY <1>6, <2>1 DEF Arrive
<1>7. CASE Tick
  BY <1>7 DEF Tick
<1> QED
  BY <1>1, <1>2, <1>3, <1>4, <1>5, <1>6, <1>7

\* Every step preserves it.
LEMMA InvStep == ClockInv /\ [ClockNext]_cvars => ClockInv'
<1> SUFFICES ASSUME ClockInv, [ClockNext]_cvars PROVE ClockInv'
  OBVIOUS
<1>1. ASSUME NEW t \in Tasks, Run(t) PROVE ClockInv'
  BY <1>1, RunInv
<1>2. CASE Call \/ Return \/ TimeOut \/ Advance \/ Release \/ Arrive \/ Tick
  BY <1>2, DriverInv
<1>3. CASE UNCHANGED cvars
  BY <1>3 DEF cvars, ClockInv, Times, Turns, Ahead, Draining, Asleep, Done
<1> QED
  BY <1>1, <1>2, <1>3 DEF ClockNext

\* The invariant holds in every reachable state.
LEMMA InvAlways == ClockSpec => []ClockInv
<1> QED  BY InvInit, InvStep, PTL DEF ClockSpec

-----------------------------------------------------------------------------
(* The theorems                                                               *)

(* The clock, the tasks and the driver of advance_until always have their     *)
(* types, and no task is scheduled twice.                                     *)
THEOREM ClockTypeCorrect == ClockSpec => []ClockTypeOK
<1> QED  BY InvAlways, InvTypes, PTL

\* The step that moves the clock, and every other one, is exact.
LEMMA ExactStep ==
  ASSUME ClockInv, [ClockNext]_cvars
  PROVE  [/\ now' >= now
          /\ \A t \in Asleep : /\ task'[t] = "asleep" => now' < deadline[t]
                               /\ task'[t] = "ready"  => now' = deadline[t]]_cvars
<1> DEFINE Exact == /\ now' >= now
                    /\ \A t \in Asleep :
                         /\ task'[t] = "asleep" => now' < deadline[t]
                         /\ task'[t] = "ready"  => now' = deadline[t]
<1> SUFFICES ASSUME ClockNext PROVE Exact
  OBVIOUS
<1>1. ASSUME NEW t \in Tasks, Run(t) PROVE Exact
  BY <1>1 DEF Run, Sleep, Hop, Create, Cancel, End, DoneCallback,
              ClockInv, Times, Ahead, Asleep
<1>2. CASE Call
  <2>1. now' = now /\ \A t \in Asleep : task'[t] = "asleep"
    BY <1>2 DEF Call, Asleep, ClockInv, Times
  <2> QED  BY <2>1 DEF ClockInv, Times, Ahead, Asleep
<1>3. CASE Return \/ TimeOut \/ Advance \/ Tick
  BY <1>3 DEF Return, TimeOut, Advance, Tick, ClockInv, Times, Ahead, Asleep
<1>4. CASE Release
  <2>1. /\ now' \in Nat /\ now < now'
        /\ \A t \in Released : deadline[t] = now'
        /\ \A t \in Asleep \ Released : now' < deadline[t]
    BY <1>4, EarliestDue DEF Release
  <2>2. \A t \in Asleep \ Released : task'[t] = "asleep"
    BY <1>4 DEF Release, Asleep
  <2>3. \A t \in Released \cap Asleep : task'[t] = "ready"
    BY <1>4 DEF Release, Asleep
  <2> QED  BY <2>1, <2>2, <2>3 DEF ClockInv, Times
<1>5. CASE Arrive
  <2>1. \A t \in Asleep : target < deadline[t]
    BY <1>5 DEF Arrive, Due, Asleep, ClockInv, Times
  <2> QED  BY <1>5, <2>1 DEF Arrive, Resumed, ClockInv, Times, Ahead, Asleep
<1> HIDE DEF Exact
<1> QED
  BY <1>1, <1>2, <1>3, <1>4, <1>5 DEF ClockNext

(* Time never goes back and never passes a sleeper; every sleeper wakes at    *)
(* its own deadline, whatever the tasks do in between.                        *)
THEOREM SleepAlwaysExact == ClockSpec => SleepIsExact
<1> QED  BY InvAlways, ExactStep, PTL DEF ClockSpec, SleepIsExact

(* When advance_until has returned, no done-callback of a task it waited for  *)
(* is left to run.                                                            *)
THEOREM CallbacksAlwaysDrained == ClockSpec => []CallbacksDrained
<1>1. ClockInv => CallbacksDrained
  BY DEF ClockInv, Draining, CallbacksDrained
<1> QED  BY <1>1, InvAlways, PTL

===============================================================================
