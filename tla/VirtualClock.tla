----------------------------- MODULE VirtualClock -----------------------------
(* ManualClock (pipeline_kit/clock.py) driven by advance_until                *)
(* (service/simtime.py), on asyncio's event loop.                             *)
(*                                                                            *)
(* The loop runs its ready queue in turns.  When the driver yields, what was  *)
(* scheduled by then runs before the driver goes on (turn); what that         *)
(* schedules in its turn runs after the driver's next yield (soon).  The      *)
(* order within a turn is left open.                                          *)
EXTENDS Integers, FiniteSets, FiniteSetsExt

CONSTANTS
  Tasks,
  Watched,  \* those that advance_until's condition waits for; the others are
            \* runners and timers, which create no task of a job
  Delays,   \* what they pass to sleep()
  StepS,    \* step_s
  MaxS,     \* max_s
  MaxCalls  \* bound: calls of advance_until

ASSUME ClockAssumption ==
  /\ Watched \subseteq Tasks
  /\ Delays \subseteq Int /\ StepS \in Nat \ {0}
  /\ MaxS \in Nat /\ MaxCalls \in Nat

VARIABLES
  now,       \* _now
  target,    \* of the advance() in progress, or of the last one
  task,      \* what each task is doing
  deadline,  \* of each sleeper
  turn,      \* tasks and callbacks to run before the driver
  soon,      \* scheduled for the turn after
  driver,    \* where the driver is
  advanced,  \* of the call of advance_until in progress
  calls

cvars == <<now, target, task, deadline, turn, soon, driver, advanced, calls>>

Asleep == {t \in Tasks : task[t] = "asleep"}

\* The condition: the watched tasks that were created have ended.
Done == \A t \in Watched : task[t] \in {"none", "ended", "seen"}

ClockInit ==
  /\ now = 0 /\ target = 0
  /\ task = [t \in Tasks |-> "none"]
  /\ deadline = [t \in Tasks |-> 0]
  /\ turn = {} /\ soon = {}
  /\ driver = "idle"
  /\ advanced = 0
  /\ calls = 0

-----------------------------------------------------------------------------
(* A task's turn: from one await to the next                                  *)

(* sleep(): with a delay that is not positive it returns at once, which is no *)
(* step of its own.                                                           *)
Sleep(t) ==
  /\ task[t] = "ready"
  /\ \E d \in Delays :
       /\ d > 0
       /\ deadline' = [deadline EXCEPT ![t] = now + d]
  /\ task' = [task EXCEPT ![t] = "asleep"]
  /\ turn' = turn \ {t}
  /\ UNCHANGED soon

\* It awaits something that another callback of the loop completes.
Hop(t) ==
  /\ task[t] = "ready"
  /\ turn' = turn \ {t} /\ soon' = soon \cup {t}
  /\ UNCHANGED <<task, deadline>>

\* It creates a task and goes on.
Create(t, u) ==
  /\ task[t] = "ready" /\ task[u] = "none"
  /\ u \in Watched => t \in Watched
  /\ task' = [task EXCEPT ![u] = "ready"]
  /\ soon' = soon \cup {u}
  /\ UNCHANGED <<turn, deadline>>

\* Mutant: a sleeper that was released and has yet to run is scheduled again.
Cancel_Released(t, u) ==
  /\ task[t] = "ready" /\ task[u] \in {"asleep", "ready"} /\ u # t
  /\ task' = [task EXCEPT ![u] = "cancelled"]
  /\ soon' = soon \cup {u}
  /\ UNCHANGED <<turn, deadline>>

(* It cancels a sleeper.  The cancelled future stays in _sleepers until the   *)
(* next batch, but is done, and every use of the list skips it.               *)
Cancel(t, u) ==
  /\ task[t] = "ready" /\ task[u] = "asleep"
  /\ task' = [task EXCEPT ![u] = "cancelled"]
  /\ soon' = soon \cup {u}
  /\ UNCHANGED <<turn, deadline>>

\* It ends, which schedules its done-callback.
End(t) ==
  /\ task[t] \in {"ready", "cancelled"}
  /\ task' = [task EXCEPT ![t] = "ended"]
  /\ turn' = turn \ {t} /\ soon' = soon \cup {t}
  /\ UNCHANGED deadline

DoneCallback(t) ==
  /\ task[t] = "ended"
  /\ task' = [task EXCEPT ![t] = "seen"]
  /\ turn' = turn \ {t}
  /\ UNCHANGED <<soon, deadline>>

Run(t) ==
  /\ t \in turn
  /\ \/ Sleep(t)
     \/ Hop(t)
     \/ \E u \in Tasks : Create(t, u) \/ Cancel(t, u)
     \/ End(t)
     \/ DoneCallback(t)
  /\ UNCHANGED <<now, target, driver, advanced, calls>>

-----------------------------------------------------------------------------
(* The driver                                                                 *)

\* await asyncio.sleep(0), with the tasks in S woken just before
YieldTo(S, next) ==
  /\ turn' = soon \cup S /\ soon' = {}
  /\ driver' = next

Resumed(pc) == driver = pc /\ turn = {}

(* The driver creates a task and calls advance_until.                         *)
Call ==
  /\ driver = "idle" /\ calls < MaxCalls
  /\ calls' = calls + 1
  /\ advanced' = 0
  /\ \E t \in Watched : /\ task[t] = "none"
                        /\ task' = [task EXCEPT ![t] = "ready"]
                        /\ YieldTo({t}, "loop")
  /\ UNCHANGED <<now, target, deadline>>

\* Mutant: the callbacks are not drained.
Return_AtOnce ==
  /\ Resumed("loop") /\ Done
  /\ driver' = "idle"
  /\ UNCHANGED <<now, target, task, deadline, turn, soon, advanced, calls>>

\* The condition holds: two more yields and advance_until returns.
Return ==
  /\ \/ Resumed("loop") /\ Done /\ YieldTo({}, "drain")
     \/ Resumed("drain") /\ YieldTo({}, "drained")
     \/ Resumed("drained") /\ driver' = "idle" /\ UNCHANGED <<turn, soon>>
  /\ UNCHANGED <<now, target, task, deadline, advanced, calls>>

TimeOut ==
  /\ Resumed("loop") /\ ~Done /\ advanced >= MaxS
  /\ driver' = "timedOut"
  /\ UNCHANGED <<now, target, task, deadline, turn, soon, advanced, calls>>

Advance ==
  /\ Resumed("loop") /\ ~Done /\ advanced < MaxS
  /\ target' = now + StepS
  /\ driver' = "scan"
  /\ UNCHANGED <<now, task, deadline, turn, soon, advanced, calls>>

Due == {t \in Asleep : deadline[t] <= target}

\* Mutants: everything due is released at once; "<" for "<=".
Released_All    == Due
Released_Strict == {t \in Due : \A u \in Due : deadline[t] < deadline[u]}

Released == {t \in Due : \A u \in Due : deadline[t] <= deadline[u]}

(* One iteration of advance(): the sleepers with the earliest deadline wake,  *)
(* at their deadline, and run.                                                *)
Release ==
  /\ Resumed("scan") /\ Due # {}
  /\ now' = Min({deadline[t] : t \in Due})
  /\ task' = [t \in Tasks |-> IF t \in Released THEN "ready" ELSE task[t]]
  /\ YieldTo(Released, "scan")
  /\ UNCHANGED <<target, deadline, advanced, calls>>

(* Nothing is due any more: advance() returns at the target, and              *)
(* advance_until yields twice.                                                *)
Arrive ==
  /\ Resumed("scan") /\ Due = {}
  /\ now' = target
  /\ YieldTo({}, "tick")
  /\ UNCHANGED <<target, task, deadline, advanced, calls>>

Tick ==
  /\ Resumed("tick")
  /\ YieldTo({}, "loop")
  /\ advanced' = advanced + StepS
  /\ UNCHANGED <<now, target, task, deadline, calls>>

-----------------------------------------------------------------------------
ClockNext ==
  \/ \E t \in Tasks : Run(t)
  \/ Call
  \/ Return
  \/ TimeOut
  \/ Advance
  \/ Release
  \/ Arrive
  \/ Tick

ClockSpec == ClockInit /\ [][ClockNext]_cvars

(* A turn of the loop comes to an end, and the driver goes on after it.       *)
ClockFairness ==
  /\ \A t \in Tasks : WF_cvars(/\ t \in turn
                               /\ Sleep(t) \/ Hop(t) \/ End(t) \/ DoneCallback(t)
                               /\ UNCHANGED <<now, target, driver, advanced, calls>>)
  /\ WF_cvars(Return) /\ WF_cvars(TimeOut) /\ WF_cvars(Advance)
  /\ WF_cvars(Release) /\ WF_cvars(Arrive) /\ WF_cvars(Tick)

FairClockSpec == ClockSpec /\ ClockFairness

-----------------------------------------------------------------------------
(* Properties                                                                 *)

\* Every variable has its type.
ClockTypeOK ==
  /\ now \in Int /\ target \in Int /\ advanced \in Nat
  /\ task \in [Tasks -> {"none", "ready", "asleep", "cancelled", "ended", "seen"}]
  /\ deadline \in [Tasks -> Int]
  /\ turn \subseteq Tasks /\ soon \subseteq Tasks
  /\ turn \cap soon = {}
  /\ driver \in {"idle", "loop", "scan", "tick", "drain", "drained", "timedOut"}

(* Simulated time is exact and in order: time never goes back, it never       *)
(* passes a sleeper's deadline with the sleeper still asleep, whoever went to *)
(* sleep during the same advance() included, and a sleeper is released at its *)
(* deadline and not before ("Sleepers are released in deadline order").       *)
SleepIsExact ==
  [][/\ now' >= now
     /\ \A t \in Asleep : /\ task'[t] = "asleep" => now' < deadline[t]
                          /\ task'[t] = "ready"  => now' = deadline[t]]_cvars

(* When advance_until returns, the done-callbacks of the tasks it waited for  *)
(* have run ("drain them so the caller observes their effects too").          *)
CallbacksDrained == driver = "idle" => \A t \in Watched : task[t] # "ended"

(* advance_until comes to an end, with its condition or with an error, even   *)
(* when tasks sleep for ever.                                                 *)
AdvanceUntilEnds == driver = "loop" ~> driver \in {"idle", "timedOut"}

===============================================================================
