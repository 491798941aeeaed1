----------------------------- MODULE JobContract -----------------------------
(* What the service promises about a job to whoever submitted it, with        *)
(* nothing said of workers, queues, retries or tasks: a job takes the steps   *)
(* of its chain in order, may skip over those whose output is known, takes no *)
(* further step once it was asked to stop, ends once and stays as it ended.   *)
EXTENDS Naturals, FiniteSets

CONSTANTS
  Jobs,
  Offers,   \* what can be asked for: records [key, length], length of the chain
  NoOffer, NoJob

VARIABLES
  offer,     \* what each job is for
  newest,    \* the newest job of each key
  status,    \* how far each job is: its state,
  progress,  \* the steps of its chain that are done,
  step,      \* and the one it is at (0: none)
  asked,     \* jobs that were asked to stop
  service    \* "down", "up" or "closing"

cvars == <<offer, newest, status, progress, step, asked, service>>

OfferKeys == {o.key : o \in Offers}
Live(j)   == status[j] \in {"queued", "running"}
Ended     == {"succeeded", "failed", "cancelled"}

CInit ==
  /\ offer = [j \in Jobs |-> NoOffer]
  /\ newest = [k \in OfferKeys |-> NoJob]
  /\ status = [j \in Jobs |-> "none"]
  /\ progress = [j \in Jobs |-> 0]
  /\ step = [j \in Jobs |-> 0]
  /\ asked = {}
  /\ service = "down"

\* The service is now s, and the jobs are as they were.
ServiceIs(s) ==
  service' = s /\ UNCHANGED <<offer, newest, status, progress, step, asked>>

Open  == service = "down" /\ ServiceIs("up")
Close == service = "up" /\ ServiceIs("closing")

\* A service that was asked to stop has stopped when every job has ended.
Closed == service = "closing" /\ (\A j \in Jobs : ~Live(j)) /\ ServiceIs("down")

(* A key is taken by its newest job until that one has failed or is cancelled.*)
Take(j, o) ==
  /\ service = "up" /\ status[j] = "none"
  /\ newest[o.key] # NoJob => status[newest[o.key]] \in {"failed", "cancelled"}
  /\ offer' = [offer EXCEPT ![j] = o]
  /\ newest' = [newest EXCEPT ![o.key] = j]
  /\ status' = [status EXCEPT ![j] = "queued"]
  /\ UNCHANGED <<progress, step, asked, service>>

\* The job is now s, has done p steps and is at step n.
Becomes(j, s, p, n) ==
  /\ Live(j)
  /\ status' = [status EXCEPT ![j] = s]
  /\ progress' = [progress EXCEPT ![j] = p]
  /\ step' = [step EXCEPT ![j] = n]
  /\ UNCHANGED <<offer, newest, asked, service>>

\* The step it is at is done, and perhaps others whose output is known; and it goes on.
Advance(j) ==
  /\ Live(j) /\ j \notin asked
  /\ \E n \in (step[j] + 1) .. offer[j].length : Becomes(j, "running", n - 1, n)

\* The rest of its chain is done; only the last step may end after it was asked to stop.
Succeed(j) ==
  /\ Live(j)
  /\ j \in asked => step[j] = offer[j].length
  /\ Becomes(j, "succeeded", offer[j].length, 0)

\* The step it is at has failed for good.
Fail(j) == step[j] # 0 /\ Becomes(j, "failed", progress[j], 0)

\* It was asked to stop, or the service is; the step it is at is done or not.
Stop(j) ==
  /\ j \in asked \/ service = "closing"
  /\ \E p \in {progress[j], IF step[j] = 0 THEN progress[j] ELSE step[j]} :
       Becomes(j, "cancelled", p, 0)

Ask(j) ==
  /\ Live(j) /\ j \notin asked
  /\ asked' = asked \cup {j}
  /\ UNCHANGED <<offer, newest, status, progress, step, service>>

CNext ==
  \/ Open \/ Close \/ Closed
  \/ \E j \in Jobs : \/ \E o \in Offers : Take(j, o)
                     \/ Advance(j)
                     \/ Succeed(j)
                     \/ Fail(j)
                     \/ Stop(j)
                     \/ Ask(j)

CSpec == CInit /\ [][CNext]_cvars

==============================================================================
