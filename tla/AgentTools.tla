------------------------------ MODULE AgentTools ------------------------------
(* The tools of service/agent.py, and an agent that does what they advise: it *)
(* asks whether to submit now, submits, polls its job, and when that did not  *)
(* succeed follows the suggestion that comes with the error (ERROR_KINDS in   *)
(* service/models.py).  It may cancel its job at any time, and the answer to a*)
(* submit may be lost on the way: it then submits again, with the same key.   *)
(*                                                                            *)
(* A tool call is one step: no handler awaits before it returns.  They are    *)
(* served while the application is up.                                        *)
EXTENDS JobService

CONSTANT Goal   \* the request the agent wants to see through

ASSUME AgentAssumption == Goal \in Requests /\ Accepts(Goal.chain)

VARIABLES
  agent,   \* what it does: asks, submits, polls, or is finished or has quit
  mine,    \* the id of its job, once it has been told
  patient  \* whether it submits again

agentVars == <<agent, mine, patient>>

ErrorKinds == [transient_exhausted |-> "resubmit", permanent |-> "give_up",
               cancelled |-> "resubmit"]

\* Job.error: its kind
JobError(j) ==
  IF state[j] = "cancelled" THEN "cancelled"
  ELSE IF state[j] = "failed" THEN steps[j][at[j]].error ELSE "none"

\* _suggestion
Suggestion(j) == IF JobError(j) = "none" THEN "none" ELSE ErrorKinds[JobError(j)]

Unused == {j \in Jobs : Untouched(j)}

\* accepting_gpu_jobs of system_status()
AcceptingGpuJobs == admitted < MaxBacklog

AgentInit == agent = "asking" /\ mine = NoJob /\ patient \in BOOLEAN

\* get_system_status; it asks again later when the answer is no.
GetSystemStatus ==
  /\ phase = "up" /\ agent = "asking" /\ AcceptingGpuJobs
  /\ agent' = "submitting"
  /\ UNCHANGED <<svars, mine, patient>>

\* submit_chain makes a job; it may be that the agent is never told.
SubmitChain ==
  /\ phase = "up" /\ agent = "submitting"
  /\ \E j \in Unused :
       /\ Submit(j, Goal)
       /\ \/ agent' = "polling" /\ mine' = j /\ UNCHANGED patient
          \/ patient /\ Unused # {j} /\ UNCHANGED agentVars

\* submit_chain finds a job with the key.
SubmitDeduplicated ==
  /\ phase = "up" /\ agent = "submitting"
  /\ Dedups(Goal.key)
  /\ agent' = "polling" /\ mine' = byKey[Goal.key]
  /\ UNCHANGED <<svars, patient>>

\* submit_chain is refused, with over_capacity and retry_after: the agent waits.
SubmitRefused ==
  /\ phase = "up" /\ agent = "submitting"
  /\ ~Dedups(Goal.key) /\ ~Fits(GpuItemCount(ResolveChain(Goal.chain)))
  /\ agent' = "asking"
  /\ UNCHANGED <<svars, mine, patient>>

(* get_job of a job that is over; as long as it is not, the agent polls.  It  *)
(* gives up, too, when it is impatient or has submitted as often as it can.   *)
GetJob ==
  /\ phase = "up" /\ agent = "polling" /\ state[mine] \in Terminal
  /\ agent' = IF state[mine] = "succeeded" THEN "finished"
              ELSE IF Suggestion(mine) = "resubmit" /\ patient /\ Unused # {} THEN "asking"
              ELSE "quit"
  /\ UNCHANGED <<svars, mine, patient>>

\* cancel_job; the agent goes on polling.
CancelJob == phase = "up" /\ agent = "polling" /\ Cancel(mine) /\ UNCHANGED agentVars

AgentNext ==
  \/ GetSystemStatus
  \/ SubmitChain
  \/ SubmitDeduplicated
  \/ SubmitRefused
  \/ GetJob
  \/ CancelJob

-----------------------------------------------------------------------------
(* Properties                                                                 *)

(* A suggestion tells what happened and can be followed: "transient failures  *)
(* exhausted the retry budget" - the step has made all its attempts; "job was *)
(* cancelled, not broken" - it was asked to stop, or the service was, which   *)
(* may have been started again since; and when the advice is to resubmit, a   *)
(* submit with the job's key is not answered with this dead job ("dedup must  *)
(* not trap the caller on a dead job").  A job that is not over comes with no *)
(* suggestion, and one that is over without having succeeded comes with one.  *)
AdviceIsTrue ==
  \A j \in Jobs \ Unused :
    /\ Suggestion(j) # "none" <=> state[j] \in Resubmittable
    /\ JobError(j) = "transient_exhausted" => steps[j][at[j]].attempts = MaxAttempts
    /\ JobError(j) = "cancelled" => j \in cancelRequested \/ phase # "up" \/ starts > 1
    /\ Suggestion(j) = "resubmit" =>
         ~(Dedups(request[j].key) /\ byKey[request[j].key] = j)

(* An agent that does as it is told gets somewhere: it has its result, or a   *)
(* failure that is for good, or has used up what it would submit; it is not   *)
(* sent in circles between submit, retry_after and a job that is dead.        *)
AgentFinishes ==
  phase = "up" ~> agent \in {"finished", "quit"} \/ phase # "up"

=============================================================================
