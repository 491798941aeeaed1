-------------------------------- MODULE Clients --------------------------------
(* The service behind its routes: an agent that drives a job through the tools*)
(* and a client that watches the events of one.  Only the job of an agent that*)
(* does not resubmit is watched, a bound on what is combined: streams do not  *)
(* change the service, and each watches one job.                              *)
EXTENDS EventStream, AgentTools

clientVars == <<svars, streamVars, agentVars>>

ClientsInit == ServiceInit /\ StreamInit /\ AgentInit

ClientsNext ==
  \/ ServiceRuns /\ UNCHANGED <<streamVars, agentVars>>
  \/ ~patient /\ StreamNext /\ UNCHANGED agentVars
  \/ AgentNext /\ UNCHANGED streamVars

(* The loop serves the stream of a client that is there, and the agent makes  *)
(* its next call some time; it need never cancel.                             *)
ClientsFairness ==
  /\ WF_streamVars(Poll) /\ WF_streamVars(Sent) /\ WF_streamVars(PollAgain)
  /\ WF_agentVars(GetSystemStatus)
  /\ WF_<<svars, agentVars>>(SubmitChain \/ SubmitDeduplicated \/ SubmitRefused)
  /\ WF_agentVars(GetJob)

ClientsSpec == ClientsInit /\ [][ClientsNext]_clientVars /\ ServiceFairness /\ ClientsFairness

================================================================================
