----------------------------- MODULE EventStream -----------------------------
(* GET /jobs/{id}/events (service/api.py): a generator that polls a job and   *)
(* yields its payload whenever the fingerprint _change_key has changed, until *)
(* the job is terminal.  A yield hands the payload to the server, which comes *)
(* back for more when it has been sent; the job goes on meanwhile, and the    *)
(* generator holds the live Job object, not a copy.                           *)
EXTENDS JobService

CONSTANT Watched   \* the job a client watches

ASSUME StreamAssumption == Watched \in Jobs

VARIABLES
  stream,    \* where the generator is
  lastKey    \* last_key, the fingerprint of the last payload (<<>>: None)

streamVars == <<stream, lastKey>>

\* _change_key
ChangeKey(j) ==
  <<state[j], [n \in 1 .. Len(steps[j]) |-> <<steps[j][n].state, steps[j][n].attempts>>]>>

StreamInit ==
  /\ stream = "none"
  /\ lastKey = <<>>

\* A request for a job that does not exist is a 404.
Open ==
  /\ stream = "none" /\ ~Untouched(Watched)
  /\ stream' = "polling"
  /\ UNCHANGED <<svars, lastKey>>

\* Mutant: only a success ends the stream.
EndOrSleep_OnSuccess == stream' = IF state[Watched] = "succeeded" THEN "closed" ELSE "sleeping"

\* if job.is_terminal: break, else sleep
EndOrSleep == stream' = IF state[Watched] \in Terminal THEN "closed" ELSE "sleeping"

Poll ==
  /\ stream = "polling"
  /\ IF ChangeKey(Watched) # lastKey
     THEN lastKey' = ChangeKey(Watched) /\ stream' = "sending"
     ELSE EndOrSleep /\ UNCHANGED lastKey
  /\ UNCHANGED svars

\* The payload is sent and the generator is resumed.
Sent == stream = "sending" /\ EndOrSleep /\ UNCHANGED <<svars, lastKey>>

PollAgain == stream = "sleeping" /\ stream' = "polling" /\ UNCHANGED <<svars, lastKey>>

\* The client goes away; the server closes the generator.
Disconnect ==
  /\ stream \in {"polling", "sending", "sleeping"}
  /\ stream' = "dropped"
  /\ UNCHANGED <<svars, lastKey>>

StreamNext ==
  \/ Open
  \/ Poll
  \/ Sent
  \/ PollAgain
  \/ Disconnect

-----------------------------------------------------------------------------
(* A stream ends when the job does, and not before.                           *)
StreamEnds ==
  /\ stream = "polling" ~> stream \in {"closed", "dropped"}
  /\ [](stream = "closed" => state[Watched] \in Terminal)

-----------------------------------------------------------------------------
(* "emits the job payload on every state change until terminal": the last     *)
(* payload of a stream that was not dropped shows how the job ended.          *)
EndIsEmitted == stream = "closed" => lastKey[1] \in Terminal

=============================================================================
