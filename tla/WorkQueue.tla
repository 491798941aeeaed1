------------------------------ MODULE WorkQueue ------------------------------
(* What the GPU scheduler promises to a job that awaits an item, with nothing *)
(* said of runners, warm-up, timeouts or retries: a FIFO line served by at    *)
(* most Capacity servers, every item closed once and never reopened.          *)
EXTENDS Naturals, Sequences, FiniteSets

CONSTANTS Items, Capacity

VARIABLES
  line,     \* items that wait and were not withdrawn, in order of arrival
  serving,  \* items being executed
  outcome   \* of each item: "none", "pending", then how it was closed

wvars == <<line, serving, outcome>>

Close(S, o) == [i \in Items |-> IF i \in S THEN o ELSE outcome[i]]

InLine == {line[k] : k \in 1 .. Len(line)}

WInit ==
  /\ line = <<>>
  /\ serving = {}
  /\ outcome = [i \in Items |-> "none"]

Enqueue(i) ==
  /\ outcome[i] = "none"
  /\ line' = Append(line, i)
  /\ outcome' = [outcome EXCEPT ![i] = "pending"]
  /\ UNCHANGED serving

\* A waiting item is cancelled: it leaves the line, wherever it stands.
Withdraw(k) ==
  /\ k \in 1 .. Len(line)
  /\ line' = SubSeq(line, 1, k - 1) \o SubSeq(line, k + 1, Len(line))
  /\ outcome' = Close({line[k]}, "cancelled")
  /\ UNCHANGED serving

\* A server becomes available, or has closed the items in done: it takes the
\* head of the line.
Serve(done, o) ==
  /\ line # <<>>
  /\ done \subseteq serving
  /\ serving' = (serving \ done) \cup {Head(line)}
  /\ Cardinality(serving') <= Capacity
  /\ line' = Tail(line)
  /\ outcome' = Close(done, o)

\* A server closes its item and finds the line empty, or is shut down.
Finish(i, o) ==
  /\ i \in serving
  /\ serving' = serving \ {i}
  /\ outcome' = Close({i}, o)
  /\ UNCHANGED line

\* Shutdown, with no item executing: the line is cancelled.
Shutdown ==
  /\ serving = {}
  /\ line' = <<>>
  /\ outcome' = Close(InLine, "cancelled")
  /\ UNCHANGED serving

Closings == {"result", "failed", "cancelled"}

WNext ==
  \/ \E i \in Items : Enqueue(i)
  \/ \E k \in 1 .. Len(line) : Withdraw(k)
  \/ \E o \in Closings : \/ Serve({}, o)
                         \/ \E i \in serving : Serve({i}, o) \/ Finish(i, o)
  \/ Shutdown

WSpec == WInit /\ [][WNext]_wvars

==============================================================================
