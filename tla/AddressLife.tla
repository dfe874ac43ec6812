------------------------------ MODULE AddressLife ------------------------------
(***************************************************************************)
(* What the Manager promises.  An address that trackers hand out is        *)
(* announced to at most once: it fails, or its peer runs and finishes, and *)
(* neither is ever undone.  The two counters follow these steps and no     *)
(* others.  Download waits until no peer runs, then for the context, then  *)
(* closes the channel; Stop comes last, and after it no address enters.    *)
(***************************************************************************)
EXTENDS Integers

CONSTANT Addrs   \* the addresses trackers may hand out

VARIABLES
  stage,     \* stage[a]: new, announced, failed, running, finished, shut
  running,   \* the counter of the WaitGroup
  shown,     \* the number of peers that is shown
  phase,     \* waiting, waited, closed, stopped
  stopping   \* the context is cancelled

vars == << stage, running, shown, phase, stopping >>

Init ==
  /\ stage = [a \in Addrs |-> "new"]
  /\ running = 0 /\ shown = 0
  /\ phase = "waiting" /\ stopping = FALSE

Goes(a, from, to) == stage[a] = from /\ stage' = [stage EXCEPT ![a] = to]

Announce(a) ==
  /\ phase # "stopped"
  /\ Goes(a, "new", "announced")
  /\ shown' = shown + 1
  /\ UNCHANGED << running, phase, stopping >>

\* An address that fails is never tried again.
Fail(a) ==
  /\ Goes(a, "announced", IF phase = "stopped" THEN "shut" ELSE "failed")
  /\ shown' = shown - 1
  /\ UNCHANGED << running, phase, stopping >>

Start(a) ==
  /\ Goes(a, "announced", "running")
  /\ running' = running + 1
  /\ UNCHANGED << shown, phase, stopping >>

Finish(a) ==
  /\ Goes(a, "running", "finished")
  /\ running' = running - 1
  /\ UNCHANGED << shown, phase, stopping >>

Enters(from, to) == phase = from /\ phase' = to

\* Nobody runs at the moment Download has waited for the peers.
NobodyRuns == \A a \in Addrs : stage[a] # "running"

Waited ==
  /\ Enters("waiting", "waited")
  /\ NobodyRuns
  /\ UNCHANGED << stage, running, shown, stopping >>

Close ==
  /\ Enters("waited", "closed")
  /\ stopping
  /\ UNCHANGED << stage, running, shown, stopping >>

\* After it an address that is not announced to and never ran is shut.
Stop ==
  /\ Enters("closed", "stopped")
  /\ stopping' = TRUE
  /\ stage' = [a \in Addrs |-> IF stage[a] \in {"new", "failed"} THEN "shut" ELSE stage[a]]
  /\ UNCHANGED << running, shown >>

Cancel ==
  /\ stopping' = TRUE
  /\ UNCHANGED << stage, running, shown, phase >>

Next ==
  \/ \E a \in Addrs : Announce(a) \/ Fail(a) \/ Start(a) \/ Finish(a)
  \/ Waited \/ Close \/ Stop \/ Cancel

Spec == Init /\ [][Next]_vars
=============================================================================
