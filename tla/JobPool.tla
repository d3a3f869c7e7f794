------------------------------ MODULE JobPool -------------------------------
(***************************************************************************)
(* What a pool of threads promises its user: a line of jobs, each taken by *)
(* one worker, the oldest first; after the pool is closed the workers      *)
(* leave, but not before the line is empty.                                *)
(***************************************************************************)
EXTENDS Sequences

CONSTANTS Workers, Jobs, Null

VARIABLES
  line,    \* the jobs that no worker has taken, oldest first
  doing,   \* the job of each worker, or Null
  closed,  \* will there be no more jobs?
  gone     \* the workers that have left

vars == <<line, doing, closed, gone>>

Init ==
  /\ line = <<>>
  /\ doing = [w \in Workers |-> Null]
  /\ closed = FALSE
  /\ gone = {}

Enqueue(j) ==
  /\ ~closed
  /\ line' = Append(line, j)
  /\ UNCHANGED <<doing, closed, gone>>

Close ==
  /\ closed' = TRUE
  /\ UNCHANGED <<line, doing, gone>>

Take(w) ==
  /\ w \notin gone
  /\ doing[w] = Null
  /\ line # <<>>
  /\ doing' = [doing EXCEPT ![w] = Head(line)]
  /\ line' = Tail(line)
  /\ UNCHANGED <<closed, gone>>

Finish(w) ==
  /\ doing[w] # Null
  /\ doing' = [doing EXCEPT ![w] = Null]
  /\ UNCHANGED <<line, closed, gone>>

Leave(w) ==
  /\ closed
  /\ line = <<>>
  /\ doing[w] = Null
  /\ gone' = gone \cup {w}
  /\ UNCHANGED <<line, doing, closed>>

Work(w) == Take(w) \/ Finish(w) \/ Leave(w)

Next ==
  \/ \E j \in Jobs : Enqueue(j)
  \/ Close
  \/ \E w \in Workers : Work(w)

Spec == Init /\ [][Next]_vars

(* Provided that jobs end, a job is taken as long as a worker is free, and *)
(* in a closed pool every worker leaves.                                   *)
FairSpec ==
  /\ Spec
  /\ WF_vars(\E w \in Workers : Take(w))
  /\ \A w \in Workers : WF_vars(Finish(w)) /\ WF_vars(Leave(w))
=============================================================================
