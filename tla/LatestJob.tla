----------------------------- MODULE LatestJob ------------------------------
(***************************************************************************)
(* What the viewers' worker threads promise: jobs are asked for one after  *)
(* the other, the worker serves them in order, may pass over a job for     *)
(* which a newer one was asked, never stops short of the latest one while  *)
(* it is in use, and serves none once its owner has left.                  *)
(***************************************************************************)
EXTENDS Naturals

VARIABLES asked,    \* number of the last job asked for, 0 before the first
          done,     \* number of the last job served
          owner     \* "using" the worker, "joining" it to leave, or "gone"

jobVars == <<asked, done, owner>>

JobInit == asked = 0 /\ done = 0 /\ owner = "using"

Ask ==
    /\ owner = "using"
    /\ asked' = asked + 1
    /\ UNCHANGED <<done, owner>>

\* A job may still be served while the owner waits for the worker to leave.
Serve ==
    /\ owner # "gone"
    /\ \E j \in (done + 1)..asked : done' = j
    /\ UNCHANGED <<asked, owner>>

Leave ==
    /\ \/ owner = "using" /\ owner' = "joining"
       \/ owner = "joining" /\ owner' = "gone"
    /\ UNCHANGED <<asked, done>>

JobNext == Ask \/ Serve \/ Leave

JobSpec == JobInit /\ [][JobNext]_jobVars

\* The latest job is served unless a newer one or the owner's leave intervenes.
LatestServed == (owner = "using" /\ done # asked) ~> (done = asked \/ owner # "using")
=============================================================================
