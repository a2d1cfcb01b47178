--------------------------- MODULE RestartThread ----------------------------
(***************************************************************************)
(* The worker-thread protocol of the viewers: FetchSliceThread, CannyThread *)
(* and SliceProjectionThread, PPMProjectionThread differ in the work only. *)
(*                                                                         *)
(* The GUI thread owns the object: it asks for jobs (fetchSlice, runCanny, *)
(* runProjection) and destroys it. The worker runs run(). Each critical    *)
(* section of mutex_ is one step. abort_ and restart_ are also read by the *)
(* worker outside mutex_ (steps Top and Check): the reads race with the    *)
(* GUI thread's writes, and a load of a bool gives the value before or     *)
(* after the write, which is what the interleaving of these steps gives.   *)
(***************************************************************************)
EXTENDS Naturals

CONSTANT MaxJobs    \* bound: jobs asked for

ASSUME MaxJobsAssumption == MaxJobs \in Nat

VARIABLES wpc,      \* where the worker is in run()
          gui,      \* "using" the object, "joining" in the destructor, "gone"
          job,      \* mat_, settings_, sliceIdx_: the job last asked for
          cur,      \* run()'s copy of the job
          restart,  \* restart_
          abort,    \* abort_
          served,   \* the job of the last emitted signal
          missed    \* auxiliary: the destructor's wakeOne found the worker past
                    \* its test of abort_ and not yet waiting

threadVars == <<wpc, gui, job, cur, restart, abort, served, missed>>

Places == {"off", "top", "read", "check", "work", "end", "asleep", "woken", "returned"}

InitWith(none) ==
    /\ wpc = "off"
    /\ gui = "using"
    /\ job = none
    /\ cur = none
    /\ restart = FALSE
    /\ abort = FALSE
    /\ served = none
    /\ missed = FALSE

ThreadInit == InitWith(0)

Goto(l) == wpc' = l

\* QWaitCondition::wakeOne: wakes the worker if it waits and is lost otherwise.
WakeOne == wpc' = IF wpc = "asleep" THEN "woken" ELSE wpc

\* QThread::isRunning
IsRunning == wpc \notin {"off", "returned"}

-----------------------------------------------------------------------------
(***************************************************************************)
(* The GUI thread.                                                         *)
(***************************************************************************)
\* Mutant of Request: the flag is set and the worker is left asleep.
RequestWakesNobody(j) ==
    /\ gui = "using"
    /\ job' = j
    /\ IF IsRunning THEN restart' = TRUE /\ UNCHANGED wpc
                    ELSE Goto("top") /\ UNCHANGED restart
    /\ UNCHANGED <<gui, cur, abort, served, missed>>

\* fetchSlice, runCanny, runProjection: the job replaces the pending one.
Request(j) ==
    /\ gui = "using"
    /\ job' = j
    /\ \/ /\ ~IsRunning
          /\ Goto("top")
          /\ UNCHANGED restart
       \/ /\ IsRunning
          /\ restart' = TRUE
          /\ WakeOne
    /\ UNCHANGED <<gui, cur, abort, served, missed>>

\* The worker will wait although abort_ is set.
WillWait == wpc \in {"read", "check", "work", "end"} /\ ~restart

\* Mutant of Destroy: no wakeOne.
DestroySilently ==
    /\ gui = "using"
    /\ gui' = "joining"
    /\ abort' = TRUE
    /\ missed' = WillWait
    /\ UNCHANGED <<wpc, job, cur, restart, served>>

\* The destructor up to wait().
Destroy ==
    /\ gui = "using"
    /\ gui' = "joining"
    /\ abort' = TRUE
    /\ WakeOne
    /\ missed' = WillWait
    /\ UNCHANGED <<job, cur, restart, served>>

\* Mutant of Join: the wait() is dropped.
JoinAtOnce ==
    /\ gui = "joining"
    /\ gui' = "gone"
    /\ UNCHANGED <<wpc, job, cur, restart, abort, served, missed>>

\* wait() returns once run() has, or at once when it was never started.
Join ==
    /\ gui = "joining"
    /\ ~IsRunning
    /\ gui' = "gone"
    /\ UNCHANGED <<wpc, job, cur, restart, abort, served, missed>>

-----------------------------------------------------------------------------
(***************************************************************************)
(* run().                                                                  *)
(***************************************************************************)
Top ==
    /\ wpc = "top"
    /\ Goto(IF abort THEN "returned" ELSE "read")
    /\ UNCHANGED <<gui, job, cur, restart, abort, served, missed>>

Read ==
    /\ wpc = "read"
    /\ cur' = job
    /\ Goto("check")
    /\ UNCHANGED <<gui, job, restart, abort, served, missed>>

\* restart_ before the work: a job already replaced is not worked on.
Check ==
    /\ wpc = "check"
    /\ Goto(IF restart THEN "end" ELSE "work")
    /\ UNCHANGED <<gui, job, cur, restart, abort, served, missed>>

\* The work, up to the emitted signal.
Emit ==
    /\ wpc = "work"
    /\ served' = cur
    /\ Goto("end")
    /\ UNCHANGED <<gui, job, cur, restart, abort, missed>>

\* The second critical section: a pending job is begun, otherwise wait() gives up
\* the mutex and sleeps.
EndTurn ==
    /\ wpc = "end"
    /\ Goto(IF restart THEN "top" ELSE "asleep")
    /\ restart' = FALSE
    /\ UNCHANGED <<gui, job, cur, abort, served, missed>>

\* wait() returns with the mutex held and the worker begins the next turn.
Wake ==
    /\ wpc = "woken"
    /\ restart' = FALSE
    /\ Goto("top")
    /\ UNCHANGED <<gui, job, cur, abort, served, missed>>

Turn == Top \/ Read \/ Check \/ EndTurn \/ Wake

Run == Turn \/ Emit

\* The object is gone, or a missed destructor waits for a worker that sleeps, or
\* the bound on jobs is reached.
Rest ==
    /\ \/ gui = "gone"
       \/ gui = "joining" /\ wpc = "asleep"
    /\ UNCHANGED threadVars

\* Jobs are numbered in the order they are asked for.
ThreadNext ==
    \/ job < MaxJobs /\ Request(job + 1)
    \/ Destroy
    \/ Join
    \/ Run
    \/ Rest

ThreadSpec == ThreadInit /\ [][ThreadNext]_threadVars

\* The scheduler runs the worker, and the destructor once wait() may return. The
\* owner need neither ask for jobs nor destroy the object.
FairSpec == ThreadSpec /\ WF_threadVars(Run) /\ WF_threadVars(Join)

-----------------------------------------------------------------------------
(***************************************************************************)
(* Properties.                                                             *)
(***************************************************************************)
\* Type invariant; a job is copied after it is asked for and served after that.
TypeOK ==
    /\ wpc \in Places
    /\ gui \in {"using", "joining", "gone"}
    /\ job \in 0..MaxJobs
    /\ cur \in 0..job
    /\ restart \in BOOLEAN
    /\ abort \in BOOLEAN
    /\ abort <=> gui # "using"
    /\ served \in 0..cur
    /\ missed \in BOOLEAN

\* A worker never sleeps on a job: when it waits, nothing is pending and the last
\* signal it emitted is for the last job asked for, wherever in its turn the
\* requests came.
AsleepMeansServed == wpc = "asleep" => ~restart /\ served = job

\* No signal is repeated: every one emitted is for a newer job than the one before,
\* although the worker copies the job anew in each turn, requested or not.
ServesNewer == [][wpc = "work" /\ wpc' = "end" => served' > served]_threadVars

\* The thread implements the job server of module LatestJob: no job is served after
\* a newer one, and none after the object is gone.
Server == INSTANCE LatestJob WITH asked <- job, done <- served, owner <- gui
ImplementsLatestJob == Server!JobSpec

\* The last job asked for is served, unless the object is destroyed first.
LatestJobServed == Server!LatestServed

\* The destructor returns, or it ran between the worker's test of abort_ and its
\* wait while no newer job was pending: then its wakeOne was lost, and the worker
\* sleeps with nobody left to wake it.
DestructorReturns == gui = "joining" ~> (gui = "gone" \/ (missed /\ wpc = "asleep"))
=============================================================================
