---------------------------- MODULE GCThreadLoop ----------------------------
(***************************************************************************)
(* GCWorker's GC thread: it sleeps on a condition variable until a user    *)
(* thread triggers a cycle or the destructor of GCWorker asks it to exit,  *)
(* and runs one cycle at a time through the stop-the-world lock of         *)
(* StwLock, which the user threads use meanwhile.                          *)
(*                                                                         *)
(* A definition name_change is a faulty variant of name that no            *)
(* specification here uses.                                                *)
(***************************************************************************)
EXTENDS StwLock

VARIABLES
    ready_, stop_,
    gcpc,       \* where the GC thread is in its loop
    triggering  \* who has set ready_ and not notified yet; Main destroys

CONSTANT Main   \* the thread that runs ~GCWorker
ASSUME MainAssumption == Main \notin Client

loopVars == <<ready_, stop_, gcpc, triggering>>
allVars == <<vars, loopVars>>

(* wakeUpGCThread and ~GCWorker: ready_, and stop_, are set with the mutex *)
(* held, and the notification follows without it.                          *)
wakeUpGCThread(t) ==
    /\ t \notin triggering /\ Outside(t) /\ ~stop_
    /\ ready_' = TRUE /\ triggering' = triggering \cup {t}
    /\ UNCHANGED <<vars, stop_, gcpc>>
destroyGCWorker_notReady ==
    /\ ~stop_ /\ stop_' = TRUE
    /\ triggering' = triggering \cup {Main}
    /\ UNCHANGED <<vars, ready_, gcpc>>
destroyGCWorker ==
    /\ ~stop_ /\ stop_' = TRUE
    /\ ready_' = TRUE /\ triggering' = triggering \cup {Main}
    /\ UNCHANGED <<vars, gcpc>>
notify_all(t) ==
    /\ t \in triggering /\ triggering' = triggering \ {t}
    /\ gcpc' = IF gcpc = "asleep" THEN "test" ELSE gcpc
    /\ UNCHANGED <<vars, ready_, stop_>>

(* condition.wait tests ready_ with the mutex held and otherwise sleeps,   *)
(* until it is notified or wakes for no reason.                            *)
Wait ==
    /\ gcpc = "test" /\ ready_' = FALSE
    /\ gcpc' = IF ready_ THEN "begin" ELSE "asleep"
    /\ UNCHANGED <<vars, stop_, triggering>>
WakeSpuriously ==
    /\ gcpc = "asleep" /\ gcpc' = "test"
    /\ UNCHANGED <<vars, ready_, stop_, triggering>>
Exit ==
    /\ gcpc = "begin" /\ stop_ /\ gcpc' = "exited"
    /\ UNCHANGED <<vars, ready_, stop_, triggering>>
Start ==
    /\ gcpc = "begin" /\ ~stop_ /\ startGC /\ gcpc' = "cycle"
    /\ UNCHANGED <<ready_, stop_, triggering>>
Cycle ==
    /\ gcpc = "cycle" /\ (Stop \/ MarkSome)
    /\ UNCHANGED loopVars
EndOfCycle_forgetsTrigger ==
    /\ gcpc = "cycle" /\ endGC /\ gcpc' = "test" /\ ready_' = FALSE
    /\ UNCHANGED <<stop_, triggering>>
EndOfCycle ==
    /\ gcpc = "cycle" /\ endGC /\ gcpc' = "test"
    /\ UNCHANGED <<ready_, stop_, triggering>>

(* A user thread begins nothing once the worker is being destroyed. *)
UserStep(t) ==
    /\ t \notin triggering
    /\ \/ ~stop_ /\ (EnterCriticalSection(t) \/ RAIISTWLock(t))
       \/ lockRead(t) \/ Leave(t)
    /\ UNCHANGED loopVars

LoopInit == Init /\ ready_ = FALSE /\ stop_ = FALSE /\ gcpc = "test" /\ triggering = {}
GCThread == Wait \/ Exit \/ Start \/ Cycle \/ EndOfCycle
LoopNext ==
    \/ GCThread \/ WakeSpuriously \/ destroyGCWorker
    \/ \E t \in Thread : wakeUpGCThread(t) \/ UserStep(t)
    \/ \E t \in Thread \cup {Main} : notify_all(t)
LoopSpec == LoopInit /\ [][LoopNext]_allVars

(* Every thread runs: the GC thread goes on, having marked finitely many   *)
(* GCPtrs in each phase; a trigger that has begun ends; a section ends,    *)
(* having nested finitely many others; and a thread that waits for a mutex *)
(* which is free for readers again and again is let in.                    *)
CycleOf(A) == A /\ gcpc = "cycle" /\ UNCHANGED loopVars
UserStepOf(t, A) == A /\ t \notin triggering /\ UNCHANGED loopVars
LeaveOutermost(t) == Len(owns[t]) = 1 /\ Leave(t)
FairLoopSpec ==
    /\ LoopSpec
    /\ WF_allVars(GCThread)
    /\ SF_allVars(CycleOf(stop_the_world)) /\ SF_allVars(CycleOf(selectRelocationSet))
    /\ \A t \in Thread \cup {Main} : WF_allVars(notify_all(t))
    /\ \A t \in Thread :
           /\ WF_allVars(UserStepOf(t, Leave(t)))
           /\ SF_allVars(UserStepOf(t, LeaveOutermost(t)))
           /\ SF_allVars(UserStepOf(t, lockRead(t)))

-----------------------------------------------------------------------------
(* The variables of the loop keep to their ranges. *)
LoopTypeOK ==
    /\ TypeOK /\ {ready_, stop_} \subseteq BOOLEAN
    /\ gcpc \in {"test", "asleep", "begin", "cycle", "exited"}
    /\ triggering \subseteq Thread \cup {Main}

(* A cycle starts after every trigger, be it set while the GC thread       *)
(* sleeps, wakes, or is in the middle of a cycle, unless the worker is     *)
(* destroyed.                                                              *)
TriggerServed == ready_ ~> gcpc = "begin" \/ stop_

(* ~GCWorker joins the GC thread: whatever that is doing, it exits, with   *)
(* its cycle complete and the world running.                               *)
DestructionEnds == stop_ ~> [](gcpc = "exited" /\ gcPhase = "NONE" /\ ~exclusive)

(* Stopping the world always succeeds, and a stop always ends: nested      *)
(* sections do not deadlock with a waiting writer, nor the GC thread with  *)
(* itself.                                                                 *)
StopSucceeds == waiting ~> exclusive
StopEnds == exclusive ~> ~exclusive
(* A thread about to enter a critical section always gets in. *)
Enters == \A t \in Thread : t \in entering ~> t \notin entering
=============================================================================
