---------------------------- MODULE RunLifecycle ----------------------------
(***************************************************************************)
(* src/main/organization/orchestrator.ts and store.ts: how the execution   *)
(* runs of one task begin and end.                                         *)
(*                                                                         *)
(* A run is one attempt at the task; runs are numbered in the order they   *)
(* begin and each has an engine session of its own in the task's worktree. *)
(* A run can be ended by the frames of its session, by the catch of        *)
(* runTask, by the stall loop and by cancelRun. Frames are handled without *)
(* waiting for one another, so several of these are at work on one session *)
(* at the same time and interleave wherever one awaits git, a test command,*)
(* nd-core or a save of the store. Each step below is what one of them does*)
(* between two such awaits.                                                *)
(*                                                                         *)
(* The project has a review step, autonomy level 4 and a git worktree for  *)
(* the task. Left out: plans, reviews, the fast path, text and metrics.    *)
(***************************************************************************)
EXTENDS Integers, FiniteSets

CONSTANTS
  MaxAttempts,  \* MAX_EXECUTION_ATTEMPTS
  MaxRuns,      \* bound of the model: runs of the task
  MaxBusy,      \* bound of the model: enders at work at the same time
  Enders,       \* what ends runs: a subset of AllEnders
  Dispatchers   \* who starts runs: "auto", "user", "loop" (the stall loop)

ASSUME RunAssumption ==
  /\ MaxAttempts \in Nat /\ MaxRuns \in Nat /\ MaxBusy \in Nat
  /\ Dispatchers \subseteq {"auto", "user", "loop"}

AllEnders == {"status", "error", "interrupt", "thrown", "stall", "cancel"}

Runs == 1 .. MaxRuns

VARIABLES
  task,       \* status of the task
  run,        \* status of each run
  evidence,   \* runs with a recorded verification
  checkpoint, \* checkpointCommit of each run, or NoHead
  canceled,   \* canceledSessions
  baseline,   \* executionBaselines: the head before the attempt, or NoHead
  head,       \* the run whose checkpoint the worktree stands at, 0 for none
  dirty,      \* the worktree has uncommitted changes
  engine,     \* state of each run's engine
  silent,     \* runs without a frame for the stall timeout (lastProgressAt)
  at,         \* where each ender of each run is
  dispatch,   \* where each dispatcher is, with its run and its baseline
  overtaken,  \* history: runs that failed before they had a verification
  refused     \* history: runs the user cancelled

store == <<task, run, evidence, checkpoint, overtaken>>
tree == <<head, dirty>>
sessions == <<canceled, baseline, refused>>
engines == <<engine, silent>>
vars == <<store, tree, sessions, engines, at, dispatch>>

NoHead == -1

Init ==
  /\ task = "ready"
  /\ run = [s \in Runs |-> "none"]
  /\ evidence = {} /\ canceled = {}
  /\ baseline = [s \in Runs |-> NoHead] /\ checkpoint = [s \in Runs |-> NoHead]
  /\ head = 0 /\ dirty = FALSE
  /\ engine = [s \in Runs |-> "none"] /\ silent = {}
  /\ at = [s \in Runs |-> [k \in Enders |-> "idle"]]
  /\ \E another \in BOOLEAN :
       dispatch = [d \in Dispatchers |->
         [at |-> IF d = "loop" /\ another THEN "asked" ELSE "idle", run |-> 0, base |-> 0]]
  /\ overtaken = {} /\ refused = {}

Running == {s \in Runs : run[s] = "running"}
Begun == {s \in Runs : run[s] # "none"}

Goto(s, k, place) == at' = [at EXCEPT ![s][k] = place]

Busy == {x \in Runs \X Enders : at[x[1]][x[2]] # "idle"}

RoomFor(n) == Cardinality(Busy) + n <= MaxBusy

(* completeRun: whatever the status was. *)
EndRun(s, status) ==
  /\ run' = [run EXCEPT ![s] = status]
  /\ overtaken' =
       IF status = "failed" /\ s \notin evidence THEN overtaken \cup {s} ELSE overtaken

-----------------------------------------------------------------------------
(* Dispatch: runTask, by the user, by the autopilot, or by the stall loop, *)
(* which asks for the next task of the project once it has queued one      *)
(* again, this or (Init) another one.                                      *)

(* The checks, the worktree and its baseline: a dirty one is refused. *)
Prepare(d) ==
  /\ dispatch[d].at = (IF d = "loop" THEN "asked" ELSE "idle")
  /\ task \in (IF d = "user" THEN {"ready", "blocked"} ELSE {"ready"})
  /\ Running = {} /\ ~dirty
  /\ Begun # Runs
  /\ dispatch' = [dispatch EXCEPT ![d] = [at |-> "prepared", run |-> 0, base |-> head]]
  /\ UNCHANGED <<store, tree, sessions, engines, at>>

(* beginRun, when the session is there: two dispatches may have passed the *)
(* check above together.                                                   *)
Begin(d) ==
  /\ dispatch[d].at = "prepared"
  /\ IF Running = {} /\ Begun # Runs
     THEN \E s \in Runs :
            /\ run[s] = "none" /\ \A t \in Runs : t < s => run[t] # "none"
            /\ run' = [run EXCEPT ![s] = "running"]
            /\ baseline' = [baseline EXCEPT ![s] = dispatch[d].base]
            /\ engine' = [engine EXCEPT ![s] = "starting"]
            /\ dispatch' = [dispatch EXCEPT ![d] =
                              [at |-> "begun", run |-> s, base |-> @.base]]
     ELSE /\ dispatch' = [dispatch EXCEPT ![d].at = "idle"]
          /\ UNCHANGED <<run, baseline, engine>>
  /\ UNCHANGED <<task, evidence, checkpoint, overtaken, tree, canceled, refused, silent, at>>

(* markExecution. *)
Mark(d) ==
  /\ dispatch[d].at = "begun"
  /\ task' = "in_progress"
  /\ dispatch' = [dispatch EXCEPT ![d].at = "marked"]
  /\ UNCHANGED <<run, evidence, checkpoint, overtaken, tree, sessions, engines, at>>

(* The engine takes the prompt, or refuses it. The call of an engine that  *)
(* runs a command line returns with the turn only: nobody waits for it but *)
(* the stall loop, which does nothing else meanwhile.                      *)
Prompt(d) ==
  /\ dispatch[d].at = "marked"
  /\ LET s == dispatch[d].run
     IN  \/ /\ engine' = [engine EXCEPT ![s] = "working"] /\ UNCHANGED at
            /\ \E place \in {"idle", "turn"} :
                 /\ place = "turn" => d = "loop"
                 /\ dispatch' = [dispatch EXCEPT ![d].at = place]
         \/ /\ "thrown" \in Enders /\ RoomFor(1)
            /\ engine' = [engine EXCEPT ![s] = "stopped"]
            /\ dispatch' = [dispatch EXCEPT ![d].at = IF d = "loop" THEN "turn" ELSE "idle"]
            /\ Goto(s, "thrown", "due")
  /\ UNCHANGED <<store, tree, sessions, silent>>

Start(d) == Prepare(d) \/ Begin(d) \/ Mark(d) \/ Prompt(d)

(* The call returns to the stall loop, which asks for the next task...     *)
Return ==
  /\ "loop" \in Dispatchers
  /\ LET s == dispatch["loop"].run
     IN  /\ dispatch["loop"].at = "turn" /\ engine[s] = "stopped"
         /\ "thrown" \in Enders => at[s]["thrown"] = "idle"
  /\ dispatch' = [dispatch EXCEPT !["loop"].at = "asked"]
  /\ UNCHANGED <<store, tree, sessions, engines, at>>

(* ... and finds none that it may start. *)
Rest ==
  /\ "loop" \in Dispatchers
  /\ dispatch["loop"].at = "asked"
  /\ dispatch' = [dispatch EXCEPT !["loop"].at = "idle"]
  /\ UNCHANGED <<store, tree, sessions, engines, at>>

-----------------------------------------------------------------------------
(* The engine, with the frames each kind of engine sends when a turn ends. *)
(* One that runs a command line sends two frames for a failed turn, asking *)
(* for its models in between, and its run call throws.                     *)

Edit(s) ==
  /\ engine[s] = "working" /\ ~dirty
  /\ dirty' = TRUE
  /\ UNCHANGED <<store, head, sessions, engines, at, dispatch>>

(* Any frame counts as progress; without one the stall timeout passes, be  *)
(* the engine hung or its last frame in the hands of an ender.             *)
Report(s) ==
  /\ engine[s] = "working" /\ s \in silent
  /\ silent' = silent \ {s}
  /\ UNCHANGED <<store, tree, sessions, engine, at, dispatch>>

FallSilent(s) ==
  /\ run[s] = "running" /\ s \notin silent
  /\ silent' = silent \cup {s}
  /\ UNCHANGED <<store, tree, sessions, engine, at, dispatch>>

LastFrames ==
  {{"status"}, {"status", "error", "thrown"}, {"error"}, {"interrupt"},
   {"interrupt", "status"}}

TurnEnds(s) ==
  /\ engine[s] = "working"
  /\ engine' = [engine EXCEPT ![s] = "stopped"]
  /\ silent' = silent \ {s}
  /\ \E frames \in LastFrames :
       /\ frames \subseteq Enders /\ RoomFor(Cardinality(frames))
       /\ at' = [at EXCEPT ![s] = [k \in Enders |-> IF k \in frames THEN "due" ELSE @[k]]]
  /\ UNCHANGED <<store, tree, sessions, dispatch>>

-----------------------------------------------------------------------------
(* Entering: what an ender finds before it does anything.                  *)

CancelPlaces == {"undo", "cancelRun", "cancelTask"}
FailPlaces == {"rollback", "fail", "failLast", "block", "blockLast", "retry", "requeue"}

(* cancellationFinalizations and interruptionFinalizations. *)
Canceling(s) == \E k \in Enders : at[s][k] \in CancelPlaces
Interrupting(s) ==
  "interrupt" \in Enders /\ at[s]["interrupt"] \in FailPlaces \cup CancelPlaces

Frames == {"status", "error", "interrupt"} \cap Enders

(* handleHarnessEvent. A frame joins the finalisation it finds. *)
Frame(s, k) ==
  /\ at[s][k] = "due" /\ k \in Frames
  /\ Goto(s, k,
       IF Canceling(s) \/ Interrupting(s) \/ run[s] # "running" THEN "idle"
       ELSE IF s \in canceled THEN "undo"
       ELSE IF k = "status" THEN "checkpoint" ELSE "rollback")
  /\ UNCHANGED <<store, tree, sessions, engines, dispatch>>

(* handleExecutionFailure called by runTask and the stall loop. *)
Fails(s, k) ==
  /\ at[s][k] = "due" /\ k \in {"thrown", "stall"}
  /\ Goto(s, k, IF run[s] = "running" THEN "rollback" ELSE "cleanup")
  /\ UNCHANGED <<store, tree, sessions, engines, dispatch>>

(* stallReconcileBusy: the loop ends one run at a time, and what it starts *)
(* itself is part of its work.                                             *)
LoopFree ==
  /\ \A s \in Runs : at[s]["stall"] = "idle"
  /\ "loop" \in Dispatchers => dispatch["loop"].at = "idle"

(* Mutant: the stall loop waits until the engine has stopped. *)
StallOnceStopped(s) ==
  /\ "stall" \in Enders /\ LoopFree /\ engine[s] = "stopped"
  /\ run[s] = "running" /\ s \in silent /\ RoomFor(1)
  /\ Goto(s, "stall", "due")
  /\ UNCHANGED <<store, tree, sessions, engines, dispatch>>

(* reconcileStalledRuns: the session is asked to stop, and what comes of it*)
(* does not matter.                                                        *)
Stall(s) ==
  /\ "stall" \in Enders /\ LoopFree
  /\ run[s] = "running" /\ s \in silent /\ RoomFor(1)
  /\ Goto(s, "stall", "due")
  /\ UNCHANGED <<store, tree, sessions, engines, dispatch>>

(* cancelRun up to the stop of the session. *)
Cancel(s) ==
  /\ "cancel" \in Enders
  /\ run[s] = "running" /\ at[s]["cancel"] = "idle" /\ RoomFor(1)
  /\ canceled' = canceled \cup {s}
  /\ refused' = refused \cup {s}
  /\ Goto(s, "cancel", IF Interrupting(s) THEN "idle" ELSE "stopping")
  /\ UNCHANGED <<store, tree, baseline, engines, dispatch>>

(* Mutant: every caller finalises the cancellation itself. *)
NotShared(s) == FALSE

(* handleCanceledRun finds a finalisation to share. *)
Shared(s) == Canceling(s) \/ Interrupting(s)

(* cancelRun after the stop, which may have failed. *)
Stopped(s) ==
  /\ "cancel" \in Enders
  /\ at[s]["cancel"] = "stopping"
  /\ \/ /\ canceled' = canceled \ {s} /\ refused' = refused \ {s}
        /\ Goto(s, "cancel", "idle")
     \/ /\ Goto(s, "cancel", IF run[s] # "running" \/ Shared(s) THEN "idle" ELSE "undo")
        /\ UNCHANGED <<canceled, refused>>
  /\ UNCHANGED <<store, tree, baseline, engines, dispatch>>

-----------------------------------------------------------------------------
(* The steps several enders share.                                         *)

(* completeRun with an error; from here to there. *)
FailRun(s, k, here, there) ==
  /\ at[s][k] = here
  /\ EndRun(s, "failed")
  /\ Goto(s, k, there)
  /\ UNCHANGED <<task, evidence, checkpoint, tree, sessions, engines, dispatch>>

(* failTask: blockTask, whatever the task's status is. *)
BlockTask(s, k, here, there) ==
  /\ at[s][k] = here
  /\ task' = "blocked"
  /\ Goto(s, k, there)
  /\ UNCHANGED <<run, evidence, checkpoint, overtaken, tree, sessions, engines, dispatch>>

(* cleanupSession. A handler that queued the task again then asks for the  *)
(* next one: Prepare("auto") for the frames' and runTask's, while the stall*)
(* loop waits for it.                                                      *)
Cleanup(s, k) ==
  /\ at[s][k] \in {"cleanup", "requeued"}
  /\ canceled' = canceled \ {s}
  /\ baseline' = [baseline EXCEPT ![s] = NoHead]
  /\ Goto(s, k, "idle")
  /\ IF k = "stall" /\ at[s][k] = "requeued" /\ "loop" \in Dispatchers
     THEN dispatch' = [dispatch EXCEPT !["loop"].at = "asked"]
     ELSE UNCHANGED dispatch
  /\ UNCHANGED <<store, tree, refused, engines>>

(* Mutant: git is given a baseline that is gone. *)
RestoredBlindly(s) == head' = baseline[s] /\ dirty' = FALSE

(* rollbackExecutionAttempt; it fails without a baseline, and when git does*)
(* or finds the tree changed again.                                        *)
Restored(s) == baseline[s] # NoHead /\ head' = baseline[s] /\ dirty' = FALSE

(* finalizeCanceledRun does not look at the outcome. *)
UndoCanceled(s, k) ==
  /\ at[s][k] = "undo"
  /\ Restored(s) \/ UNCHANGED tree
  /\ Goto(s, k, "cancelRun")
  /\ UNCHANGED <<store, sessions, engines, dispatch>>

FinishCanceled(s, k) ==
  \/ UndoCanceled(s, k)
  \/ FailRun(s, k, "cancelRun", "cancelTask")
  \/ BlockTask(s, k, "cancelTask", "cleanup")

-----------------------------------------------------------------------------
(* handleExecutionFailure.                                                 *)

(* Without a rollback there is no retry. *)
RollBack(s, k) ==
  /\ at[s][k] = "rollback"
  /\ \/ Restored(s) /\ Goto(s, k, "fail")
     \/ UNCHANGED tree /\ Goto(s, k, "failLast")
  /\ UNCHANGED <<store, sessions, engines, dispatch>>

(* consumeCanceledSession. *)
MayRetry(s) == s \notin canceled

(* The attempts are counted, the error is looked at, and a provider for the*)
(* next attempt is asked for.                                              *)
Retry(s, k) ==
  /\ at[s][k] = "retry"
  /\ \/ Cardinality(Begun) < MaxAttempts /\ Goto(s, k, "requeue")
     \/ Goto(s, k, "cleanup")
  /\ UNCHANGED <<store, tree, sessions, engines, dispatch>>

(* queueRework: only a blocked task. The error it throws otherwise passes  *)
(* cleanupSession by.                                                      *)
Requeue(s, k) ==
  /\ at[s][k] = "requeue"
  /\ IF task = "blocked" THEN task' = "ready" /\ Goto(s, k, "requeued")
     ELSE UNCHANGED task /\ Goto(s, k, "idle")
  /\ UNCHANGED <<run, evidence, checkpoint, overtaken, tree, sessions, engines, dispatch>>

Failure(s, k) ==
  \/ RollBack(s, k)
  \/ FailRun(s, k, "fail", IF MayRetry(s) THEN "block" ELSE "blockLast")
  \/ FailRun(s, k, "failLast", "blockLast")
  \/ BlockTask(s, k, "block", "retry")
  \/ BlockTask(s, k, "blockLast", "cleanup")
  \/ Retry(s, k)
  \/ Requeue(s, k)

-----------------------------------------------------------------------------
(* The session has stopped: handleHarnessEvent, session-status.            *)

StatusGoto(s, place) == Goto(s, "status", place)
StatusAt(s, place) == "status" \in Enders /\ at[s]["status"] = place

Checkpoint(s) ==
  /\ StatusAt(s, "checkpoint")
  /\ \/ /\ head' = (IF dirty THEN s ELSE head) /\ dirty' = FALSE
        /\ checkpoint' = [checkpoint EXCEPT ![s] = head']
        /\ StatusGoto(s, "verify")
     \/ UNCHANGED <<tree, checkpoint>> /\ StatusGoto(s, "catch")
  /\ UNCHANGED <<task, run, evidence, overtaken, sessions, engines, dispatch>>

(* The test command or the artifacts; a check that cannot run passes on. *)
Verify(s) ==
  /\ StatusAt(s, "verify")
  /\ StatusGoto(s, "recordPass") \/ StatusGoto(s, "recordFail") \/ StatusGoto(s, "catch")
  /\ UNCHANGED <<store, tree, sessions, engines, dispatch>>

(* Mutant: the verdict on a run that is over is recorded like any other. *)
RecordAlways(s) == TRUE

(* recordRunVerification throws otherwise. *)
Recordable(s) == run[s] = "running"

Record(s) ==
  /\ StatusAt(s, "recordPass") \/ StatusAt(s, "recordFail")
  /\ IF Recordable(s)
     THEN /\ evidence' = evidence \cup {s}
          /\ StatusGoto(s, IF StatusAt(s, "recordPass") THEN "complete" ELSE "reject")
     ELSE UNCHANGED evidence /\ StatusGoto(s, "catch")
  /\ UNCHANGED <<task, run, checkpoint, overtaken, tree, sessions, engines, dispatch>>

Complete(s) ==
  /\ StatusAt(s, "complete")
  /\ EndRun(s, "completed")
  /\ StatusGoto(s, "submit")
  /\ UNCHANGED <<task, evidence, checkpoint, tree, sessions, engines, dispatch>>

(* markForReview. *)
Submit(s) ==
  /\ StatusAt(s, "submit")
  /\ task' = "review"
  /\ StatusGoto(s, "cleanup")
  /\ UNCHANGED <<run, evidence, checkpoint, overtaken, tree, sessions, engines, dispatch>>

(* queueVerificationRework; its error goes to the catch. *)
QueueRework(s) ==
  /\ StatusAt(s, "rework")
  /\ IF Cardinality(Begun) >= MaxAttempts THEN UNCHANGED task /\ StatusGoto(s, "cleanup")
     ELSE IF task = "blocked" THEN task' = "ready" /\ StatusGoto(s, "cleanup")
     ELSE UNCHANGED task /\ StatusGoto(s, "catch")
  /\ UNCHANGED <<run, evidence, checkpoint, overtaken, tree, sessions, engines, dispatch>>

Finish(s) ==
  \/ Checkpoint(s) \/ Verify(s) \/ Record(s)
  \/ Complete(s) \/ Submit(s)
  \/ FailRun(s, "status", "reject", "rejectTask")
  \/ BlockTask(s, "status", "rejectTask", "rework")
  \/ QueueRework(s)
  \/ FailRun(s, "status", "catch", "catchTask")
  \/ BlockTask(s, "status", "catchTask", "cleanup")

-----------------------------------------------------------------------------

(* What an ender does once it has begun. *)
Handle(s, k) ==
  \/ Frame(s, k) \/ Fails(s, k) \/ Failure(s, k) \/ FinishCanceled(s, k)
  \/ Cleanup(s, k)
  \/ k = "status" /\ Finish(s)
  \/ k = "cancel" /\ Stopped(s)

Next ==
  \/ \E d \in Dispatchers : Start(d)
  \/ Return \/ Rest
  \/ \E s \in Runs : \/ Edit(s) \/ Report(s) \/ FallSilent(s)
                      \/ TurnEnds(s) \/ Stall(s) \/ Cancel(s)
  \/ \E s \in Runs, k \in Enders : Handle(s, k)

Spec == Init /\ [][Next]_vars

(* What has begun goes on: git, the test command, the store and nd-core    *)
(* answer, and the stop of a session does within a time limit, if only with*)
(* an error. The timer of the stall loop fires, and what the loop starts   *)
(* itself comes to its prompt. Turns need not end, engines may report for  *)
(* ever or fall silent, a call that waits for a turn need not return, and  *)
(* nobody need start or cancel a run.                                      *)
Fairness ==
  /\ \A s \in Runs, k \in Enders : WF_vars(Handle(s, k))
  /\ \A s \in Runs : WF_vars(Stall(s))
  /\ \A d \in Dispatchers \cap {"loop"} : WF_vars(Start(d) \/ Return \/ Rest)

FairSpec == Spec /\ Fairness

-----------------------------------------------------------------------------

Places ==
  FailPlaces \cup CancelPlaces \cup
  {"idle", "due", "cleanup", "requeued", "stopping", "checkpoint", "verify", "recordPass",
   "recordFail", "complete", "submit", "reject", "rejectTask", "rework", "catch",
   "catchTask"}

(* Type invariant. *)
TypeOK ==
  /\ task \in {"ready", "in_progress", "blocked", "review"}
  /\ run \in [Runs -> {"none", "running", "failed", "completed"}]
  /\ evidence \subseteq Runs /\ canceled \subseteq Runs
  /\ baseline \in [Runs -> {NoHead} \cup 0 .. MaxRuns]
  /\ checkpoint \in [Runs -> {NoHead} \cup 0 .. MaxRuns]
  /\ head \in 0 .. MaxRuns /\ dirty \in BOOLEAN
  /\ engine \in [Runs -> {"none", "starting", "working", "stopped"}]
  /\ silent \subseteq Runs
  /\ at \in [Runs -> [Enders -> Places]]
  /\ dispatch \in [Dispatchers ->
       [at : {"idle", "asked", "prepared", "begun", "marked", "turn"},
        run : 0 .. MaxRuns, base : 0 .. MaxRuns]]
  /\ overtaken \subseteq Runs /\ refused \subseteq Runs

(* "Share one finalization so they cannot race Git rollback or release     *)
(* twice": the answer to cancel, the frames that follow the stop and the   *)
(* interruption of the turn never finalise a cancelled run side by side.   *)
OneCancellation ==
  \A s \in Runs : Cardinality({k \in Enders : at[s][k] \in CancelPlaces}) <= 1

(* A verification that comes in after another ender failed the run does not*)
(* complete it: a run that failed before its verdict stays failed.         *)
LateVerdict == \A s \in overtaken : run[s] # "completed"

LoopHeld == "loop" \in Dispatchers /\ dispatch["loop"].at = "turn"

(* A hung engine, one that ignores its stop, frames that never come or come*)
(* together, enders that lose the run to one another: a run goes on for    *)
(* ever only if its engine reports again and again, or if the stall loop   *)
(* waits for ever for the turn of a run that it started itself.            *)
EveryRunEnds ==
  \A s \in Runs :
    <>[](run[s] = "running") => []<>(s \notin silent) \/ <>[]LoopHeld

(* "Cancellation by user: never auto-retry": no ender of a run the user    *)
(* cancelled puts the task back into the queue.                            *)
CanceledNotRetried ==
  [][\A s \in Runs, k \in Enders :
       s \in refused /\ at[s][k] \in {"requeue", "rework"} /\ at'[s][k] # at[s][k]
         => ~(task = "blocked" /\ task' = "ready")]_vars
=============================================================================
