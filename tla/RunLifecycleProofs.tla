------------------------- MODULE RunLifecycleProofs -------------------------
(***************************************************************************)
(* Proofs about RunLifecycle for any number of runs and dispatchers, any   *)
(* number of enders at work at the same time, and any choice of Enders.    *)
(***************************************************************************)
EXTENDS RunLifecycle, FiniteSetTheorems, TLAPS

-----------------------------------------------------------------------------
(* Types.                                                                  *)

AtType == [Runs -> [Enders -> Places]]
DispatchType ==
  [at : {"idle", "asked", "prepared", "begun", "marked", "turn"},
   run : 0 .. MaxRuns, base : 0 .. MaxRuns]

(* A step of a run's engine or of its clock, a stall or a cancel. *)
RunStep(s) ==
  Edit(s) \/ Report(s) \/ FallSilent(s) \/ TurnEnds(s) \/ Stall(s) \/ Cancel(s)

(* A step of a dispatcher or of a run. *)
Arrival ==
  \/ \E d \in Dispatchers : Start(d)
  \/ Return \/ Rest
  \/ \E s \in Runs : RunStep(s)

(* A Goto to a place keeps the type of at. *)
LEMMA GotoType ==
  ASSUME TypeOK, NEW s \in Runs, NEW k \in Enders, NEW p \in Places, Goto(s, k, p)
  PROVE  at' \in AtType
BY DEF TypeOK, Goto, AtType

(* A run number, and the runs of the model. *)
LEMMA RunNumbers == NoHead \notin 0 .. MaxRuns /\ Runs \subseteq 0 .. MaxRuns
BY RunAssumption DEF NoHead, Runs

LEMMA DispatchTypeOK ==
  ASSUME TypeOK, NEW d \in Dispatchers, Start(d)
  PROVE  TypeOK'
<1>1. CASE Prepare(d)
  BY <1>1, RunNumbers, RunAssumption DEF Prepare, TypeOK, store, tree, sessions, engines
<1>2. CASE Begin(d)
  <2>1. CASE UNCHANGED <<run, baseline, engine>> /\ dispatch' = [dispatch EXCEPT ![d].at = "idle"]
    BY <1>2, <2>1 DEF Begin, TypeOK, tree
  <2>2. ASSUME NEW s \in Runs,
               run' = [run EXCEPT ![s] = "running"],
               baseline' = [baseline EXCEPT ![s] = dispatch[d].base],
               engine' = [engine EXCEPT ![s] = "starting"],
               dispatch' = [dispatch EXCEPT ![d] =
                              [at |-> "begun", run |-> s, base |-> @.base]]
        PROVE  TypeOK'
    <3>1. dispatch[d].base \in 0 .. MaxRuns
      BY DEF TypeOK
    <3>2. dispatch \in [Dispatchers -> DispatchType] /\ s \in 0 .. MaxRuns
      BY RunNumbers DEF TypeOK, DispatchType
    <3>3. dispatch' \in [Dispatchers -> DispatchType]
      BY <2>2, <3>1, <3>2 DEF DispatchType
    <3> QED
      BY <1>2, <2>2, <3>1, <3>3 DEF Begin, TypeOK, DispatchType, tree
  <2> QED
    BY <1>2, <2>1, <2>2 DEF Begin
<1>3. CASE Mark(d)
  BY <1>3 DEF Mark, TypeOK, tree, sessions, engines
<1>4. CASE Prompt(d)
  <2>1. "due" \in Places
    BY DEF Places
  <2>2. at' \in AtType
    <3> DEFINE s == dispatch[d].run
    <3>1. at' = at \/ (at' = [at EXCEPT ![s]["thrown"] = "due"] /\ "thrown" \in Enders)
      BY <1>4 DEF Prompt, Goto
    <3> HIDE DEF s
    <3>2. CASE s \in Runs /\ at' = [at EXCEPT ![s]["thrown"] = "due"] /\ "thrown" \in Enders
      BY <2>1, <3>2, GotoType DEF Goto
    <3>3. CASE s \notin Runs \/ at' = at
      BY <3>1, <3>3 DEF TypeOK, AtType
    <3> QED
      BY <3>1, <3>2, <3>3
  <2>3. engine' \in [Runs -> {"none", "starting", "working", "stopped"}]
    BY <1>4 DEF Prompt, TypeOK
  <2> QED
    BY <1>4, <2>2, <2>3 DEF Prompt, TypeOK, AtType, store, tree, sessions
<1> QED
  BY <1>1, <1>2, <1>3, <1>4 DEF Start

LEMMA LoopTypeOK ==
  ASSUME TypeOK, Return \/ Rest
  PROVE  TypeOK'
<1>1. dispatch' \in [Dispatchers -> DispatchType]
  <2>1. dispatch \in [Dispatchers -> DispatchType] /\ "loop" \in Dispatchers
    BY DEF Return, Rest, TypeOK, DispatchType
  <2>2. PICK place \in {"asked", "idle"} : dispatch' = [dispatch EXCEPT !["loop"].at = place]
    BY DEF Return, Rest
  <2>3. [dispatch["loop"] EXCEPT !.at = place] \in DispatchType
    BY <2>1 DEF DispatchType
  <2>4. dispatch' = [dispatch EXCEPT !["loop"] = [dispatch["loop"] EXCEPT !.at = place]]
    BY <2>2
  <2> QED
    BY <2>1, <2>3, <2>4
<1> QED
  BY <1>1 DEF Return, Rest, TypeOK, DispatchType, store, tree, sessions, engines

LEMMA RunTypeOK ==
  ASSUME TypeOK, NEW s \in Runs, RunStep(s)
  PROVE  TypeOK'
<1>0. "due" \in Places /\ "idle" \in Places /\ "stopping" \in Places
  BY DEF Places
<1>1. CASE Edit(s)
  BY <1>1 DEF Edit, TypeOK, store, sessions, engines
<1>2. CASE TurnEnds(s)
  <2>1. at' \in AtType
    BY <1>2, <1>0 DEF TurnEnds, TypeOK, AtType
  <2> QED
    BY <1>2, <2>1 DEF TurnEnds, TypeOK, AtType, store, tree, sessions
<1>3. CASE Stall(s)
  <2>1. at' \in AtType
    BY <1>3, <1>0, GotoType DEF Stall
  <2> QED
    BY <1>3, <2>1 DEF Stall, TypeOK, AtType, store, tree, sessions, engines
<1>4. CASE Cancel(s)
  <2>1. at' \in AtType
    BY <1>4, <1>0, GotoType DEF Cancel
  <2> QED
    BY <1>4, <2>1 DEF Cancel, TypeOK, AtType, store, tree, engines
<1>5. CASE Report(s) \/ FallSilent(s)
  BY <1>5 DEF Report, FallSilent, TypeOK, store, tree, sessions
<1> QED
  BY <1>1, <1>2, <1>3, <1>4, <1>5 DEF RunStep

(* The steps several enders share. *)
LEMMA SharedTypeOK ==
  ASSUME TypeOK, NEW s \in Runs, NEW k \in Enders, NEW here, NEW there \in Places,
         \/ FailRun(s, k, here, there) \/ BlockTask(s, k, here, there)
  PROVE  TypeOK'
<1>1. at' \in AtType
  BY GotoType DEF FailRun, BlockTask
<1>2. CASE FailRun(s, k, here, there)
  BY <1>1, <1>2 DEF FailRun, EndRun, TypeOK, AtType, tree, sessions, engines
<1>3. CASE BlockTask(s, k, here, there)
  BY <1>1, <1>3 DEF BlockTask, TypeOK, AtType, tree, sessions, engines
<1> QED
  BY <1>2, <1>3

LEMMA HandleTypeOK ==
  ASSUME TypeOK, NEW s \in Runs, NEW k \in Enders, Handle(s, k)
  PROVE  TypeOK'
<1>0. /\ {"idle", "undo", "checkpoint", "rollback", "cleanup", "requeued", "cancelRun", "cancelTask"}
           \subseteq Places
      /\ {"fail", "failLast", "block", "blockLast", "retry", "requeue"} \subseteq Places
      /\ {"verify", "recordPass", "recordFail", "complete", "submit"} \subseteq Places
      /\ {"reject", "rejectTask", "rework", "catch", "catchTask"} \subseteq Places
  BY DEF Places, FailPlaces, CancelPlaces
<1>1. CASE Frame(s, k)
  <2>1. at' \in AtType
    BY <1>0, <1>1, GotoType DEF Frame
  <2> QED
    BY <1>1, <2>1 DEF Frame, TypeOK, AtType, store, tree, sessions, engines
<1>2. CASE Fails(s, k)
  <2>1. at' \in AtType
    BY <1>0, <1>2, GotoType DEF Fails
  <2> QED
    BY <1>2, <2>1 DEF Fails, TypeOK, AtType, store, tree, sessions, engines
<1>3. ASSUME Restored(s) PROVE head' \in 0 .. MaxRuns /\ dirty' \in BOOLEAN
  BY <1>3 DEF Restored, TypeOK
<1>4. CASE Failure(s, k)
  <2>1. CASE RollBack(s, k)
    <3>1. at' \in AtType
      BY <1>0, <2>1, GotoType DEF RollBack
    <3>2. head' \in 0 .. MaxRuns /\ dirty' \in BOOLEAN
      BY <1>3, <2>1 DEF RollBack, TypeOK, tree
    <3> QED
      BY <2>1, <3>1, <3>2 DEF RollBack, TypeOK, AtType, store, sessions, engines
  <2>2. CASE Retry(s, k)
    <3>1. at' \in AtType
      BY <1>0, <2>2, GotoType DEF Retry
    <3> QED
      BY <2>2, <3>1 DEF Retry, TypeOK, AtType, store, tree, sessions, engines
  <2>3. CASE Requeue(s, k)
    <3>1. at' \in AtType
      BY <1>0, <2>3, GotoType DEF Requeue
    <3> QED
      BY <2>3, <3>1 DEF Requeue, TypeOK, AtType, tree, sessions, engines
  <2> QED
    BY <1>0, <1>4, <2>1, <2>2, <2>3, SharedTypeOK DEF Failure
<1>5. CASE FinishCanceled(s, k)
  <2>1. CASE UndoCanceled(s, k)
    <3>1. at' \in AtType
      BY <1>0, <2>1, GotoType DEF UndoCanceled
    <3>2. head' \in 0 .. MaxRuns /\ dirty' \in BOOLEAN
      BY <1>3, <2>1 DEF UndoCanceled, TypeOK, tree
    <3> QED
      BY <2>1, <3>1, <3>2 DEF UndoCanceled, TypeOK, AtType, store, sessions, engines
  <2> QED
    BY <1>0, <1>5, <2>1, SharedTypeOK DEF FinishCanceled
<1>6. CASE Cleanup(s, k)
  <2>1. at' \in AtType
    BY <1>0, <1>6, GotoType DEF Cleanup
  <2> QED
    BY <1>6, <2>1 DEF Cleanup, TypeOK, AtType, store, tree, engines
<1>7. CASE k = "status" /\ Finish(s)
  <2>1. CASE Checkpoint(s)
    <3>1. at' \in AtType
      BY <1>0, <1>7, <2>1, GotoType DEF Checkpoint, StatusGoto
    <3>2. head' \in 0 .. MaxRuns /\ dirty' \in BOOLEAN
      BY <2>1, RunNumbers DEF Checkpoint, TypeOK, tree
    <3>3. checkpoint' \in [Runs -> {NoHead} \cup 0 .. MaxRuns]
      BY <2>1, <3>2 DEF Checkpoint, TypeOK
    <3> QED
      BY <2>1, <3>1, <3>2, <3>3 DEF Checkpoint, TypeOK, AtType, sessions, engines
  <2>2. CASE Verify(s)
    <3>1. at' \in AtType
      BY <1>0, <1>7, <2>2, GotoType DEF Verify, StatusGoto
    <3> QED
      BY <2>2, <3>1 DEF Verify, TypeOK, AtType, store, tree, sessions, engines
  <2>3. CASE Record(s)
    <3>1. at' \in AtType
      BY <1>0, <1>7, <2>3, GotoType DEF Record, StatusGoto
    <3> QED
      BY <2>3, <3>1 DEF Record, TypeOK, AtType, tree, sessions, engines
  <2>4. CASE Complete(s)
    <3>1. at' \in AtType
      BY <1>0, <1>7, <2>4, GotoType DEF Complete, StatusGoto
    <3> QED
      BY <2>4, <3>1 DEF Complete, EndRun, TypeOK, AtType, tree, sessions, engines
  <2>5. CASE Submit(s)
    <3>1. at' \in AtType
      BY <1>0, <1>7, <2>5, GotoType DEF Submit, StatusGoto
    <3> QED
      BY <2>5, <3>1 DEF Submit, TypeOK, AtType, tree, sessions, engines
  <2>6. CASE QueueRework(s)
    <3>1. at' \in AtType
      BY <1>0, <1>7, <2>6, GotoType DEF QueueRework, StatusGoto
    <3> QED
      BY <2>6, <3>1 DEF QueueRework, TypeOK, AtType, tree, sessions, engines
  <2> QED
    BY <1>0, <1>7, <2>1, <2>2, <2>3, <2>4, <2>5, <2>6, SharedTypeOK DEF Finish
<1>8. CASE k = "cancel" /\ Stopped(s)
  <2>1. at' \in AtType
    BY <1>0, <1>8, GotoType DEF Stopped
  <2> QED
    BY <1>8, <2>1 DEF Stopped, TypeOK, AtType, store, tree, engines
<1> QED
  BY <1>1, <1>2, <1>4, <1>5, <1>6, <1>7, <1>8 DEF Handle

LEMMA TypeInit == Init => TypeOK
<1> SUFFICES ASSUME Init PROVE TypeOK
  OBVIOUS
<1>1. "idle" \in Places /\ 0 \in 0 .. MaxRuns
  BY RunAssumption DEF Places
<1>2. at \in AtType
  BY <1>1 DEF Init, AtType
<1>3. dispatch \in [Dispatchers ->
       [at : {"idle", "asked", "prepared", "begun", "marked", "turn"},
        run : 0 .. MaxRuns, base : 0 .. MaxRuns]]
  BY <1>1 DEF Init
<1>4. /\ task = "ready" /\ run = [s \in Runs |-> "none"]
      /\ evidence = {} /\ canceled = {} /\ silent = {} /\ overtaken = {} /\ refused = {}
      /\ baseline = [s \in Runs |-> NoHead] /\ checkpoint = [s \in Runs |-> NoHead]
      /\ head = 0 /\ dirty = FALSE /\ engine = [s \in Runs |-> "none"]
  BY DEF Init
<1> QED
  BY <1>1, <1>2, <1>3, <1>4 DEF TypeOK, AtType

LEMMA TypeStep == TypeOK /\ [Next]_vars => TypeOK'
<1> SUFFICES ASSUME TypeOK, [Next]_vars PROVE TypeOK'
  OBVIOUS
<1>1. CASE UNCHANGED vars
  BY <1>1 DEF TypeOK, vars, store, tree, sessions, engines
<1> QED
  BY <1>1, DispatchTypeOK, LoopTypeOK, RunTypeOK, HandleTypeOK DEF Next, RunStep

(* The status of the task and of its runs, what is recorded of them and    *)
(* where every dispatch and ender is stay what store.ts and                *)
(* orchestrator.ts know of.                                                *)
THEOREM TypeCorrect == Spec => []TypeOK
<1> QED
  BY TypeInit, TypeStep, PTL DEF Spec

-----------------------------------------------------------------------------
(* What one step of an ender does to its place and to the run.             *)

(* It moves that ender only; it comes to finalise a cancellation from      *)
(* doing so already or when no other does, and to complete the run with a  *)
(* verification recorded.                                                  *)
Moves(s, k) ==
  \E p \in Places :
    /\ Goto(s, k, p)
    /\ p \in CancelPlaces => at[s][k] \in CancelPlaces \/ ~Canceling(s)
    /\ p = "complete" => s \in evidence'

(* It leaves the run and its evidence alone, fails the run, completes it   *)
(* or records a verification of it while it is running.                    *)
Decides(s) ==
  \/ UNCHANGED <<run, evidence, overtaken>>
  \/ EndRun(s, "failed") /\ UNCHANGED evidence
  \/ EndRun(s, "completed") /\ StatusAt(s, "complete") /\ UNCHANGED evidence
  \/ run[s] = "running" /\ evidence' = evidence \cup {s} /\ UNCHANGED <<run, overtaken>>

(* Every step an ender may take is of this form. *)
LEMMA HandleForm ==
  ASSUME NEW s \in Runs, NEW k \in Enders, Handle(s, k)
  PROVE  Moves(s, k) /\ Decides(s)
<1> USE DEF Places, FailPlaces, CancelPlaces
<1>1. ASSUME NEW here, NEW there \in Places \ {"complete"},
             there \in CancelPlaces => here \in CancelPlaces,
             FailRun(s, k, here, there) \/ BlockTask(s, k, here, there)
      PROVE  Moves(s, k) /\ Decides(s)
  <2>1. Moves(s, k)
    BY <1>1 DEF FailRun, BlockTask, Moves
  <2>2. Decides(s)
    BY <1>1 DEF FailRun, BlockTask, Decides
  <2> QED
    BY <2>1, <2>2
<1>2. CASE Frame(s, k)
  BY <1>2 DEF Frame, Moves, Decides, store
<1>3. CASE Fails(s, k)
  BY <1>3 DEF Fails, Moves, Decides, store
<1>4. CASE Failure(s, k)
  <2>1. CASE RollBack(s, k)
    BY <2>1 DEF RollBack, Moves, Decides, store
  <2>2. CASE Retry(s, k)
    BY <2>2 DEF Retry, Moves, Decides, store
  <2>3. CASE Requeue(s, k)
    BY <2>3 DEF Requeue, Moves, Decides
  <2> QED
    BY <1>1, <1>4, <2>1, <2>2, <2>3 DEF Failure
<1>5. CASE FinishCanceled(s, k)
  <2>1. CASE UndoCanceled(s, k)
    BY <2>1 DEF UndoCanceled, Moves, Decides, store
  <2> QED
    BY <1>1, <1>5, <2>1 DEF FinishCanceled
<1>6. CASE Cleanup(s, k)
  BY <1>6 DEF Cleanup, Moves, Decides, store
<1>7. CASE k = "status" /\ Finish(s)
  <2>1. CASE Checkpoint(s)
    BY <1>7, <2>1 DEF Checkpoint, StatusGoto, Moves, Decides
  <2>2. CASE Verify(s)
    BY <1>7, <2>2 DEF Verify, StatusGoto, Moves, Decides, store
  <2>3. CASE Record(s)
    BY <1>7, <2>3 DEF Record, Recordable, StatusGoto, Moves, Decides
  <2>4. CASE Complete(s)
    BY <1>7, <2>4 DEF Complete, StatusGoto, Moves, Decides
  <2>5. CASE Submit(s)
    BY <1>7, <2>5 DEF Submit, StatusGoto, Moves, Decides
  <2>6. CASE QueueRework(s)
    BY <1>7, <2>6 DEF QueueRework, StatusGoto, Moves, Decides
  <2> QED
    BY <1>1, <1>7, <2>1, <2>2, <2>3, <2>4, <2>5, <2>6 DEF Finish
<1>8. CASE k = "cancel" /\ Stopped(s)
  BY <1>8 DEF Stopped, Shared, Moves, Decides, store
<1> QED
  BY <1>2, <1>3, <1>4, <1>5, <1>6, <1>7, <1>8 DEF Handle

(* A step of a dispatch or of the engine, a stall or a cancel moves enders *)
(* to places where nothing is decided yet.                                 *)
LEMMA ArrivalForm ==
  ASSUME TypeOK, Arrival
  PROVE  \A s \in Runs, k \in Enders : at'[s][k] \in {at[s][k], "due", "stopping", "idle"}
<1>1. ASSUME NEW d \in Dispatchers, Prepare(d) \/ Begin(d) \/ Mark(d)
      PROVE  at' = at
  BY <1>1 DEF Prepare, Begin, Mark
<1>2. ASSUME NEW d \in Dispatchers, Prompt(d)
      PROVE  \E s : at' = at \/ at' = [at EXCEPT ![s]["thrown"] = "due"]
  BY <1>2 DEF Prompt, Goto
<1>3. ASSUME NEW s \in Runs, Edit(s) \/ Report(s) \/ FallSilent(s) PROVE at' = at
  BY <1>3 DEF Edit, Report, FallSilent
<1>4. ASSUME NEW s \in Runs, TurnEnds(s)
      PROVE  \A t \in Runs, k \in Enders : at'[t][k] \in {at[t][k], "due"}
  BY <1>4 DEF TurnEnds, TypeOK
<1>5. ASSUME NEW s \in Runs, Stall(s) \/ Cancel(s)
      PROVE  \E k \in Enders, p \in {"due", "stopping", "idle"} : Goto(s, k, p)
  BY <1>5 DEF Stall, Cancel
<1> QED
  <2>1. CASE at' = at
    BY <2>1
  <2>2. ASSUME NEW d \in Dispatchers, Prompt(d)
        PROVE  \A s \in Runs, k \in Enders : at'[s][k] \in {at[s][k], "due"}
    <3>1. PICK r : at' = at \/ at' = [at EXCEPT ![r]["thrown"] = "due"]
      BY <1>2, <2>2
    <3>2. at \in AtType
      BY DEF TypeOK, AtType
    <3> QED
      BY <3>1, <3>2 DEF AtType
  <2>3. ASSUME NEW s \in Runs, Stall(s) \/ Cancel(s)
        PROVE  \A t \in Runs, k \in Enders :
                 at'[t][k] \in {at[t][k], "due", "stopping", "idle"}
    <3>1. PICK l \in Enders, p \in {"due", "stopping", "idle"} : Goto(s, l, p)
      BY <1>5, <2>3
    <3>2. at \in AtType
      BY DEF TypeOK, AtType
    <3> QED
      BY <3>1, <3>2 DEF AtType, Goto
  <2>4. ASSUME Return \/ Rest PROVE at' = at
    BY <2>4 DEF Return, Rest
  <2> QED
    BY <1>1, <1>3, <1>4, <2>1, <2>2, <2>3, <2>4 DEF Arrival, Start, RunStep

-----------------------------------------------------------------------------
(* One finalisation of a cancellation.                                     *)

(* OneCancellation without Cardinality: inductive, as an ender enters      *)
(* CancelPlaces only where it saw none there.                              *)
SameCanceler ==
  \A s \in Runs : \A k, l \in Enders :
    at[s][k] \in CancelPlaces /\ at[s][l] \in CancelPlaces => k = l

LEMMA SameCancelerStep ==
  ASSUME TypeOK, SameCanceler, [Next]_vars
  PROVE  SameCanceler'
<1>1. CASE UNCHANGED vars
  BY <1>1 DEF SameCanceler, vars
<1>2. ASSUME NEW s \in Runs, NEW k \in Enders, Handle(s, k)
      PROVE  SameCanceler'
  <2>1. PICK p \in Places :
          /\ Goto(s, k, p)
          /\ p \in CancelPlaces => at[s][k] \in CancelPlaces \/ ~Canceling(s)
    BY <1>2, HandleForm DEF Moves
  <2>2. at' = [at EXCEPT ![s][k] = p]
    BY <2>1 DEF Goto
  <2>3. \A t \in Runs, l \in Enders :
          at'[t][l] = IF t = s /\ l = k THEN p ELSE at[t][l]
    BY <2>2 DEF TypeOK
  <2> QED
    BY <2>1, <2>3 DEF SameCanceler, Canceling
<1>3. CASE Arrival
  <2>1. \A s \in Runs, k \in Enders : at'[s][k] \in CancelPlaces => at[s][k] \in CancelPlaces
    BY <1>3, ArrivalForm DEF CancelPlaces
  <2> QED
    BY <2>1 DEF SameCanceler
<1> QED
  BY <1>1, <1>2, <1>3 DEF Next, Arrival, RunStep

LEMMA SameCancelerBounds == SameCanceler => OneCancellation
<1> SUFFICES ASSUME SameCanceler, NEW s \in Runs
             PROVE  Cardinality({k \in Enders : at[s][k] \in CancelPlaces}) <= 1
  BY DEF OneCancellation
<1> DEFINE cancelers == {k \in Enders : at[s][k] \in CancelPlaces}
<1>1. CASE cancelers = {}
  BY <1>1, FS_EmptySet
<1>2. ASSUME NEW k \in cancelers PROVE Cardinality(cancelers) = 1
  <2>1. cancelers = {k}
    BY <1>2 DEF SameCanceler
  <2> QED
    BY <2>1, FS_Singleton
<1> QED
  BY <1>1, <1>2

(* However many frames, stalls and cancels meet on a session, a cancelled  *)
(* run is never finalised by two of them side by side: no rollback of the  *)
(* worktree races another one.                                             *)
THEOREM CancellationShared == Spec => []OneCancellation
<1>1. Init => SameCanceler
  BY DEF Init, SameCanceler, CancelPlaces
<1> QED
  BY <1>1, TypeCorrect, SameCancelerStep, SameCancelerBounds, PTL DEF Spec

-----------------------------------------------------------------------------
(* A verdict that comes after the failure.                                 *)

(* Inductive: a run that failed before its verdict stays failed and stays  *)
(* without evidence, and one about to be completed has evidence.           *)
VerdictInv ==
  /\ \A s \in overtaken : run[s] = "failed" /\ s \notin evidence
  /\ \A s \in Runs : StatusAt(s, "complete") => s \in evidence

LEMMA VerdictStep ==
  ASSUME TypeOK, VerdictInv, [Next]_vars
  PROVE  VerdictInv'
<1>1. CASE UNCHANGED vars
  BY <1>1 DEF VerdictInv, StatusAt, vars, store
<1>2. ASSUME NEW s \in Runs, NEW k \in Enders, Handle(s, k)
      PROVE  VerdictInv'
  <2>1. PICK p \in Places : Goto(s, k, p) /\ (p = "complete" => s \in evidence')
    BY <1>2, HandleForm DEF Moves
  <2>2. at' = [at EXCEPT ![s][k] = p]
    BY <2>1 DEF Goto
  <2>3. \A t \in Runs, l \in Enders :
          at'[t][l] = IF t = s /\ l = k THEN p ELSE at[t][l]
    BY <2>2 DEF TypeOK
  <2>4. Decides(s)
    BY <1>2, HandleForm
  <2>5. evidence \subseteq evidence'
    BY <2>4 DEF Decides
  <2>6. \A t \in Runs : StatusAt(t, "complete")' => t \in evidence'
    BY <2>1, <2>3, <2>5 DEF VerdictInv, StatusAt
  <2>7. \A t \in overtaken' : run'[t] = "failed" /\ t \notin evidence'
    BY <2>4 DEF Decides, EndRun, VerdictInv, TypeOK
  <2> QED
    BY <2>6, <2>7 DEF VerdictInv
<1>3. CASE Arrival
  <2>1. \A s \in Runs : StatusAt(s, "complete")' => StatusAt(s, "complete")
    BY <1>3, ArrivalForm DEF StatusAt
  <2>2. UNCHANGED <<evidence, overtaken>>
    BY <1>3 DEF Arrival, Start, Prepare, Begin, Mark, Prompt, Return, Rest,
      RunStep, Edit, Report, FallSilent, TurnEnds, Stall, Cancel, store
  <2>3. \A s \in Runs : run[s] = "failed" => run'[s] = "failed"
    <3>1. ASSUME NEW d \in Dispatchers, Begin(d)
          PROVE  \A s \in Runs : run[s] = "failed" => run'[s] = "failed"
      BY <3>1 DEF Begin, TypeOK
    <3>2. CASE UNCHANGED run
      BY <3>2
    <3> QED
      BY <1>3, <3>1, <3>2 DEF Arrival, Start, Prepare, Mark, Prompt, Return, Rest,
        RunStep, Edit, Report, FallSilent, TurnEnds, Stall, Cancel, store
  <2> QED
    BY <2>1, <2>2, <2>3 DEF VerdictInv, TypeOK
<1> QED
  BY <1>1, <1>2, <1>3 DEF Next, Arrival, RunStep

(* A run that any ender failed before its verification was recorded is     *)
(* never completed by that verification, whenever it comes in.             *)
THEOREM FailedStaysFailed == Spec => []LateVerdict
<1>1. Init => VerdictInv
  BY DEF Init, VerdictInv, StatusAt
<1>2. VerdictInv => LateVerdict
  BY DEF VerdictInv, LateVerdict
<1> QED
  BY <1>1, <1>2, TypeCorrect, VerdictStep, PTL DEF Spec
=============================================================================
