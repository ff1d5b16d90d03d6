------------------------ MODULE ExecutionCoordinator ------------------------
(***************************************************************************)
(* src/main/organization/execution-coordinator.ts and the guard that ipc.ts*)
(* puts around runTask and reviewTask: how a dispatch gets a permit of     *)
(* nd-core's scheduler, binds it to the session of its run, and gives it   *)
(* back when the run or the dispatch ends, with heartbeats, failing calls, *)
(* the death of nd-core and the closing of the app.                        *)
(*                                                                         *)
(* A member of Runs is one dispatch, with the permit id it drew, the run   *)
(* and the session it starts. All ask for one place in one pool. Requests  *)
(* to nd-core go through coreChain one at a time; the head is in flight.   *)
(* An engine here is one whose work nd-core does not kill with the permit, *)
(* like the ND harness.                                                    *)
(*                                                                         *)
(* Left out: the coordinator without nd-core, availability (a read), the   *)
(* gates of the control plane, the wait times.                             *)
(***************************************************************************)
EXTENDS Integers, Sequences, FiniteSets

CONSTANTS
  Runs,
  Limit,      \* limit of the pool
  Faults,     \* "call": a request fails or times out; "sleep": the machine
              \* sleeps past a permit's time to live
  MaxDeaths   \* bound of the model: deaths of nd-core

ASSUME CoordinatorAssumption ==
  IsFiniteSet(Runs) /\ Limit \in Nat /\ MaxDeaths \in Nat

VARIABLES
  core,       \* permits the scheduler holds
  chain,      \* coreChain: requests in flight and waiting
  permits,    \* permits of the coordinator
  bound,      \* runs whose session is in sessionPermits
  blocked,    \* blockedReason is set
  closing,
  pc,         \* where the guard of each dispatch is
  run,        \* the run record in the store
  cleanup,    \* whether cleanupSession is still to come
  engine,     \* sessions whose engine is at work
  recovery,   \* core.ready handler: "none", "due", "saving"
  deaths,
  lost,       \* history: runs that were running when nd-core died and have
              \* not ended since
  disturbed,  \* history: a request failed, nd-core died, or a permit ran out
              \* while the machine slept
  strayed     \* history: runs that lost the permit they had - by a failed
              \* request of their own, by running out, by the death of nd-core
              \* - or that were ended while their engine was at work

coordinatorVars == <<permits, bound, blocked, closing>>
runVars == <<run, cleanup, engine, lost>>
coreVars == <<core, deaths, recovery, disturbed, strayed>>
vars == <<chain, pc, coordinatorVars, runVars, coreVars>>

Places ==
  {"idle", "acquiring", "waiting", "refused", "starting", "bind", "binding",
   "check", "undo", "releasing", "done"}

Request(op, r) == [op |-> op, run |-> r]

Init ==
  /\ core = {} /\ chain = <<>>
  /\ permits = {} /\ bound = {} /\ blocked = FALSE /\ closing = FALSE
  /\ pc = [r \in Runs |-> "idle"]
  /\ run = [r \in Runs |-> "none"]
  /\ cleanup = [r \in Runs |-> "none"]
  /\ engine = {} /\ recovery = "none" /\ deaths = 0 /\ lost = {}
  /\ disturbed = FALSE /\ strayed = {}

Goto(r, place) == pc' = [pc EXCEPT ![r] = place]

Issue(op, r) == chain' = Append(chain, Request(op, r))

AtHead(op, r) == chain # <<>> /\ Head(chain) = Request(op, r)

-----------------------------------------------------------------------------
(* Acquiring.                                                              *)

(* acquire up to the request, first or again after a full pool. *)
Acquire(r) ==
  /\ pc[r] \in {"idle", "waiting"}
  /\ IF closing \/ blocked THEN Goto(r, "done") /\ UNCHANGED chain
     ELSE Goto(r, "acquiring") /\ Issue("acquire", r)
  /\ UNCHANGED <<coordinatorVars, runVars, coreVars>>

(* Mutant: the state is not looked at again after the grant. *)
RegistersAlways == TRUE

(* A grant is kept only if no shutdown and no core restart began meanwhile.*)
Registers == ~closing /\ ~blocked

Granted(r) ==
  /\ AtHead("acquire", r)
  /\ Cardinality(core) < Limit
  /\ core' = core \cup {r}
  /\ IF Registers
     THEN permits' = permits \cup {r} /\ chain' = Tail(chain) /\ Goto(r, "starting")
     ELSE /\ chain' = Append(Tail(chain), Request("release", r))
          /\ Goto(r, "refused")
          /\ UNCHANGED permits
  /\ UNCHANGED <<bound, blocked, closing, runVars, deaths, recovery, disturbed, strayed>>

(* RuntimeCapacityError: an explicit dispatch waits until its deadline, an *)
(* automatic one is refused.                                               *)
PoolFull(r) ==
  /\ AtHead("acquire", r)
  /\ Cardinality(core) >= Limit
  /\ chain' = Tail(chain)
  /\ \/ Goto(r, "waiting") /\ ~closing /\ ~blocked
     \/ Goto(r, "done")
  /\ UNCHANGED <<coordinatorVars, runVars, coreVars>>

-----------------------------------------------------------------------------
(* Releasing.                                                              *)

(* release and releaseById up to the request: unknown permits are left     *)
(* alone.                                                                  *)
Release(r) ==
  /\ bound' = bound \ {r}
  /\ permits' = permits \ {r}
  /\ IF r \in permits THEN Issue("release", r) ELSE UNCHANGED chain

(* The guard's catch. *)
Undo(r) ==
  /\ pc[r] = "undo"
  /\ Release(r)
  /\ Goto(r, IF r \in permits THEN "releasing" ELSE "done")
  /\ UNCHANGED <<blocked, closing, runVars, coreVars>>

AfterRelease(r) ==
  IF pc[r] \in {"releasing", "refused"} THEN Goto(r, "done") ELSE UNCHANGED pc

Released(r) ==
  /\ AtHead("release", r)
  /\ core' = core \ {r}
  /\ chain' = Tail(chain)
  /\ AfterRelease(r)
  /\ UNCHANGED <<coordinatorVars, runVars, deaths, recovery, disturbed, strayed>>

-----------------------------------------------------------------------------
(* Running.                                                                *)

(* runTask up to the start of the engine, or its failure before the run    *)
(* record exists.                                                          *)
StartRun(r) ==
  /\ pc[r] = "starting"
  /\ \/ /\ run' = [run EXCEPT ![r] = "running"]
        /\ engine' = engine \cup {r}
        /\ Goto(r, "bind")
     \/ Goto(r, "undo") /\ UNCHANGED <<run, engine>>
  /\ UNCHANGED <<chain, coordinatorVars, coreVars, cleanup, lost>>

(* A run is over in the store; its engine may not be.                      *)
Strays(r) == strayed' = IF r \in engine' THEN strayed \cup {r} ELSE strayed

(* The engine refuses the prompt or fails in it, or the call does while    *)
(* the engine is at work: runTask ends the run, unless an event of the     *)
(* session did, and throws.                                                *)
StartFails(r) ==
  /\ pc[r] = "bind"
  /\ run' = [run EXCEPT ![r] = "ended"]
  /\ engine' \in {engine, engine \ {r}} /\ Strays(r)
  /\ cleanup' = [cleanup EXCEPT ![r] = "done"]
  /\ lost' = lost \ {r}
  /\ Goto(r, "undo")
  /\ UNCHANGED <<chain, coordinatorVars, core, deaths, recovery, disturbed>>

(* bindSession up to its request. *)
Bind(r) ==
  /\ pc[r] = "bind"
  /\ IF closing \/ r \notin permits THEN Goto(r, "undo") /\ UNCHANGED chain
     ELSE Goto(r, "binding") /\ Issue("bind", r)
  /\ UNCHANGED <<coordinatorVars, runVars, coreVars>>

Bound(r) ==
  /\ AtHead("bind", r)
  /\ chain' = Tail(chain)
  /\ IF r \in core /\ ~closing /\ r \in permits
     THEN bound' = bound \cup {r} /\ Goto(r, "check")
     ELSE UNCHANGED bound /\ Goto(r, "undo")
  /\ UNCHANGED <<permits, blocked, closing, runVars, coreVars>>

(* Mutant: the run is not looked up after the session was bound. *)
CheckNothing(r) ==
  /\ pc[r] = "check"
  /\ Goto(r, "done")
  /\ UNCHANGED <<chain, coordinatorVars, runVars, coreVars>>

(* Mutant: the permit goes back although the run goes on. *)
CheckAlwaysReleases(r) ==
  /\ pc[r] = "check"
  /\ Release(r)
  /\ Goto(r, IF r \in permits THEN "releasing" ELSE "done")
  /\ UNCHANGED <<blocked, closing, runVars, coreVars>>

(* bindRuntimePermit after bindSession: a run that is over by now gave     *)
(* nothing back. The calls that follow may fail too.                       *)
Check(r) ==
  /\ pc[r] = "check"
  /\ IF run[r] = "running"
     THEN /\ \/ Goto(r, "done") /\ UNCHANGED <<disturbed, strayed>>
             \/ /\ "call" \in Faults /\ Goto(r, "undo")
                /\ disturbed' = TRUE /\ strayed' = strayed \cup {r}
          /\ UNCHANGED <<chain, permits, bound>>
     ELSE /\ Release(r)
          /\ Goto(r, IF r \in permits THEN "releasing" ELSE "done")
          /\ UNCHANGED <<disturbed, strayed>>
  /\ UNCHANGED <<blocked, closing, runVars, core, deaths, recovery>>

EngineEnds(r) ==
  /\ r \in engine
  /\ engine' = engine \ {r}
  /\ UNCHANGED <<chain, pc, coordinatorVars, coreVars, run, cleanup, lost>>

(* A finaliser of the orchestrator completes the run, often because its    *)
(* engine has ended. But stopping an engine is a request, whose failure is *)
(* swallowed: a run that stalled, or that the user cancels, is completed   *)
(* although its engine may work on...                                      *)
RunEnds(r) ==
  /\ run[r] = "running"
  /\ run' = [run EXCEPT ![r] = "ended"]
  /\ cleanup' = [cleanup EXCEPT ![r] = "due"]
  /\ lost' = lost \ {r}
  /\ UNCHANGED engine /\ Strays(r)
  /\ UNCHANGED <<chain, pc, coordinatorVars, core, deaths, recovery, disturbed>>

(* ... and later cleans its session up: releaseSession. *)
CleanupSession(r) ==
  /\ cleanup[r] = "due"
  /\ cleanup' = [cleanup EXCEPT ![r] = "done"]
  /\ IF r \in bound THEN Release(r) ELSE UNCHANGED <<bound, permits, chain>>
  /\ UNCHANGED <<pc, blocked, closing, coreVars, run, engine, lost>>

-----------------------------------------------------------------------------
(* Heartbeats, expiry, failing calls.                                      *)

(* The timer, one permit at a time; the interval is longer than the time   *)
(* limit of the request before it.                                         *)
Heartbeat(r) ==
  /\ r \in permits /\ ~closing
  /\ \A i \in DOMAIN chain : chain[i] # Request("heartbeat", r)
  /\ Issue("heartbeat", r)
  /\ UNCHANGED <<pc, coordinatorVars, runVars, coreVars>>

(* Mutant: the session keeps the permit. *)
DropPermitOnly(r) == permits' = permits \ {r} /\ bound' = bound

(* A heartbeat that fails for any reason drops the permit. *)
DropPermit(r) == permits' = permits \ {r} /\ bound' = bound \ {r}

HeartbeatAnswered(r) ==
  /\ AtHead("heartbeat", r)
  /\ chain' = Tail(chain)
  /\ IF r \in core THEN UNCHANGED <<permits, bound>> ELSE DropPermit(r)
  /\ UNCHANGED <<pc, blocked, closing, runVars, coreVars>>

(* The head of the chain fails at the client. nd-core did it or not; what  *)
(* it would do even later is not modelled.                                 *)
CallFails(r) ==
  /\ "call" \in Faults
  /\ chain # <<>> /\ Head(chain).run = r
  /\ chain' = Tail(chain)
  /\ CASE Head(chain).op = "acquire" ->
            /\ core' \in {core} \cup {core \cup {x} : x \in {y \in {r} : Cardinality(core) < Limit}}
            /\ Goto(r, "done") /\ UNCHANGED <<permits, bound>>
       [] Head(chain).op = "bind" ->
            Goto(r, "undo") /\ UNCHANGED <<core, permits, bound>>
       [] Head(chain).op = "release" ->
            core' \in {core, core \ {r}} /\ AfterRelease(r) /\ UNCHANGED <<permits, bound>>
       [] Head(chain).op = "heartbeat" ->
            DropPermit(r) /\ UNCHANGED <<core, pc>>
  /\ disturbed' = TRUE
  /\ strayed' = IF Head(chain).op \in {"bind", "heartbeat"} THEN strayed \cup {r}
                ELSE strayed
  /\ UNCHANGED <<blocked, closing, runVars, deaths, recovery>>

(* The time to live is four heartbeats long. *)
Expire(r) ==
  /\ r \in core
  /\ r \notin permits \/ "sleep" \in Faults
  /\ core' = core \ {r}
  /\ disturbed' = (disturbed \/ r \in permits)
  /\ strayed' = strayed \cup ({r} \cap permits)
  /\ UNCHANGED <<chain, pc, coordinatorVars, runVars, deaths, recovery>>

-----------------------------------------------------------------------------
(* The death of nd-core, and the closing of the app.                       *)

(* The place a dispatch goes to when its request is rejected. *)
AfterRejection(request) ==
  IF request.op = "bind" THEN "undo"
  ELSE IF pc[request.run] \in {"acquiring", "releasing", "refused"}
          /\ request.op # "heartbeat" THEN "done"
  ELSE pc[request.run]

(* Mutant: the permits are dropped and dispatch goes on. *)
BlockedUnchanged == blocked

(* invalidateForCoreRestart blocks dispatch. *)
BlockedAfterExit == TRUE

(* The exit event: the request in flight is rejected, the coordinator      *)
(* invalidates its permits. What waits in the chain goes to the next core. *)
CoreDies ==
  /\ deaths < MaxDeaths /\ ~closing
  /\ deaths' = deaths + 1 /\ disturbed' = TRUE
  /\ strayed' = strayed \cup permits \cup engine
  /\ core' = {}
  /\ permits' = {} /\ bound' = {} /\ blocked' = BlockedAfterExit
  /\ recovery' = "due"
  /\ lost' = {r \in Runs : run[r] = "running"}
  /\ IF chain = <<>> THEN UNCHANGED <<chain, pc>>
     ELSE /\ chain' = Tail(chain)
          /\ Goto(Head(chain).run, AfterRejection(Head(chain)))
  /\ UNCHANGED <<closing, run, cleanup, engine>>

(* The core.ready handler: reconcileInterruptedRuns... *)
Reconcile ==
  /\ recovery = "due"
  /\ recovery' = "saving"
  /\ run' = [r \in Runs |-> IF run[r] = "running" THEN "ended" ELSE run[r]]
  /\ cleanup' = [r \in Runs |-> IF run[r] = "running" THEN "done" ELSE cleanup[r]]
  /\ lost' = {}
  /\ UNCHANGED <<chain, pc, coordinatorVars, engine, core, deaths, disturbed, strayed>>

(* ... and resumeAfterReconciliation when the store is saved. *)
Resume ==
  /\ recovery = "saving"
  /\ recovery' = "none"
  /\ blocked' = FALSE
  /\ UNCHANGED <<chain, pc, permits, bound, closing, runVars, core, deaths, disturbed, strayed>>

Close ==
  /\ ~closing
  /\ closing' = TRUE
  /\ permits' = {} /\ bound' = bound \ permits
  /\ \E order \in [1 .. Cardinality(permits) -> permits] :
       /\ \A i, j \in DOMAIN order : order[i] = order[j] => i = j
       /\ chain' = chain \o [i \in DOMAIN order |-> Request("release", order[i])]
  /\ UNCHANGED <<pc, blocked, runVars, coreVars>>

Step(r) ==
  \/ Acquire(r) \/ Granted(r) \/ PoolFull(r)
  \/ Undo(r) \/ Released(r)
  \/ StartRun(r) \/ StartFails(r) \/ Bind(r) \/ Bound(r) \/ Check(r)
  \/ EngineEnds(r) \/ RunEnds(r) \/ CleanupSession(r)
  \/ Heartbeat(r) \/ HeartbeatAnswered(r) \/ CallFails(r) \/ Expire(r)

Next == (\E r \in Runs : Step(r)) \/ CoreDies \/ Reconcile \/ Resume \/ Close

Spec == Init /\ [][Next]_vars

-----------------------------------------------------------------------------

(* Type invariant; a bound session's permit is one the coordinator has.    *)
TypeOK ==
  /\ core \subseteq Runs /\ permits \subseteq Runs /\ bound \subseteq permits
  /\ chain \in Seq([op : {"acquire", "bind", "release", "heartbeat"}, run : Runs])
  /\ blocked \in BOOLEAN /\ closing \in BOOLEAN
  /\ pc \in [Runs -> Places]
  /\ run \in [Runs -> {"none", "running", "ended"}]
  /\ cleanup \in [Runs -> {"none", "due", "done"}]
  /\ engine \subseteq Runs /\ lost \subseteq Runs
  /\ recovery \in {"none", "due", "saving"} /\ deaths \in Nat
  /\ disturbed \in BOOLEAN /\ strayed \subseteq Runs

(* "Do not register an unowned permit after close took its release         *)
(* snapshot": a closing coordinator holds no permit, whatever was in       *)
(* flight when it began to close.                                          *)
ClosedHoldsNothing == closing => permits = {}

Over(r) == pc[r] = "done" /\ run[r] # "running" /\ cleanup[r] # "due"

(* When dispatch, run and cleanup are over, in whatever order the guard    *)
(* and the session's events took their steps, the coordinator does not     *)
(* hold the permit: it would renew it for ever.                            *)
NoPermitLeak == \A r \in Runs : Over(r) => r \notin permits

(* While no request has failed and nd-core has not died, the scheduler has *)
(* the place back as well, once the requests that were issued are answered.*)
PlaceReturned ==
  \A r \in Runs :
    ~disturbed /\ Over(r) /\ (\A i \in DOMAIN chain : chain[i].run # r)
      => r \notin core

(* The engines at work fit into the pool, also while close() takes the     *)
(* permits from under them, but for those that strayed: however two        *)
(* dispatches, their bindings, heartbeats and finalisers interleave, an    *)
(* engine works beyond the pool only if a request of its own run failed,   *)
(* its permit ran out, nd-core died under it, or its run was ended without *)
(* it. What happened to another dispatch does not excuse it.               *)
EnginesFit == Cardinality(engine \ strayed) <= Limit

(* After nd-core died, a permit is registered only when every run that was *)
(* running at its death has been reconciled.                               *)
ReconciledBeforeDispatch ==
  [][\A r \in Runs : r \notin permits /\ r \in permits' => lost = {}]_vars
=============================================================================
