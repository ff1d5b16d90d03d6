----------------------------- MODULE CoreClient -----------------------------
(***************************************************************************)
(* src/main/core/core-client.ts: the desktop's end of nd-core. It starts   *)
(* the sidecar, numbers its processes by generation, drops what an older   *)
(* generation says, restarts a lost one once, and tells the rest of the    *)
(* desktop with core.exit and core.ready.                                  *)
(*                                                                         *)
(* The desktop is single threaded: an action is what runs between two      *)
(* turns of its event loop. The death of a process and the delivery of its *)
(* exit event are two steps. The model begins after a successful start, as *)
(* the desktop stops when its first start fails.                           *)
(*                                                                         *)
(* Left out: the limits on pending requests and bytes, framing (a frame    *)
(* that cannot be read is a protocol fault), request deadlines.            *)
(***************************************************************************)
EXTENDS Integers, FiniteSets

CONSTANTS
  Requests,   \* callers of request, each with one request at a time
  MaxGen,     \* bound of the model: sidecar processes started
  Faults      \* "protocol": an unreadable frame; "close": close() is called

ASSUME CoreClientAssumption == MaxGen \in Nat \ {0}

VARIABLES
  gen,          \* generation of the last sidecar started
  proc,         \* state of each sidecar process
  told,         \* processes that were killed or had their stdin closed
  child,        \* generation this.child stands for, 0 if undefined
  healthy,      \* healthValue is set
  starting,     \* spawnAndHandshake waits for core.health
  req,          \* where each caller's request is
  sentIn,       \* generation a request was written to
  attempts,     \* restartAttempts
  unavailable,  \* unavailableReason is set
  timer,        \* the restart timer is armed ("armed"), or its start() waits
  stable,       \* generation the stable timer is armed for, or 0
  closing,      \* close() was called and nothing was started since
  closeWaits,   \* close() has not yet rejected the pending requests
  announced,    \* history: generations whose loss core.exit announced
  ready,        \* history: generations core.ready was emitted for
  restarts,     \* history: restarts by the timer since the last stable reset
  disturbed     \* history: an unreadable frame was received, or close() called

vars == <<gen, proc, told, child, healthy, starting, req, sentIn, attempts,
          unavailable, timer, stable, closing, closeWaits, announced, ready,
          restarts, disturbed>>

Generations == 1 .. MaxGen

MaxAttempts == 1

Init ==
  /\ gen = 1
  /\ proc = [g \in Generations |-> IF g = 1 THEN "alive" ELSE "none"]
  /\ told = {}
  /\ child = 1 /\ healthy = TRUE /\ starting = FALSE
  /\ req = [r \in Requests |-> "idle"]
  /\ sentIn = [r \in Requests |-> 0]
  /\ attempts = 0 /\ unavailable = FALSE
  /\ timer = "off" /\ stable = 0
  /\ closing = FALSE /\ closeWaits = FALSE
  /\ announced = {} /\ ready = {1} /\ restarts = 0 /\ disturbed = FALSE

Usable == healthy /\ child # 0 /\ child \notin told

(* A call of start() that launches a process: spawnAndHandshake up to the  *)
(* request for core.health.                                                *)
Spawn ==
  /\ ~Usable /\ ~unavailable /\ ~starting
  /\ gen < MaxGen
  /\ gen' = gen + 1
  /\ child' = gen + 1
  /\ proc' = [proc EXCEPT ![gen + 1] = "alive"]
  /\ starting' = TRUE
  /\ closing' = FALSE

(* Mutant: only the callers of start() are rejected. *)
RejectedWaiting == [r \in Requests |-> IF req[r] = "waits" THEN "idle" ELSE req[r]]

(* rejectPending, and the callers of a start that failed with it. *)
Rejected == [r \in Requests |-> "idle"]

RejectPending ==
  /\ req' = Rejected
  /\ starting' = FALSE
  /\ timer' = IF timer = "waits" THEN "off" ELSE timer

(* request: start(), then sendRequest. *)
Request(r) ==
  /\ req[r] = "idle"
  /\ \/ /\ Usable
        /\ req' = [req EXCEPT ![r] = "sent"]
        /\ sentIn' = [sentIn EXCEPT ![r] = gen]
        /\ UNCHANGED <<gen, proc, child, starting, closing>>
     \/ /\ ~Usable /\ starting
        /\ req' = [req EXCEPT ![r] = "waits"]
        /\ UNCHANGED <<gen, proc, child, starting, closing, sentIn>>
     \/ /\ Spawn
        /\ req' = [req EXCEPT ![r] = "waits"]
        /\ UNCHANGED sentIn
  /\ UNCHANGED <<told, healthy, attempts, unavailable, timer, stable,
                 closeWaits, announced, ready, restarts, disturbed>>

(* A response of the current generation, or the client's timer.            *)
Settle(r) ==
  /\ req[r] = "sent"
  /\ req' = [req EXCEPT ![r] = "idle"]
  /\ UNCHANGED <<gen, proc, told, child, healthy, starting, sentIn, attempts,
                 unavailable, timer, stable, closing, closeWaits, announced,
                 ready, restarts, disturbed>>

(* Mutant: a successful handshake refills the restart budget at once. *)
BudgetAfterHandshake == 0

(* attempts after a handshake: unchanged until the stable timer fires. *)
AttemptsAfterHandshake == attempts

HandshakeOK ==
  /\ starting /\ proc[gen] = "alive"
  /\ starting' = FALSE
  /\ healthy' = TRUE
  /\ ready' = ready \cup {gen}
  /\ stable' = IF attempts > 0 THEN gen ELSE stable
  /\ attempts' = AttemptsAfterHandshake
  /\ req' = [r \in Requests |->
               IF req[r] # "waits" THEN req[r]
               ELSE IF child = 0 THEN "idle" ELSE "sent"]
  /\ sentIn' = [r \in Requests |-> IF req[r] = "waits" THEN gen ELSE sentIn[r]]
  /\ timer' = IF timer = "waits" THEN "off" ELSE timer
  /\ UNCHANGED <<gen, proc, told, child, unavailable, closing, closeWaits,
                 announced, restarts, disturbed>>

(* Mutant: a failed automatic restart is only logged. *)
UnavailableUnchanged == unavailable

(* The catch of the restart timer's start(). *)
UnavailableAfterFailedStart == unavailable \/ timer = "waits"

(* core.health is not answered in 5 s, or names another protocol version:  *)
(* only then is the process killed. The restart timer (100 ms) has fired   *)
(* by then.                                                                *)
HandshakeFails ==
  /\ starting /\ timer # "armed"
  /\ told' \in {told, told \cup {gen}}
  /\ starting' = FALSE
  /\ unavailable' = UnavailableAfterFailedStart
  /\ req' = [r \in Requests |-> IF req[r] = "waits" THEN "idle" ELSE req[r]]
  /\ timer' = "off"
  /\ UNCHANGED <<gen, proc, child, healthy, sentIn, attempts, stable, closing,
                 closeWaits, announced, ready, restarts, disturbed>>

ProcessDies(g) ==
  /\ proc[g] = "alive"
  /\ proc' = [proc EXCEPT ![g] = "dead"]
  /\ UNCHANGED <<gen, told, child, healthy, starting, req, sentIn, attempts,
                 unavailable, timer, stable, closing, closeWaits, announced,
                 ready, restarts, disturbed>>

(* Mutant: core.exit is emitted only when nothing will be restarted. *)
AnnouncedGivenUp == IF attempts < MaxAttempts THEN announced ELSE announced \cup {gen}

(* core.exit is emitted. *)
Announced == announced \cup {gen}

(* Mutant: the exit of an older generation drops the present one. *)
LateExitDrops(g) ==
  /\ proc[g] = "dead" /\ g # gen
  /\ proc' = [proc EXCEPT ![g] = "gone"]
  /\ child' = 0 /\ healthy' = FALSE
  /\ UNCHANGED <<gen, told, starting, req, sentIn, attempts, unavailable, timer,
                 stable, closing, closeWaits, announced, ready, restarts,
                 disturbed>>

(* handleExit returns at once for an older generation. *)
LateExit(g) ==
  /\ proc[g] = "dead" /\ g # gen
  /\ proc' = [proc EXCEPT ![g] = "gone"]
  /\ UNCHANGED <<gen, told, child, healthy, starting, req, sentIn, attempts,
                 unavailable, timer, stable, closing, closeWaits, announced,
                 ready, restarts, disturbed>>

Exit ==
  /\ proc[gen] = "dead"
  /\ proc' = [proc EXCEPT ![gen] = "gone"]
  /\ child' = 0 /\ healthy' = FALSE /\ stable' = 0
  /\ req' = Rejected
  /\ starting' = FALSE
  /\ \/ /\ closing
        /\ timer' = IF timer = "waits" THEN "off" ELSE timer
        /\ unavailable' = UnavailableAfterFailedStart
        /\ UNCHANGED <<attempts, announced>>
     \/ /\ ~closing /\ attempts < MaxAttempts
        /\ announced' = Announced
        /\ attempts' = attempts + 1
        /\ timer' = "armed"
        /\ unavailable' = UnavailableAfterFailedStart
     \/ /\ ~closing /\ attempts >= MaxAttempts
        /\ announced' = Announced
        /\ unavailable' = TRUE
        /\ timer' = IF timer = "waits" THEN "off" ELSE timer
        /\ UNCHANGED attempts
  /\ UNCHANGED <<gen, told, sentIn, closing, closeWaits, ready, restarts,
                 disturbed>>

(* The restart timer: nothing while closing, else start().                 *)
RestartTimer ==
  /\ timer = "armed"
  /\ \/ /\ closing \/ Usable
        /\ timer' = "off"
        /\ UNCHANGED <<gen, proc, child, starting, closing, unavailable, restarts>>
     \/ /\ ~closing /\ ~Usable /\ unavailable
        /\ timer' = "off"
        /\ UNCHANGED <<gen, proc, child, starting, closing, unavailable, restarts>>
     \/ /\ ~closing /\ ~Usable /\ ~unavailable /\ starting
        /\ timer' = "waits"
        /\ UNCHANGED <<gen, proc, child, starting, closing, unavailable, restarts>>
     \/ /\ ~closing /\ Spawn
        /\ timer' = "waits"
        /\ restarts' = restarts + 1
        /\ UNCHANGED unavailable
  /\ UNCHANGED <<told, healthy, req, sentIn, attempts, stable, closeWaits,
                 announced, ready, disturbed>>

(* The core has stayed up for 30 s after a restart; the restart timer has  *)
(* fired long before.                                                      *)
StableTimer ==
  /\ stable # 0 /\ timer # "armed"
  /\ stable' = 0
  /\ IF ~closing /\ stable = gen /\ child = stable /\ healthy
     THEN attempts' = 0 /\ unavailable' = FALSE /\ restarts' = 0
     ELSE UNCHANGED <<attempts, unavailable, restarts>>
  /\ UNCHANGED <<gen, proc, told, child, healthy, starting, req, sentIn, timer,
                 closing, closeWaits, announced, ready, disturbed>>

(* failProtocol. The exit event of the killed process comes later.         *)
ProtocolFault ==
  /\ "protocol" \in Faults
  /\ child # 0 /\ proc[child] = "alive"
  /\ child' = 0 /\ healthy' = FALSE
  /\ told' = told \cup {child}
  /\ unavailable' = UnavailableAfterFailedStart
  /\ RejectPending
  /\ disturbed' = TRUE
  /\ UNCHANGED <<gen, proc, sentIn, attempts, stable, closing, closeWaits,
                 announced, ready, restarts>>

Close ==
  /\ "close" \in Faults /\ ~closing /\ ~closeWaits
  /\ closing' = TRUE
  /\ stable' = 0 /\ healthy' = FALSE /\ child' = 0
  /\ disturbed' = TRUE
  /\ IF child = 0 THEN UNCHANGED <<told, closeWaits>>
     ELSE told' = told \cup {child} /\ closeWaits' = TRUE
  /\ UNCHANGED <<gen, proc, starting, req, sentIn, attempts, unavailable, timer,
                 announced, ready, restarts>>

(* close() after the exit of the process, or after 750 ms. *)
CloseEnds ==
  /\ closeWaits
  /\ closeWaits' = FALSE
  /\ unavailable' = UnavailableAfterFailedStart
  /\ RejectPending
  /\ UNCHANGED <<gen, proc, told, child, healthy, sentIn, attempts, stable,
                 closing, announced, ready, restarts, disturbed>>

Next ==
  \/ \E r \in Requests : Request(r) \/ Settle(r)
  \/ \E g \in Generations : ProcessDies(g) \/ LateExit(g)
  \/ HandshakeOK \/ HandshakeFails \/ Exit
  \/ RestartTimer \/ StableTimer
  \/ ProtocolFault \/ Close \/ CloseEnds

Spec == Init /\ [][Next]_vars

-----------------------------------------------------------------------------

(* Types; and, before any unreadable frame or close(), a request that      *)
(* waits for an answer was written to the current generation, the only one *)
(* whose answers are read.                                                 *)
TypeOK ==
  /\ gen \in Generations /\ child \in {0, gen}
  /\ proc \in [Generations -> {"none", "alive", "dead", "gone"}]
  /\ told \subseteq Generations
  /\ req \in [Requests -> {"idle", "waits", "sent"}]
  /\ \A r \in Requests : req[r] = "sent" => sentIn[r] = gen \/ disturbed
  /\ \A r \in Requests : req[r] = "waits" => starting
  /\ timer \in {"off", "armed", "waits"}
  /\ attempts \in 0 .. MaxAttempts
  /\ announced \subseteq Generations /\ ready \subseteq Generations

(* The restart policy's "exactly one automatic restart", not refilled      *)
(* before a restarted core has been stable.                                *)
RestartBudget == restarts <= MaxAttempts

(* One sidecar: a process is only started when every earlier one has died, *)
(* or was killed or told to end (after close() or an unreadable frame a    *)
(* request starts a process beside one that missed its handshake); and the *)
(* newest one, while it lives and was not told to end, is not lost sight   *)
(* of, however late the exit of an earlier one is heard.                   *)
SingleCore ==
  /\ ~disturbed => \A g \in Generations : proc[g] = "alive" /\ g # gen => g \in told
  /\ proc[gen] = "alive" /\ gen \notin told => child = gen

(* A core crash is known before its successor is used: core.exit, which    *)
(* blocks dispatch until durable runs are reconciled, was emitted for      *)
(* every earlier generation that had become ready, while no frame was      *)
(* unreadable and close() was not called.                                  *)
LossAnnouncedUndisturbed ==
  ~disturbed /\ Usable => \A g \in ready : g < gen => g \in announced
=============================================================================
