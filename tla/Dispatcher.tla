----------------------------- MODULE Dispatcher -----------------------------
(***************************************************************************)
(* crates/nd-runtime/src/dispatcher.rs: the workers of nd-core and the     *)
(* three bounded queues they take requests from. One worker is reserved    *)
(* for the foreground. What a job does is no concern of this module: it    *)
(* ends when it likes, or never.                                           *)
(***************************************************************************)
EXTENDS Naturals, Sequences, FiniteSets, SequencesExt

CONSTANTS
  Jobs,        \* requests; one that was answered may be made again
  LevelOf,     \* priority_for_method: the priority of a job
  Capacity,    \* of each queue
  Workers,
  Foreground,  \* the worker spawned with foreground_only
  Idle, Gone   \* what a worker does that runs no job

Levels == {"high", "normal", "background"}
Rank == [high |-> 1, normal |-> 2, background |-> 3]

VARIABLES
  queue,   \* state.high, state.normal, state.background
  doing,   \* the job each worker runs
  closed

dispatcherVars == <<queue, doing, closed>>

Init ==
  /\ queue = [l \in Levels |-> <<>>]
  /\ doing = [w \in Workers |-> Idle]
  /\ closed = FALSE

Queued(j) == j \in ToSet(queue[LevelOf[j]])
Running(j) == \E w \in Workers : doing[w] = j

(* Mutant: one more than the capacity.                                     *)
HasRoomForOneMore(j) ==
  ~closed /\ Len(queue[LevelOf[j]]) <= Capacity[LevelOf[j]]

HasRoom(j) == ~closed /\ Len(queue[LevelOf[j]]) < Capacity[LevelOf[j]]

(* submit. A request that finds no room, or the dispatcher closed, is      *)
(* refused and changes nothing.                                            *)
Submit(j) ==
  /\ ~Queued(j) /\ ~Running(j)
  /\ HasRoom(j)
  /\ queue' = [queue EXCEPT ![LevelOf[j]] = Append(@, j)]
  /\ UNCHANGED <<doing, closed>>

Serves(w) == IF w = Foreground THEN {"high"} ELSE Levels

(* The queue a worker pops from.                                           *)
PopsFrom(w, l) ==
  /\ l \in Serves(w)
  /\ queue[l] # <<>>
  /\ \A k \in Serves(w) : Rank[k] < Rank[l] => queue[k] = <<>>

Take(w) ==
  \E l \in Levels :
    /\ doing[w] = Idle
    /\ PopsFrom(w, l)
    /\ doing' = [doing EXCEPT ![w] = Head(queue[l])]
    /\ queue' = [queue EXCEPT ![l] = Tail(@)]
    /\ UNCHANGED closed

Finish(w) ==
  /\ doing[w] \in Jobs
  /\ doing' = [doing EXCEPT ![w] = Idle]
  /\ UNCHANGED <<queue, closed>>

(* shutdown up to the joining of the workers.                              *)
Close ==
  /\ ~closed
  /\ closed' = TRUE
  /\ UNCHANGED <<queue, doing>>

(* Mutant: the closed dispatcher is left with requests in its queues.      *)
LeaveAtOnce(w) ==
  /\ doing[w] = Idle /\ closed
  /\ doing' = [doing EXCEPT ![w] = Gone]
  /\ UNCHANGED <<queue, closed>>

(* A worker returns when the dispatcher is closed and it finds no job.     *)
Leave(w) ==
  /\ doing[w] = Idle /\ closed
  /\ \A l \in Serves(w) : queue[l] = <<>>
  /\ doing' = [doing EXCEPT ![w] = Gone]
  /\ UNCHANGED <<queue, closed>>

-----------------------------------------------------------------------------
(* The variables have their types and no queue exceeds its capacity.       *)
TypeOK ==
  /\ queue \in [Levels -> Seq(Jobs)]
  /\ \A l \in Levels : Len(queue[l]) <= Capacity[l]
  /\ doing \in [Workers -> Jobs \cup {Idle, Gone}]
  /\ closed \in BOOLEAN
=============================================================================
