--------------------------- MODULE ManagedProcess ---------------------------
(***************************************************************************)
(* crates/nd-runtime/src/process.rs: the children nd-core runs for the     *)
(* desktop, its registry of them, the thread that waits for each one, and  *)
(* the leases (scheduler.rs) they run under. A child stands for its        *)
(* process group: it is dead when nobody holds its pipes any more.         *)
(* The desktop draws a random id for every child, so ids do not collide.   *)
(***************************************************************************)
EXTENDS FiniteSets

CONSTANTS
  Procs,
  Permits,
  PermitOf,   \* the permit a child is started under, or NoPermit
  NoPermit

VARIABLES
  lease,       \* of each permit; a stale one expires unless it is renewed
  os,          \* what the operating system runs
  registered,  \* ProcessManager.processes
  waiter,      \* the wait thread of each child
  told         \* children whose process.exit was sent

processVars == <<lease, os, registered, waiter, told>>

Init ==
  /\ lease = [r \in Permits |-> "none"]
  /\ os = [p \in Procs |-> "none"]
  /\ registered = {} /\ told = {}
  /\ waiter = [p \in Procs |-> "none"]

HasPermit(r) == lease[r] \in {"fresh", "stale"}

(* The permit of a child, if it has one, is held.                          *)
Admits(p) == PermitOf[p] # NoPermit => HasPermit(PermitOf[p])

SetLease(r, l) ==
  /\ lease' = [lease EXCEPT ![r] = l]
  /\ UNCHANGED <<os, registered, waiter, told>>

Grant(r) == lease[r] = "none" /\ SetLease(r, "fresh")
Renew(r) == SetLease(r, IF HasPermit(r) THEN "fresh" ELSE lease[r])
GiveBack(r) == SetLease(r, "gone")
Lapse(r) ==
  \/ lease[r] = "fresh" /\ SetLease(r, "stale")
  \/ lease[r] = "stale" /\ SetLease(r, "gone")

(* command.spawn: the child runs, and nothing knows it yet.                *)
Start(p) ==
  /\ os[p] = "none"
  /\ os' = [os EXCEPT ![p] = "alive"]
  /\ UNCHANGED <<lease, registered, waiter, told>>

(* Mutant: no wait thread is started.                                      *)
RegisterUnwatched(p) ==
  /\ registered' = registered \cup {p}
  /\ UNCHANGED <<lease, os, waiter, told>>

(* The child is registered and its wait thread started.                    *)
Register(p) ==
  /\ registered' = registered \cup {p}
  /\ waiter' = [waiter EXCEPT ![p] = "watching"]
  /\ UNCHANGED <<lease, os, told>>

Exits(p) ==
  /\ os[p] = "alive"
  /\ os' = [os EXCEPT ![p] = "dead"]
  /\ UNCHANGED <<lease, registered, waiter, told>>

Children(S) == {p \in S \cap registered : os[p] = "alive"}

(* Mutant: a cancelled child is struck off the registry at once.           *)
CancelStrikes(S) ==
  /\ os' = [p \in Procs |-> IF p \in Children(S) THEN "dead" ELSE os[p]]
  /\ registered' = registered \ S
  /\ UNCHANGED <<lease, waiter, told>>

(* cancel of several ids: those that are registered are killed.            *)
Cancel(S) ==
  /\ os' = [p \in Procs |-> IF p \in Children(S) THEN "dead" ELSE os[p]]
  /\ UNCHANGED <<lease, registered, waiter, told>>

(* Mutant: the wait thread leaves leases to those who release them.        *)
WaiterNeverCancels(p) == FALSE /\ Cancel({p})

(* The wait thread finds the permit of its child gone.                     *)
WaiterCancels(p) ==
  /\ waiter[p] = "watching" /\ os[p] = "alive"
  /\ p \in registered /\ ~Admits(p)
  /\ Cancel({p})

(* Mutant: an error of try_wait ends the wait thread.                      *)
WaiterGivesUp(p) ==
  /\ waiter[p] = "watching" /\ os[p] # "none"
  /\ waiter' = [waiter EXCEPT ![p] = "done"]
  /\ registered' = registered \ {p}
  /\ told' = IF p \in registered THEN told \cup {p} ELSE told
  /\ UNCHANGED <<lease, os>>

(* The wait thread finds its child dead, strikes it off and says so.       *)
WaiterReaps(p) ==
  /\ waiter[p] = "watching" /\ os[p] = "dead"
  /\ waiter' = [waiter EXCEPT ![p] = "done"]
  /\ registered' = registered \ {p}
  /\ told' = IF p \in registered THEN told \cup {p} ELSE told
  /\ UNCHANGED <<lease, os>>

ProcessTypeOK ==
  /\ lease \in [Permits -> {"none", "fresh", "stale", "gone"}]
  /\ os \in [Procs -> {"none", "alive", "dead"}]
  /\ registered \subseteq Procs /\ told \subseteq Procs
  /\ waiter \in [Procs -> {"none", "watching", "done"}]
=============================================================================
