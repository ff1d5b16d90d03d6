------------------------------ MODULE Scheduler ------------------------------
(***************************************************************************)
(* crates/nd-runtime/src/scheduler.rs: the permit table of nd-core.        *)
(*                                                                         *)
(* Every call holds the table's mutex from its first look at the table to  *)
(* its last, so a call is one action. The wall clock is another matter:    *)
(* now_ms() is read before the mutex is taken and comes from SystemTime,   *)
(* so the readings successive calls work with may repeat, go back or jump. *)
(* There is therefore no clock variable: each call works with a reading    *)
(* `now` of its own, any member of Clock.                                  *)
(*                                                                         *)
(* Left out: company, project, task, run and agent ids and the kind of a   *)
(* permit (copied, never tested), acquired_at and heartbeat_at (reported   *)
(* by snapshot, never tested), length checks of ids.                       *)
(***************************************************************************)
EXTENDS Integers, FiniteSets

CONSTANTS
  PermitIds,   \* permit ids clients use
  Pools,       \* pool keys
  MaxLimit,    \* largest pool limit (1024 in the code)
  Sessions,    \* engine sessions a permit may be bound to
  Clock,       \* wall-clock readings
  TtlRequests, \* values of ttl_ms in requests
  MinTtl,      \* lower bound of the clamp (5_000)
  MaxTtl       \* upper bound of the clamp (3_600_000)

ASSUME SchedulerAssumption ==
  /\ IsFiniteSet(PermitIds)
  /\ MaxLimit \in Nat \ {0}
  /\ Clock \subseteq Nat
  /\ TtlRequests \subseteq Nat
  /\ MinTtl \in Nat \ {0}
  /\ MaxTtl \in Nat
  /\ MinTtl <= MaxTtl

VARIABLES
  permits,     \* the table: a record, or Absent, for each id
  observed     \* history: the clock reading the last call worked with

vars == <<permits, observed>>

NoSession == "none"

(* 0 is "pool not claimed": the code refuses a request that names limit 0, *)
(* claims no pool, or claims one twice.                                    *)
Claims == {c \in [Pools -> 0 .. MaxLimit] : \E k \in Pools : c[k] > 0}

NoClaim == [k \in Pools |-> 0]

(* An absent permit is a record of its own shape, so the table is a total  *)
(* function; it claims nothing.                                            *)
Absent == [claims |-> NoClaim, session |-> NoSession, expiresAt |-> 0]

PermitRecord ==
  [claims : Claims, session : Sessions \cup {NoSession}, expiresAt : Nat]

Present(table) == {i \in PermitIds : table[i] # Absent}

ClampTtl(t) == IF t < MinTtl THEN MinTtl ELSE IF t > MaxTtl THEN MaxTtl ELSE t

(* retain(|_, permit| permit.expires_at > now) *)
ExpireLocked(table, now) ==
  [i \in PermitIds |-> IF table[i].expiresAt > now THEN table[i] ELSE Absent]

(* Mutant: only bound permits occupy a place. *)
UsersBoundOnly(table, k) ==
  {i \in PermitIds : table[i].claims[k] > 0 /\ table[i].session # NoSession}

Users(table, k) == {i \in PermitIds : table[i].claims[k] > 0}

(* Mutant: one claimed pool with room is enough. *)
HasRoomInOnePool(table, claims) ==
  \E k \in Pools : claims[k] > 0 /\ Cardinality(Users(table, k)) < claims[k]

(* No claimed pool is at its requested limit. *)
HasRoom(table, claims) ==
  \A k \in Pools : claims[k] > 0 => Cardinality(Users(table, k)) < claims[k]

Init ==
  /\ permits = [i \in PermitIds |-> Absent]
  /\ observed \in Clock

(* Mutant: acquire without the contains_key test. *)
AcquireOverwriting(id, claims, ttl, now) ==
  LET table == ExpireLocked(permits, now) IN
  /\ observed' = now
  /\ permits' = IF HasRoom(table, claims)
                THEN [table EXCEPT ![id] =
                       [claims |-> claims, session |-> NoSession,
                        expiresAt |-> now + ClampTtl(ttl)]]
                ELSE table

(* acquire: expire, then refuse a known id, then refuse a full pool, then  *)
(* insert. Both refusals keep the effect of the expiry.                    *)
Acquire(id, claims, ttl, now) ==
  LET table == ExpireLocked(permits, now) IN
  /\ observed' = now
  /\ \/ /\ table[id] # Absent \/ ~HasRoom(table, claims)
        /\ permits' = table
     \/ /\ table[id] = Absent
        /\ HasRoom(table, claims)
        /\ permits' = [table EXCEPT ![id] =
             [claims |-> claims, session |-> NoSession,
              expiresAt |-> now + ClampTtl(ttl)]]

(* Mutant: heartbeat renews an entry that is not there. *)
HeartbeatUnchecked(id, ttl, now) ==
  /\ observed' = now
  /\ permits' = [ExpireLocked(permits, now) EXCEPT
                    ![id].expiresAt = now + ClampTtl(ttl)]

Heartbeat(id, ttl, now) ==
  LET table == ExpireLocked(permits, now) IN
  /\ observed' = now
  /\ permits' = IF table[id] = Absent THEN table
                ELSE [table EXCEPT ![id].expiresAt = now + ClampTtl(ttl)]

Bind(id, session, now) ==
  LET table == ExpireLocked(permits, now) IN
  /\ observed' = now
  /\ permits' = IF table[id] = Absent THEN table
                ELSE [table EXCEPT ![id].session = session]

(* release reads no clock and expires nothing. *)
Release(id) ==
  /\ permits' = [permits EXCEPT ![id] = Absent]
  /\ UNCHANGED observed

(* has_permit and snapshot: they answer from the table after expiring it.  *)
Look(now) ==
  /\ observed' = now
  /\ permits' = ExpireLocked(permits, now)

Next ==
  \/ \E id \in PermitIds, c \in Claims, ttl \in TtlRequests, now \in Clock :
        Acquire(id, c, ttl, now)
  \/ \E id \in PermitIds, ttl \in TtlRequests, now \in Clock :
        Heartbeat(id, ttl, now)
  \/ \E id \in PermitIds, s \in Sessions, now \in Clock : Bind(id, s, now)
  \/ \E id \in PermitIds : Release(id)
  \/ \E now \in Clock : Look(now)

Spec == Init /\ [][Next]_vars

-----------------------------------------------------------------------------
(* The abstract permit pool, seen through the table.                       *)

claimed == [i \in PermitIds |-> permits[i].claims]

Pool == INSTANCE PermitPool WITH live <- Present(permits), claim <- claimed

-----------------------------------------------------------------------------

(* Type invariant of the table: total, and each entry is Absent or a full  *)
(* record that claims at least one pool and has a positive expiry.         *)
TypeOK ==
  /\ permits \in [PermitIds -> PermitRecord \cup {Absent}]
  /\ \A i \in Present(permits) : permits[i].expiresAt > 0
  /\ observed \in Clock

(* The grant test of acquire (scheduler.rs: used >= claim.limit refuses)   *)
(* keeps every pool within the limit of one of the permits in it, although *)
(* requests may name different limits and permits leave in any order.      *)
CapacityRespected == Pool!CapacityRespected

(* The same for every group of permits sharing a pool, which is what makes *)
(* it survive the departure of the permit with the largest limit.          *)
HereditaryCapacity == Pool!HereditaryCapacity

(* A lease is honoured: a permit leaves the table, or has its claims       *)
(* replaced, only by its own release or by a call whose clock reading has  *)
(* reached the expiry recorded for it - never because somebody else        *)
(* acquired, renewed or bound something, or reused the id.                 *)
LeaseHonoured ==
  [][\A i \in Present(permits) :
        \/ permits'[i].claims = permits[i].claims
        \/ Release(i)
        \/ permits[i].expiresAt <= observed']_vars

(* The scheduler implements the permit pool.                               *)
ImplementsPool == Pool!Spec
=============================================================================
