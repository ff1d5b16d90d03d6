----------------------------- MODULE PermitPool -----------------------------
(***************************************************************************)
(* What the runtime permit scheduler of nd-core promises to its clients,   *)
(* with no clock and no table layout: a set of live permits, each claiming *)
(* one place in some pools under the limit its own request named, that     *)
(* may vanish at any time (release or expiry) but that are only ever       *)
(* granted while every claimed pool still has room.                        *)
(*                                                                         *)
(* Limits belong to requests, not to pools: two requests may name          *)
(* different limits for the same pool (the organization's settings change  *)
(* between them), so "the pool is never over its limit" has to be said     *)
(* about the limits of the permits that are live.                          *)
(***************************************************************************)
EXTENDS Integers, FiniteSets

CONSTANTS
  PermitIds,   \* identities a permit can carry
  Pools,       \* pool keys
  MaxLimit     \* largest limit a claim may name

VARIABLES
  live,        \* ids of the permits that count
  claim        \* the claims each live permit was granted with

poolVars == <<live, claim>>

(* A request names a limit of at least 1 for each pool it claims; 0 says   *)
(* that the pool is not claimed.                                           *)
Claims == {c \in [Pools -> 0 .. MaxLimit] : \E k \in Pools : c[k] > 0}

NoClaim == [k \in Pools |-> 0]

Users(S, c, k) == {i \in S : c[i][k] > 0}

(* Every claimed pool has fewer users among S than the request's limit.    *)
HasRoom(S, c, new) ==
  \A k \in Pools : new[k] > 0 => Cardinality(Users(S, c, k)) < new[k]

Init ==
  /\ live = {}
  /\ claim = [i \in PermitIds |-> NoClaim]

(* Permits in gone stop counting; id starts to, if there is room for it.   *)
Grant(id, new, gone) ==
  /\ id \notin live \ gone
  /\ HasRoom(live \ gone, claim, new)
  /\ live' = (live \ gone) \cup {id}
  /\ claim' = [i \in PermitIds |-> IF i = id THEN new
                                   ELSE IF i \in gone THEN NoClaim
                                   ELSE claim[i]]

Drop(gone) ==
  /\ live' = live \ gone
  /\ claim' = [i \in PermitIds |-> IF i \in gone THEN NoClaim ELSE claim[i]]

Next ==
  \E gone \in SUBSET live :
     \/ Drop(gone)
     \/ \E id \in PermitIds, new \in Claims : Grant(id, new, gone)

Spec == Init /\ [][Next]_poolVars

-----------------------------------------------------------------------------

(* However many permits share a pool, the limit of one of them covers them *)
(* all: nobody was let into a pool that was already full for its request.  *)
CapacityRespected ==
  \A k \in Pools :
     LET users == Users(live, claim, k) IN
     users # {} => \E i \in users : Cardinality(users) <= claim[i][k]

(* CapacityRespected is not inductive: a permit with the largest limit may *)
(* leave first. What every grant preserves is the same statement about     *)
(* every group of users, since dropping permits only removes groups.       *)
HereditaryCapacity ==
  \A k \in Pools :
     \A S \in SUBSET Users(live, claim, k) :
        S # {} => \E i \in S : Cardinality(S) <= claim[i][k]
=============================================================================
