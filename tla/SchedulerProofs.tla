--------------------------- MODULE SchedulerProofs ---------------------------
(***************************************************************************)
(* Theorems about the permit scheduler for any finite set of permit ids,   *)
(* any pools, limits, sessions, clock readings and lifetimes.              *)
(***************************************************************************)
EXTENDS Scheduler, FiniteSetTheorems, TLAPS

(* The combinatorial core of the capacity argument. If in every group out  *)
(* of U some member's limit covers the group, and a newcomer's limit       *)
(* covers U and itself, then the same holds out of U and the newcomer.     *)
LEMMA NewcomerKeepsGroupsCovered ==
  ASSUME NEW U, IsFiniteSet(U), NEW limit, NEW i, i \notin U,
         limit[i] \in Nat,
         Cardinality(U) < limit[i],
         \A S \in SUBSET U : S # {} => \E j \in S : Cardinality(S) <= limit[j],
         NEW T \in SUBSET (U \cup {i}), T # {}
  PROVE  \E j \in T : Cardinality(T) <= limit[j]
<1>1. CASE i \notin T
  BY <1>1
<1>2. CASE i \in T
  <2>1. IsFiniteSet(U \cup {i}) /\ Cardinality(U \cup {i}) = Cardinality(U) + 1
    BY FS_AddElement
  <2>2. Cardinality(T) <= Cardinality(U \cup {i})
    BY <2>1, FS_Subset
  <2>3. Cardinality(U) \in Nat /\ Cardinality(T) \in Nat
    BY <2>1, FS_Subset, FS_CardinalityType
  <2>4. Cardinality(T) <= limit[i]
    BY <2>1, <2>2, <2>3
  <2>5. QED
    BY <1>2, <2>4
<1>3. QED
  BY <1>1, <1>2

-----------------------------------------------------------------------------

(* The shapes the proofs below need: what Absent is, and that a clamped    *)
(* lifetime is positive.                                                   *)
LEMMA AbsentClaimsNothing ==
  /\ Absent.claims = NoClaim /\ Absent.expiresAt = 0
  /\ NoClaim \notin Claims
  /\ \A k \in Pools : NoClaim[k] = 0
BY DEF Absent, NoClaim, Claims

LEMMA ClampTtlPositive ==
  ASSUME NEW t \in Nat PROVE ClampTtl(t) \in Nat /\ ClampTtl(t) > 0
BY SchedulerAssumption DEF ClampTtl

LEMMA ExpireLockedType ==
  ASSUME TypeOK, NEW now \in Clock
  PROVE  /\ ExpireLocked(permits, now) \in [PermitIds -> PermitRecord \cup {Absent}]
         /\ \A i \in PermitIds : \/ ExpireLocked(permits, now)[i] = permits[i]
                                 \/ ExpireLocked(permits, now)[i] = Absent
         /\ \A i \in PermitIds : ExpireLocked(permits, now)[i] # Absent =>
                                     ExpireLocked(permits, now)[i].expiresAt > 0
BY DEF TypeOK, ExpireLocked, Present

(* Type correctness: the table always maps each id to Absent or to a       *)
(* well-formed permit.                                                     *)
THEOREM SchedulerTypeOK == Spec => []TypeOK
<1>1. Init => TypeOK
  BY DEF Init, TypeOK, Present
<1>2. TypeOK /\ [Next]_vars => TypeOK'
  <2> SUFFICES ASSUME TypeOK, [Next]_vars PROVE TypeOK'
    OBVIOUS
  <2> USE DEF TypeOK, Present
  <2>1. ASSUME NEW id \in PermitIds, NEW c \in Claims, NEW ttl \in TtlRequests,
               NEW now \in Clock, Acquire(id, c, ttl, now)
        PROVE TypeOK'
    <3>1. [claims |-> c, session |-> NoSession, expiresAt |-> now + ClampTtl(ttl)]
             \in PermitRecord
          /\ now + ClampTtl(ttl) > 0
      BY ClampTtlPositive, SchedulerAssumption DEF PermitRecord
    <3>2. QED
      BY <2>1, <3>1, ExpireLockedType DEF Acquire
  <2>2. ASSUME NEW id \in PermitIds, NEW ttl \in TtlRequests, NEW now \in Clock,
               Heartbeat(id, ttl, now)
        PROVE TypeOK'
    <3>1. now + ClampTtl(ttl) \in Nat /\ now + ClampTtl(ttl) > 0
      BY ClampTtlPositive, SchedulerAssumption
    <3>2. QED
      BY <2>2, <3>1, ExpireLockedType DEF Heartbeat, PermitRecord
  <2>3. ASSUME NEW id \in PermitIds, NEW s \in Sessions, NEW now \in Clock,
               Bind(id, s, now)
        PROVE TypeOK'
    BY <2>3, ExpireLockedType DEF Bind, PermitRecord
  <2>4. ASSUME NEW id \in PermitIds, Release(id) PROVE TypeOK'
    BY <2>4 DEF Release
  <2>5. ASSUME NEW now \in Clock, Look(now) PROVE TypeOK'
    BY <2>5, ExpireLockedType DEF Look
  <2>6. CASE UNCHANGED vars
    BY <2>6 DEF vars
  <2>7. QED
    BY <2>1, <2>2, <2>3, <2>4, <2>5, <2>6 DEF Next
<1>3. QED
  BY <1>1, <1>2, PTL DEF Spec

-----------------------------------------------------------------------------
(* Capacity. Covered is HereditaryCapacity stated of a table, so that it   *)
(* can also be said of the intermediate table a call works on after        *)
(* expiring permits.                                                       *)

Covered(table) ==
  \A k \in Pools : \A S \in SUBSET Users(table, k) :
     S # {} => \E i \in S : Cardinality(S) <= table[i].claims[k]

Tables == [PermitIds -> PermitRecord \cup {Absent}]

LEMMA ClaimsAreLimits ==
  ASSUME NEW table \in Tables, NEW i \in PermitIds, NEW k \in Pools
  PROVE  /\ table[i].claims[k] \in Nat
         /\ table[i].claims[k] > 0 => table[i] # Absent
BY AbsentClaimsNothing, SchedulerAssumption DEF Tables, PermitRecord, Claims, NoClaim

(* PermitPool brings in its own copy of FiniteSets; it counts the same.    *)
LEMMA PoolCardinality == \A S : Pool!Cardinality(S) = Cardinality(S)
BY Zenon DEF Pool!Cardinality, Cardinality

LEMMA CoveredIsHereditaryCapacity ==
  ASSUME permits \in Tables
  PROVE  Covered(permits) <=> HereditaryCapacity
<1>1. \A k \in Pools : Pool!Users(Present(permits), claimed, k) = Users(permits, k)
  BY ClaimsAreLimits DEF Pool!Users, Users, Present, claimed
<1>2. \A k \in Pools : \A i \in Users(permits, k) :
          claimed[i][k] = permits[i].claims[k]
  BY DEF claimed, Users
<1>3. QED
  BY <1>1, <1>2, PoolCardinality DEF HereditaryCapacity, Pool!HereditaryCapacity, Covered

(* A call that only removes permits or changes fields other than their     *)
(* claims keeps every group covered.                                       *)
LEMMA ShrinkingKeepsCovered ==
  ASSUME NEW old \in Tables, NEW new \in Tables, Covered(old),
         \A i \in PermitIds : new[i].claims = old[i].claims \/ new[i] = Absent
  PROVE  Covered(new)
<1> SUFFICES ASSUME NEW k \in Pools, NEW S \in SUBSET Users(new, k), S # {}
             PROVE  \E i \in S : Cardinality(S) <= new[i].claims[k]
  BY DEF Covered
<1>1. \A i \in S : i \in PermitIds /\ new[i].claims = old[i].claims
  BY ClaimsAreLimits DEF Users
<1>2. S \in SUBSET Users(old, k)
  BY <1>1 DEF Users
<1>3. PICK i \in S : Cardinality(S) <= old[i].claims[k]
  BY <1>2 DEF Covered
<1>4. QED
  BY <1>1, <1>3

(* A grant: an absent id gets claims every one of whose pools has room.    *)
LEMMA GrantKeepsCovered ==
  ASSUME NEW old \in Tables, NEW new \in Tables, NEW id \in PermitIds,
         Covered(old), old[id] = Absent, HasRoom(old, new[id].claims),
         \A i \in PermitIds \ {id} : new[i] = old[i]
  PROVE  Covered(new)
<1> SUFFICES ASSUME NEW k \in Pools, NEW S \in SUBSET Users(new, k), S # {}
             PROVE  \E i \in S : Cardinality(S) <= new[i].claims[k]
  BY DEF Covered
<1> DEFINE U == Users(old, k)
           limit == [i \in PermitIds |-> new[i].claims[k]]
<1>1. id \notin U /\ U \subseteq PermitIds
  BY AbsentClaimsNothing DEF Users
<1>2. IsFiniteSet(U)
  BY <1>1, SchedulerAssumption, FS_Subset
<1>3. Users(new, k) \subseteq U \cup {id}
  BY DEF Users
<1>4. \A T \in SUBSET U : T # {} => \E j \in T : Cardinality(T) <= limit[j]
  BY <1>1 DEF Covered
<1>5. CASE id \in Users(new, k)
  <2>1. limit[id] \in Nat /\ limit[id] > 0
    BY <1>5, ClaimsAreLimits DEF Users
  <2>2. Cardinality(U) < limit[id]
    BY <2>1 DEF HasRoom
  <2>3. S \in SUBSET (U \cup {id})
    BY <1>3
  <2> HIDE DEF U, limit
  <2>4. \E j \in S : Cardinality(S) <= limit[j]
    BY <1>1, <1>2, <1>4, <2>1, <2>2, <2>3, NewcomerKeepsGroupsCovered
  <2>5. QED
    BY <2>4, <2>3, <1>1 DEF limit
<1>6. CASE id \notin Users(new, k)
  <2>1. S \in SUBSET U
    BY <1>3, <1>6
  <2>2. PICK j \in S : Cardinality(S) <= limit[j]
    BY <1>4, <2>1
  <2>3. QED
    BY <2>2, <2>1, <1>1
<1>7. QED
  BY <1>5, <1>6

LEMMA ExpiryKeepsCovered ==
  ASSUME permits \in Tables, Covered(permits), NEW now \in Clock
  PROVE  /\ ExpireLocked(permits, now) \in Tables
         /\ Covered(ExpireLocked(permits, now))
<1>1. ExpireLocked(permits, now) \in Tables
  BY DEF ExpireLocked, Tables
<1>2. \A i \in PermitIds :
         \/ ExpireLocked(permits, now)[i].claims = permits[i].claims
         \/ ExpireLocked(permits, now)[i] = Absent
  BY DEF ExpireLocked
<1>3. QED
  BY <1>1, <1>2, ShrinkingKeepsCovered

(* Every group of permits sharing a pool stays within the limit of one of  *)
(* them, in every reachable state.                                         *)
THEOREM SchedulerHereditaryCapacity == Spec => []HereditaryCapacity
<1> DEFINE Inv == Covered(permits)
<1>1. Init => Inv
  BY AbsentClaimsNothing DEF Init, Covered, Users
<1>2. TypeOK /\ TypeOK' /\ Inv /\ [Next]_vars => Inv'
  <2> SUFFICES ASSUME TypeOK, TypeOK', Inv, [Next]_vars PROVE Inv'
    OBVIOUS
  <2>0. permits \in Tables /\ permits' \in Tables
    BY DEF TypeOK, Tables
  <2>a. ASSUME NEW now \in Clock,
               \A i \in PermitIds :
                  \/ permits'[i].claims = ExpireLocked(permits, now)[i].claims
                  \/ permits'[i] = Absent
        PROVE Inv'
    BY <2>0, <2>a, ExpiryKeepsCovered, ShrinkingKeepsCovered
  <2>1. ASSUME NEW id \in PermitIds, NEW c \in Claims, NEW ttl \in TtlRequests,
               NEW now \in Clock, Acquire(id, c, ttl, now)
        PROVE Inv'
    <3> DEFINE table == ExpireLocked(permits, now)
    <3>0. table \in Tables /\ Covered(table)
      BY <2>0, ExpiryKeepsCovered
    <3>1. CASE permits' = table
      BY <3>1, <2>a
    <3>2. CASE /\ table[id] = Absent
               /\ HasRoom(table, c)
               /\ permits' = [table EXCEPT ![id] =
                    [claims |-> c, session |-> NoSession,
                     expiresAt |-> now + ClampTtl(ttl)]]
      <4>1. /\ permits'[id].claims = c
            /\ \A i \in PermitIds \ {id} : permits'[i] = table[i]
        BY <3>0, <3>2 DEF Tables
      <4>2. table[id] = Absent /\ HasRoom(table, permits'[id].claims)
        BY <3>2, <4>1
      <4> HIDE DEF table
      <4>3. Covered(permits')
        BY <2>0, <3>0, <4>1, <4>2, GrantKeepsCovered
      <4>4. QED
        BY <4>3
    <3>3. QED
      BY <2>1, <3>1, <3>2 DEF Acquire
  <2>2. ASSUME NEW id \in PermitIds, NEW ttl \in TtlRequests, NEW now \in Clock,
               Heartbeat(id, ttl, now)
        PROVE Inv'
    BY <2>2, <2>0, <2>a, ExpiryKeepsCovered DEF Heartbeat, Tables, PermitRecord
  <2>3. ASSUME NEW id \in PermitIds, NEW s \in Sessions, NEW now \in Clock,
               Bind(id, s, now)
        PROVE Inv'
    BY <2>3, <2>0, <2>a, ExpiryKeepsCovered DEF Bind, Tables, PermitRecord
  <2>4. ASSUME NEW id \in PermitIds, Release(id) PROVE Inv'
    <3>1. \A i \in PermitIds : permits'[i] = permits[i] \/ permits'[i] = Absent
      BY <2>4, <2>0 DEF Release, Tables
    <3>2. QED
      BY <2>0, <3>1, ShrinkingKeepsCovered
  <2>5. ASSUME NEW now \in Clock, Look(now) PROVE Inv'
    BY <2>5, <2>a DEF Look
  <2>6. CASE UNCHANGED vars
    BY <2>6 DEF vars, Covered, Users
  <2>7. QED
    BY <2>1, <2>2, <2>3, <2>4, <2>5, <2>6 DEF Next
<1>3. TypeOK /\ Inv => HereditaryCapacity
  BY CoveredIsHereditaryCapacity DEF TypeOK, Tables
<1>4. QED
  BY <1>1, <1>2, <1>3, SchedulerTypeOK, PTL DEF Spec

(* Every pool stays within the limit of one of the permits in it: the      *)
(* capacity test of acquire cannot be defeated by requests with different  *)
(* limits, by expiry, or by releases in any order.                         *)
THEOREM SchedulerCapacity == Spec => []CapacityRespected
<1>1. HereditaryCapacity => CapacityRespected
  BY DEF HereditaryCapacity, Pool!HereditaryCapacity, CapacityRespected,
         Pool!CapacityRespected
<1>2. QED
  BY <1>1, SchedulerHereditaryCapacity, PTL

-----------------------------------------------------------------------------
(* Refinement. The permits a step removes are the ones in the table before *)
(* it and not after it.                                                    *)

Gone == Present(permits) \ Present(permits')

LEMMA PresentClaims ==
  ASSUME NEW table \in Tables, NEW i \in PermitIds
  PROVE  /\ i \in Present(table) <=> table[i].claims # NoClaim
         /\ i \notin Present(table) <=> table[i].claims = NoClaim
         /\ table[i].claims \in Claims \cup {NoClaim}
BY AbsentClaimsNothing DEF Present, Tables, PermitRecord

LEMMA ShrinkingIsDrop ==
  ASSUME permits \in Tables, permits' \in Tables,
         \A i \in PermitIds :
            permits'[i].claims = permits[i].claims \/ permits'[i] = Absent
  PROVE  Pool!Drop(Gone) /\ Gone \in SUBSET Present(permits)
<1>1. Present(permits)' = Present(permits) \ Gone
  BY PresentClaims, AbsentClaimsNothing DEF Gone, Present
<1>2. \A i \in PermitIds : i \in Gone => permits'[i].claims = NoClaim
  BY PresentClaims, AbsentClaimsNothing DEF Gone, Present
<1>3. \A i \in PermitIds : i \notin Gone => permits'[i].claims = permits[i].claims
  BY PresentClaims, AbsentClaimsNothing DEF Gone, Present
<1>4. claimed' = [i \in PermitIds |-> IF i \in Gone THEN Pool!NoClaim ELSE claimed[i]]
  BY <1>2, <1>3 DEF claimed, Pool!NoClaim, NoClaim
<1>5. QED
  BY <1>1, <1>4 DEF Pool!Drop, Gone

LEMMA AcquiringIsGrant ==
  ASSUME permits \in Tables, permits' \in Tables, NEW table \in Tables,
         NEW id \in PermitIds, NEW c \in Claims,
         \A i \in PermitIds : table[i] = permits[i] \/ table[i] = Absent,
         table[id] = Absent, HasRoom(table, c), permits'[id].claims = c,
         \A i \in PermitIds \ {id} : permits'[i] = table[i]
  PROVE  \E gone \in SUBSET Present(permits) : Pool!Grant(id, c, gone)
<1> DEFINE gone == Present(permits) \ Present(table)
<1>1. Present(permits) \ gone = Present(table)
  BY DEF Present
<1>2. id \notin Present(table) /\ id \in Present(permits')
  BY PresentClaims, AbsentClaimsNothing
<1>3. Present(permits') = Present(table) \cup {id}
  BY <1>2 DEF Present
<1>4. \A i \in PermitIds : i \notin gone => table[i].claims = permits[i].claims
  BY DEF Present
<1>5. \A k \in Pools : Pool!Users(Present(table), claimed, k) = Users(table, k)
  <2>1. \A k \in Pools, i \in PermitIds :
           table[i].claims[k] > 0 => i \in Present(table)
    BY ClaimsAreLimits DEF Present
  <2>2. \A i \in Present(table) : claimed[i] = table[i].claims
    BY <1>4 DEF claimed, Present
  <2>3. QED
    BY <2>1, <2>2 DEF Pool!Users, Users, Present
<1>6. Pool!HasRoom(Present(table), claimed, c)
  BY <1>5, PoolCardinality DEF HasRoom, Pool!HasRoom
<1>7. \A i \in PermitIds : i \in gone /\ i # id => permits'[i].claims = NoClaim
  BY AbsentClaimsNothing DEF Present
<1>8. claimed' = [i \in PermitIds |-> IF i = id THEN c
                                       ELSE IF i \in gone THEN Pool!NoClaim
                                       ELSE claimed[i]]
  BY <1>4, <1>7 DEF claimed, Pool!NoClaim, NoClaim
<1>9. Pool!Grant(id, c, gone)
  BY <1>1, <1>2, <1>3, <1>6, <1>8 DEF Pool!Grant
<1>10. QED
  BY <1>9

(* The scheduler implements the permit pool: with any clock readings, any  *)
(* requested limits and lifetimes, each call is a grant into pools that    *)
(* have room or a disappearance of permits.                                *)
THEOREM SchedulerImplementsPool == Spec => ImplementsPool
<1>1. Init => Pool!Init
  BY AbsentClaimsNothing DEF Init, Pool!Init, Present, claimed, Pool!NoClaim, NoClaim
<1>2. TypeOK /\ TypeOK' /\ [Next]_vars => [Pool!Next]_(Pool!poolVars)
  <2> SUFFICES ASSUME TypeOK, TypeOK', [Next]_vars
               PROVE  [Pool!Next]_(Pool!poolVars)
    OBVIOUS
  <2>0. permits \in Tables /\ permits' \in Tables
    BY DEF TypeOK, Tables
  <2>a. ASSUME \A i \in PermitIds :
                  permits'[i].claims = permits[i].claims \/ permits'[i] = Absent
        PROVE  Pool!Next
    BY <2>0, <2>a, ShrinkingIsDrop DEF Pool!Next
  <2>b. ASSUME NEW now \in Clock
        PROVE  /\ ExpireLocked(permits, now) \in Tables
               /\ \A i \in PermitIds : \/ ExpireLocked(permits, now)[i] = permits[i]
                                       \/ ExpireLocked(permits, now)[i] = Absent
    BY ExpireLockedType DEF Tables
  <2>1. ASSUME NEW id \in PermitIds, NEW c \in Claims, NEW ttl \in TtlRequests,
               NEW now \in Clock, Acquire(id, c, ttl, now)
        PROVE  Pool!Next
    <3> DEFINE table == ExpireLocked(permits, now)
    <3>1. CASE permits' = table
      BY <3>1, <2>a, <2>b
    <3>2. CASE /\ table[id] = Absent
               /\ HasRoom(table, c)
               /\ permits' = [table EXCEPT ![id] =
                    [claims |-> c, session |-> NoSession,
                     expiresAt |-> now + ClampTtl(ttl)]]
      <4>1. /\ permits'[id].claims = c
            /\ \A i \in PermitIds \ {id} : permits'[i] = table[i]
        BY <2>b, <3>2 DEF Tables
      <4>2. table \in Tables /\ table[id] = Absent /\ HasRoom(table, c)
        BY <2>b, <3>2
      <4>3. \A i \in PermitIds : table[i] = permits[i] \/ table[i] = Absent
        BY <2>b
      <4> HIDE DEF table
      <4>4. \E gone \in SUBSET Present(permits) : Pool!Grant(id, c, gone)
        BY <2>0, <4>1, <4>2, <4>3, AcquiringIsGrant
      <4>5. c \in Pool!Claims
        BY DEF Claims, Pool!Claims
      <4>6. QED
        BY <4>4, <4>5 DEF Pool!Next
    <3>3. QED
      BY <2>1, <3>1, <3>2 DEF Acquire
  <2>2. ASSUME NEW id \in PermitIds, NEW ttl \in TtlRequests, NEW now \in Clock,
               Heartbeat(id, ttl, now)
        PROVE  Pool!Next
    BY <2>2, <2>0, <2>a, <2>b DEF Heartbeat, Tables, PermitRecord
  <2>3. ASSUME NEW id \in PermitIds, NEW s \in Sessions, NEW now \in Clock,
               Bind(id, s, now)
        PROVE  Pool!Next
    BY <2>3, <2>0, <2>a, <2>b DEF Bind, Tables, PermitRecord
  <2>4. ASSUME NEW id \in PermitIds, Release(id) PROVE Pool!Next
    BY <2>4, <2>0, <2>a DEF Release, Tables
  <2>5. ASSUME NEW now \in Clock, Look(now) PROVE Pool!Next
    BY <2>5, <2>a, <2>b DEF Look
  <2>6. CASE UNCHANGED vars
    BY <2>6 DEF vars, Pool!poolVars, Present, claimed
  <2>7. QED
    BY <2>1, <2>2, <2>3, <2>4, <2>5, <2>6 DEF Next
<1>3. QED
  BY <1>1, <1>2, SchedulerTypeOK, PTL DEF Spec, Pool!Spec, ImplementsPool

(* A permit leaves the table, or has its claims replaced, only by its own  *)
(* release or when a call's clock reading has reached its expiry.          *)
THEOREM SchedulerLeaseHonoured == Spec => LeaseHonoured
<1> DEFINE Honoured == \A i \in Present(permits) :
                          \/ permits'[i].claims = permits[i].claims
                          \/ Release(i)
                          \/ permits[i].expiresAt <= observed'
<1>1. TypeOK /\ [Next]_vars => Honoured
  <2> SUFFICES ASSUME TypeOK, [Next]_vars, NEW i \in Present(permits),
                      ~(permits[i].expiresAt <= observed')
               PROVE  permits'[i].claims = permits[i].claims \/ Release(i)
    OBVIOUS
  <2>0. permits[i].expiresAt > observed'
    <3>1. permits[i].expiresAt \in Nat
      BY DEF TypeOK, Present, PermitRecord
    <3>2. observed' \in Clock
      BY DEF TypeOK, vars, Next, Acquire, Heartbeat, Bind, Release, Look
    <3>3. QED
      BY <3>1, <3>2, SchedulerAssumption
  <2> USE DEF TypeOK, Present, PermitRecord, ExpireLocked
  <2>1. ASSUME NEW id \in PermitIds, NEW c \in Claims, NEW ttl \in TtlRequests,
               NEW now \in Clock, Acquire(id, c, ttl, now)
        PROVE  permits'[i].claims = permits[i].claims
    BY <2>0, <2>1 DEF Acquire
  <2>2. ASSUME NEW id \in PermitIds, NEW ttl \in TtlRequests, NEW now \in Clock,
               Heartbeat(id, ttl, now)
        PROVE  permits'[i].claims = permits[i].claims
    BY <2>0, <2>2 DEF Heartbeat
  <2>3. ASSUME NEW id \in PermitIds, NEW s \in Sessions, NEW now \in Clock,
               Bind(id, s, now)
        PROVE  permits'[i].claims = permits[i].claims
    BY <2>0, <2>3 DEF Bind
  <2>4. ASSUME NEW id \in PermitIds, Release(id)
        PROVE  permits'[i].claims = permits[i].claims \/ Release(i)
    BY <2>4 DEF Release
  <2>5. ASSUME NEW now \in Clock, Look(now)
        PROVE  permits'[i].claims = permits[i].claims
    BY <2>0, <2>5 DEF Look
  <2>6. CASE UNCHANGED vars
    BY <2>6 DEF vars
  <2>7. QED
    BY <2>1, <2>2, <2>3, <2>4, <2>5, <2>6 DEF Next
<1>2. TypeOK /\ [Next]_vars => [Honoured]_vars
  BY <1>1
<1>3. QED
  BY <1>2, SchedulerTypeOK, PTL DEF Spec, LeaseHonoured
=============================================================================
