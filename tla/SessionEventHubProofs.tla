----------------------- MODULE SessionEventHubProofs ------------------------
(***************************************************************************)
(* Proofs about SessionEventHub for any number of events and resets, and   *)
(* for windows of any sizes.                                               *)
(***************************************************************************)
EXTENDS SessionEventHub, SequenceTheorems, TLAPS

-----------------------------------------------------------------------------
(* Sequences of writes.                                                    *)

Entries(n) ==
  [seq : 1..n, tracked : BOOLEAN, awaited : SUBSET Callers, clears : SUBSET Resets]

(* A function on the indices of a sequence is a sequence of its values. *)
LEMMA MappedSeq ==
  ASSUME NEW A, NEW B, NEW s \in Seq(A), NEW F \in [DOMAIN s -> B]
  PROVE  F \in Seq(B) /\ DOMAIN F = DOMAIN s
OBVIOUS

LEMMA SeqGrows ==
  ASSUME NEW n \in Nat, NEW s \in Seq(Entries(n))
  PROVE  s \in Seq(Entries(n + 1))
<1>1. Entries(n) \subseteq Entries(n + 1)
  BY DEF Entries
<1> QED
  BY <1>1, SeqMonotonic

(* What is pending is what flies and what waits. *)
LEMMA PendingOnes ==
  ASSUME NEW A, NEW s \in Seq(A), NEW t \in Seq(A)
  PROVE  ToSet(s \o t) = {s[i] : i \in DOMAIN s} \cup {t[i] : i \in DOMAIN t}
<1>1. /\ s \o t \in Seq(A) /\ Len(s \o t) = Len(s) + Len(t)
      /\ \A i \in 1..Len(s) : (s \o t)[i] = s[i]
      /\ \A i \in 1..Len(t) : (s \o t)[Len(s) + i] = t[i]
  OBVIOUS
<1>2. DOMAIN s = 1..Len(s) /\ DOMAIN t = 1..Len(t) /\ DOMAIN (s \o t) = 1..Len(s) + Len(t)
  BY <1>1
<1>3. ASSUME NEW e \in ToSet(s \o t)
      PROVE  e \in {s[i] : i \in DOMAIN s} \cup {t[i] : i \in DOMAIN t}
  <2>1. PICK k \in 1..Len(s) + Len(t) : e = (s \o t)[k]
    BY <1>2, <1>3 DEF ToSet
  <2>2. CASE k <= Len(s)
    BY <1>1, <1>2, <2>1, <2>2
  <2>3. CASE k > Len(s)
    <3>1. k - Len(s) \in 1..Len(t) /\ k = Len(s) + (k - Len(s))
      BY <2>1, <2>3
    <3>2. e = t[k - Len(s)]
      BY <1>1, <2>1, <3>1
    <3> QED
      BY <1>2, <3>1, <3>2
  <2> QED
    BY <2>1, <2>2, <2>3
<1>4. \A i \in DOMAIN s : s[i] \in ToSet(s \o t)
  BY <1>1, <1>2 DEF ToSet
<1>5. ASSUME NEW i \in DOMAIN t PROVE t[i] \in ToSet(s \o t)
  <2>1. Len(s) + i \in DOMAIN (s \o t)
    BY <1>2
  <2> QED
    BY <1>1, <1>2, <2>1 DEF ToSet
<1> QED
  BY <1>3, <1>4, <1>5

(* Call c waits for one of the writes w. *)
Awaited(w, c) == \E i \in DOMAIN w : c \in w[i].awaited

LEMMA WaitsAre ==
  ASSUME NEW n, NEW s \in Seq(Entries(n)), NEW t \in Seq(Entries(n)), NEW c
  PROVE  (\E e \in ToSet(s \o t) : c \in e.awaited) <=> Awaited(s, c) \/ Awaited(t, c)
BY PendingOnes DEF Awaited

LEMMA AwaitedConcat ==
  ASSUME NEW n, NEW s \in Seq(Entries(n)), NEW t \in Seq(Entries(n)), NEW c
  PROVE  Awaited(s \o t, c) <=> Awaited(s, c) \/ Awaited(t, c)
<1>1. Awaited(s \o t, c) <=> \E e \in ToSet(s \o t) : c \in e.awaited
  BY DEF Awaited, ToSet
<1> QED
  BY <1>1, WaitsAre

(* The elements of sequences of entries are entries. *)
LEMMA PendingTyped ==
  ASSUME NEW n \in Nat, NEW s \in Seq(Entries(n)), NEW t \in Seq(Entries(n))
  PROVE  \A e \in ToSet(s \o t) :
           /\ e.seq \in 1..n /\ e.tracked \in BOOLEAN
           /\ e.awaited \subseteq Callers /\ e.clears \subseteq Resets
<1>1. \A e \in ToSet(s \o t) : e \in Entries(n)
  BY PendingOnes
<1> QED
  BY <1>1 DEF Entries

-----------------------------------------------------------------------------
(* Types.                                                                  *)

SeqsOK == batch \in Seq(Entries(log)) /\ flying \in Seq(Entries(log))

NumbersOK ==
  /\ log \in 0..MaxSeq /\ from \in 0..log /\ seen \in 0..log /\ baseline \in 0..log
  /\ resets \in 0..MaxResets /\ asked \in 0..MaxSeq
  /\ promised \subseteq 1..log

FlagsOK ==
  /\ source \in BOOLEAN /\ handle \in BOOLEAN /\ settled \in BOOLEAN /\ live \in BOOLEAN
  /\ known \in BOOLEAN /\ core \in BOOLEAN /\ spoiled \in BOOLEAN /\ doubt \in BOOLEAN
  /\ adopted \in BOOLEAN /\ hasty \in BOOLEAN
  /\ opener \in Callers \cup {Nobody}
  /\ (live => settled) /\ (settled => handle) /\ (handle => source)

Steps ==
  Over \cup {"idle", "reset", "ready", "refused", "opened", "flush", "drain",
             "drain flush", "tail"}

CallsOK ==
  /\ clear \in [Resets -> {"none", "flush", "drop", "done"}]
  /\ pc \in [Callers -> Steps]
  /\ awaits \in [Callers -> 0..MaxResets]

TypeInv == SeqsOK /\ NumbersOK /\ FlagsOK /\ CallsOK

LEMMA TypeOf == TypeInv => TypeOK
<1> SUFFICES ASSUME TypeInv PROVE TypeOK
  OBVIOUS
<1>1. log \in Nat
  BY HubAssumption DEF TypeInv, NumbersOK
<1>2. \A e \in Writes :
       /\ e.seq \in 1..log /\ e.tracked \in BOOLEAN
       /\ e.awaited \subseteq Callers /\ e.clears \subseteq Resets
  BY <1>1, PendingTyped DEF TypeInv, SeqsOK, Writes, Pending
<1>3. {source, handle, settled, live, known, core, spoiled, doubt, adopted, hasty}
        \subseteq BOOLEAN
  BY DEF TypeInv, FlagsOK
<1> QED
  BY <1>2, <1>3, Zenon DEF TypeInv, NumbersOK, FlagsOK, CallsOK, Steps, TypeOK

(* Entries that are awaited or forgotten, and what else is done to them    *)
(* one by one, stay entries.                                               *)
LEMMA AwaitType ==
  ASSUME TypeInv, NEW c \in Callers, NEW S, AwaitWrites(c, S)
  PROVE  batch' \in Seq(Entries(log)) /\ flying' \in Seq(Entries(log)) /\ known' = known
<1>1. ASSUME NEW s \in Seq(Entries(log))
      PROVE  [i \in DOMAIN s |-> IF s[i] \in S THEN [s[i] EXCEPT !.awaited = @ \cup {c}] ELSE s[i]]
               \in Seq(Entries(log))
  <2> DEFINE F == [i \in DOMAIN s |->
                    IF s[i] \in S THEN [s[i] EXCEPT !.awaited = @ \cup {c}] ELSE s[i]]
  <2>1. ASSUME NEW i \in DOMAIN s
        PROVE  s[i] \in Entries(log) /\ [s[i] EXCEPT !.awaited = @ \cup {c}] \in Entries(log)
    <3>1. s[i] \in Entries(log)
      OBVIOUS
    <3>2. [s[i] EXCEPT !.awaited = @ \cup {c}] \in Entries(log)
      BY <3>1 DEF Entries
    <3> QED
      BY <3>1, <3>2
  <2>2. F \in [DOMAIN s -> Entries(log)]
    BY <2>1
  <2> HIDE DEF F
  <2>3. F \in Seq(Entries(log))
    BY <2>2, MappedSeq
  <2> QED
    BY <2>3 DEF F
<1> QED
  BY <1>1 DEF TypeInv, SeqsOK, AwaitWrites

LEMMA ForgetType ==
  ASSUME TypeInv, NEW A, NEW n \in Resets, NEW s \in Seq(Entries(log))
  PROVE  [i \in DOMAIN s |-> [s[i] EXCEPT !.tracked = FALSE, !.awaited = @ \ A,
                                          !.clears = @ \cup {n}]]
           \in Seq(Entries(log))
<1> DEFINE F == [i \in DOMAIN s |-> [s[i] EXCEPT !.tracked = FALSE, !.awaited = @ \ A,
                                                 !.clears = @ \cup {n}]]
<1>1. ASSUME NEW i \in DOMAIN s
      PROVE  [s[i] EXCEPT !.tracked = FALSE, !.awaited = @ \ A, !.clears = @ \cup {n}]
               \in Entries(log)
  <2>1. s[i] \in Entries(log)
    OBVIOUS
  <2> QED
    BY <2>1 DEF Entries
<1>2. F \in [DOMAIN s -> Entries(log)]
  BY <1>1
<1> HIDE DEF F
<1>3. F \in Seq(Entries(log))
  BY <1>2, MappedSeq
<1> QED
  BY <1>3 DEF F

LEMMA LoseType ==
  ASSUME TypeInv, NEW S, NEW T, NEW s \in Seq(Entries(log))
  PROVE  [i \in DOMAIN s |-> [s[i] EXCEPT !.awaited = @ \ S, !.clears = @ \ T]]
           \in Seq(Entries(log))
<1> DEFINE F == [i \in DOMAIN s |-> [s[i] EXCEPT !.awaited = @ \ S, !.clears = @ \ T]]
<1>1. ASSUME NEW i \in DOMAIN s
      PROVE  [s[i] EXCEPT !.awaited = @ \ S, !.clears = @ \ T] \in Entries(log)
  <2>1. s[i] \in Entries(log)
    OBVIOUS
  <2> QED
    BY <2>1 DEF Entries
<1>2. F \in [DOMAIN s -> Entries(log)]
  BY <1>1
<1> HIDE DEF F
<1>3. F \in Seq(Entries(log))
  BY <1>2, MappedSeq
<1> QED
  BY <1>3 DEF F

(* Writes that are not tracked any more are the same writes.               *)
LEMMA UntrackedAre ==
  ASSUME NEW n, NEW s \in Seq(Entries(n)), NEW t \in Untracked(s)
  PROVE  /\ t \in Seq(Entries(n)) /\ DOMAIN t = DOMAIN s
         /\ \A i \in DOMAIN s : /\ t[i].seq = s[i].seq
                                /\ t[i].awaited = s[i].awaited
                                /\ t[i].clears = s[i].clears
<1>1. PICK keep \in BOOLEAN : t = [i \in DOMAIN s |-> [s[i] EXCEPT !.tracked = @ /\ keep]]
  BY DEF Untracked
<1>2. ASSUME NEW i \in DOMAIN s
      PROVE  /\ t[i] \in Entries(n) /\ t[i].seq = s[i].seq
             /\ t[i].awaited = s[i].awaited /\ t[i].clears = s[i].clears
  <2>1. s[i] \in Entries(n)
    OBVIOUS
  <2>2. t[i] = [s[i] EXCEPT !.tracked = @ /\ keep]
    BY <1>1
  <2> QED
    BY <2>1, <2>2 DEF Entries
<1>3. DOMAIN t = DOMAIN s /\ t \in [DOMAIN s -> Entries(n)]
  BY <1>1, <1>2
<1>4. t \in Seq(Entries(n))
  BY <1>3, MappedSeq
<1> QED
  BY <1>2, <1>3, <1>4

(* A snapshot begins before its end, or at the beginning of the session.   *)
LEMMA WindowStartIs ==
  ASSUME NEW n \in Nat
  PROVE  /\ WindowStart(n) \in 0..n /\ (WindowStart(n) < n \/ WindowStart(n) = 0)
         /\ (WindowStart(n) = 0 \/ n - WindowStart(n) = Window)
<1>1. Window \in Nat \ {0}
  BY HubAssumption
<1> QED
  BY <1>1 DEF WindowStart

(* What a frame brings beyond the baseline: it follows the baseline and    *)
(* what the frame follows, up to the end of the frame, in order.           *)
LEMMA AcceptedIs ==
  ASSUME NEW n \in Nat, NEW m \in Nat, n < m \/ n = 0, baseline \in Nat
  PROVE  /\ Accepted(n, m) \in Seq(1..m)
         /\ \A i \in DOMAIN Accepted(n, m) : Accepted(n, m)[i] > n
         /\ \A i, j \in DOMAIN Accepted(n, m) : i < j => Accepted(n, m)[i] < Accepted(n, m)[j]
         /\ m <= baseline => Accepted(n, m) = <<>>
         /\ baseline < m => Accepted(n, m) # <<>> /\ Last(Accepted(n, m)) = m
<1> DEFINE b == IF n < baseline THEN baseline ELSE n
           A == Accepted(n, m)
<1>1. CASE m <= baseline
  <2>1. A = <<>>
    BY <1>1 DEF Accepted
  <2>2. A \in Seq(1..m) /\ DOMAIN A = {}
    BY <2>1
  <2> QED
    BY <1>1, <2>1, <2>2
<1>2. CASE baseline < m
  <2>1. A = [i \in 1..m - b |-> b + i] /\ b \in Nat /\ b < m /\ n <= b
    BY <1>2 DEF Accepted, Between
  <2> HIDE DEF b, A
  <2>2. m - b \in Nat \ {0} /\ A \in [1..m - b -> 1..m]
    BY <2>1
  <2>3. A \in Seq(1..m) /\ Len(A) = m - b
    BY <2>1, <2>2
  <2>4. Last(A) = m /\ A # <<>>
    BY <2>1, <2>2, <2>3 DEF Last
  <2> QED
    BY <1>2, <2>1, <2>2, <2>3, <2>4 DEF A
<1> QED
  BY <1>1, <1>2

LEMMA IngestType ==
  ASSUME TypeInv, NEW n \in Nat, NEW m \in 0..log, n < m \/ n = 0, NEW snapshot, Ingest(n, m, snapshot)
  PROVE  /\ baseline' \in 0..log /\ baseline' >= baseline /\ baseline' >= m
         /\ batch' \in Seq(Entries(log)) /\ flying' = flying
         /\ known' \in BOOLEAN
         /\ \A c : Awaited(batch', c) <=> Awaited(batch, c)
<1> DEFINE new == Accepted(n, m)
           F == [i \in DOMAIN new |->
                  [seq |-> new[i], tracked |-> TRUE, awaited |-> {}, clears |-> {}]]
<1>1. log \in Nat /\ m \in Nat /\ baseline \in Nat
  BY HubAssumption DEF TypeInv, NumbersOK
<1>2. /\ new \in Seq(1..m)
      /\ m <= baseline => new = <<>>
      /\ baseline < m => new # <<>> /\ Last(new) = m
  BY <1>1, AcceptedIs
<1>3. /\ baseline' = IF new = <<>> THEN baseline ELSE Last(new)
      /\ batch' = batch \o F /\ flying' = flying
      /\ known' = (known \/ new # <<>>)
  BY DEF Ingest
<1> HIDE DEF new
<1>4. F \in Seq(Entries(log))
  <2>1. ASSUME NEW i \in DOMAIN new
        PROVE  [seq |-> new[i], tracked |-> TRUE, awaited |-> {}, clears |-> {}] \in Entries(log)
    <3>1. new[i] \in 1..log
      BY <1>1, <1>2
    <3> QED
      BY <3>1 DEF Entries
  <2>2. F \in [DOMAIN new -> Entries(log)]
    BY <2>1
  <2> HIDE DEF F
  <2> QED
    BY <1>2, <2>2, MappedSeq
<1>c. \A c : ~Awaited(F, c)
  BY DEF Awaited
<1> HIDE DEF F
<1>w. \A c : Awaited(batch', c) <=> Awaited(batch, c)
  BY <1>3, <1>4, <1>c, AwaitedConcat DEF TypeInv, SeqsOK
<1>5. batch' \in Seq(Entries(log))
  BY <1>3, <1>4 DEF TypeInv, SeqsOK
<1>6. baseline' \in 0..log /\ baseline' >= baseline /\ baseline' >= m
  BY <1>1, <1>2, <1>3 DEF TypeInv, NumbersOK
<1>7. known' \in BOOLEAN
  BY <1>3 DEF TypeInv, FlagsOK
<1> QED
  BY <1>3, <1>5, <1>6, <1>7, <1>w

LEMMA NumbersAre ==
  ASSUME TypeInv
  PROVE  /\ log \in Nat /\ baseline \in Nat /\ from \in Nat /\ seen \in Nat /\ resets \in Nat
         /\ MaxSeq \in Nat /\ MaxResets \in Nat
BY HubAssumption DEF TypeInv, NumbersOK

LEMMA RefusingType == pc \in [Callers -> Steps] => Refusing \in [Callers -> Steps]
BY DEF Refusing, Steps

LEMMA TypeInit == Init => TypeInv
<1> SUFFICES ASSUME Init PROVE TypeInv
  OBVIOUS
<1>1. SeqsOK
  BY DEF Init, SeqsOK
<1>2. log \in 0..1 /\ 1 \in 0..MaxSeq
  BY HubAssumption DEF Init
<1>3. NumbersOK
  BY <1>2, HubAssumption DEF Init, NumbersOK
<1>4. FlagsOK
  BY DEF Init, FlagsOK
<1>5. CallsOK
  BY HubAssumption DEF Init, CallsOK, Steps
<1> QED
  BY <1>1, <1>3, <1>4, <1>5 DEF TypeInv

(* What is done to a handle and a turn. *)
LEMMA CloseType ==
  ASSUME TypeInv, CloseHandle
  PROVE  /\ handle' = FALSE /\ settled' = FALSE /\ live' = FALSE /\ opener' = Nobody
         /\ from' = 0 /\ seen' = 0 /\ promised' = {} /\ adopted' = FALSE
         /\ hasty' \in BOOLEAN
BY DEF CloseHandle, LoseTurn

LEMMA ResetType ==
  ASSUME TypeInv, NEW A, Reset(A), source' \in BOOLEAN, core' \in BOOLEAN,
         pc' \in [Callers -> Steps], awaits' \in [Callers -> 0..MaxResets]
  PROVE  TypeInv'
<1>0. resets < MaxResets /\ resets' = resets + 1
  BY DEF Reset
<1>1. resets + 1 \in Resets /\ resets' = resets + 1 /\ resets' \in 0..MaxResets
  BY <1>0, NumbersAre DEF Resets
<1>2. /\ handle' = FALSE /\ settled' = FALSE /\ live' = FALSE /\ opener' = Nobody
      /\ from' = 0 /\ seen' = 0 /\ promised' = {} /\ adopted' = FALSE
      /\ hasty' \in BOOLEAN
  BY CloseType DEF Reset
<1>3. SeqsOK'
  <2> DEFINE forget(s) == [i \in DOMAIN s |->
               [s[i] EXCEPT !.tracked = FALSE, !.awaited = @ \ A, !.clears = @ \cup {resets + 1}]]
  <2>1. batch' = forget(batch) /\ flying' = forget(flying) /\ log' = log
    BY DEF Reset
  <2>2. \A s \in Seq(Entries(log)) : forget(s) \in Seq(Entries(log))
    BY <1>1, ForgetType
  <2> HIDE DEF forget
  <2> QED
    BY <2>1, <2>2 DEF TypeInv, SeqsOK
<1>4. NumbersOK'
  <2>1. log' = log /\ baseline' = 0 /\ asked' = asked
    BY DEF Reset
  <2> QED
    BY <1>1, <1>2, <2>1, NumbersAre DEF TypeInv, NumbersOK
<1>5. spoiled' \in BOOLEAN /\ doubt' \in BOOLEAN
  BY DEF Reset
<1>6. FlagsOK'
  BY <1>2, <1>5 DEF Reset, TypeInv, FlagsOK
<1>7. CallsOK'
  BY <1>1 DEF Reset, TypeInv, CallsOK
<1> QED
  BY <1>3, <1>4, <1>6, <1>7 DEF TypeInv

LEMMA ClosedType ==
  ASSUME TypeInv, CloseHandle,
         UNCHANGED <<log, baseline, resets, asked, source, known, core, spoiled, doubt>>
  PROVE  NumbersOK' /\ FlagsOK'
<1>1. NumbersOK'
  <2>1. log \in 0..MaxSeq /\ baseline \in 0..log /\ resets \in 0..MaxResets /\ asked \in 0..MaxSeq
    BY DEF TypeInv, NumbersOK
  <2>2. from' = 0 /\ seen' = 0 /\ promised' = {} /\ 0 \in 0..log
    BY CloseType, NumbersAre
  <2> QED
    BY <2>1, <2>2 DEF NumbersOK
<1>2. FlagsOK'
  BY CloseType DEF TypeInv, FlagsOK
<1> QED
  BY <1>1, <1>2

LEMMA LoseFlightType ==
  ASSUME TypeInv, NEW S, NEW T, LoseFlight(S, T), core' \in BOOLEAN
  PROVE  TypeInv'
<1>1. SeqsOK'
  <2>1. flying' = <<>> /\ flying' \in Seq(Entries(log))
    BY EmptySeq DEF LoseFlight
  <2>2. batch' \in Seq(Entries(log))
    <3>1. PICK A, B : batch' \in Untracked([i \in DOMAIN batch |->
                                 [batch[i] EXCEPT !.awaited = @ \ A, !.clears = @ \ B]])
      BY DEF LoseFlight
    <3>2. batch \in Seq(Entries(log))
      BY DEF TypeInv, SeqsOK
    <3>3. [i \in DOMAIN batch |-> [batch[i] EXCEPT !.awaited = @ \ A, !.clears = @ \ B]]
            \in Seq(Entries(log))
      BY <3>2, LoseType
    <3> QED
      BY <3>1, <3>3, UntrackedAre
  <2>3. log' = log
    BY DEF LoseFlight
  <2> QED
    BY <2>1, <2>2, <2>3 DEF SeqsOK
<1>2. NumbersOK'
  BY DEF LoseFlight, TypeInv, NumbersOK, streamVars, hubVars, turnVars
<1>3. spoiled' \in BOOLEAN /\ doubt' \in BOOLEAN
  BY DEF LoseFlight
<1>4. FlagsOK'
  BY <1>3 DEF LoseFlight, TypeInv, FlagsOK, streamVars, hubVars, turnVars
<1>5. CallsOK'
  BY DEF LoseFlight, TypeInv, CallsOK, Steps, Over
<1> QED
  BY <1>1, <1>2, <1>4, <1>5 DEF TypeInv

LEMMA GotoType ==
  ASSUME TypeInv, NEW c \in Callers, NEW place \in Steps, Goto(c, place)
  PROVE  pc' \in [Callers -> Steps]
BY DEF TypeInv, CallsOK, Goto

LEMMA GiveUpType ==
  ASSUME TypeInv, NEW c \in Callers, GiveUp(c)
  PROVE  pc' \in [Callers -> Steps]
BY RefusingType DEF TypeInv, CallsOK, GiveUp, Steps, Over

LEMMA RecordType == ASSUME TypeInv, Record PROVE TypeInv'
<1>1. log' = log + 1 /\ UNCHANGED <<batch, flying>>
  BY DEF Record, storeVars
<1>p. SeqsOK'
  BY <1>1, SeqGrows, NumbersAre DEF TypeInv, SeqsOK
<1>q. NumbersOK'
  BY SeqGrows, HubAssumption
  DEF Record, TypeInv, NumbersOK, streamVars, hubVars, resetVars, callVars
<1>r. FlagsOK'
  BY SeqGrows
  DEF Record, TypeInv, FlagsOK, streamVars, hubVars, storeVars, callVars
<1>s. CallsOK'
  BY SeqGrows
  DEF Record, TypeInv, CallsOK, resetVars, callVars
<1> QED
  BY <1>p, <1>q, <1>r, <1>s DEF TypeInv

(* The frames of a stream.                                                 *)
LEMMA SnapshotFrame ==
  ASSUME TypeInv, Snapshot
  PROVE  \E n \in 0..log :
           /\ from <= n /\ seen' = n /\ n \in Nat
           /\ WindowStart(n) \in Nat /\ (WindowStart(n) < n \/ WindowStart(n) = 0)
           /\ Ingest(WindowStart(n), n, TRUE)
           /\ doubt' = (doubt \/ (baseline > 0 /\ baseline < WindowStart(n)))
<1>1. PICK n \in from..log :
        /\ seen' = n /\ Ingest(WindowStart(n), n, TRUE)
        /\ doubt' = (doubt \/ (baseline > 0 /\ baseline < WindowStart(n)))
  BY DEF Snapshot
<1>2. n \in 0..log /\ n \in Nat /\ from <= n
  BY NumbersAre
<1>3. WindowStart(n) \in Nat /\ (WindowStart(n) < n \/ WindowStart(n) = 0)
  BY <1>2, WindowStartIs
<1> QED
  BY <1>1, <1>2, <1>3

LEMMA SnapshotType == ASSUME TypeInv, Snapshot PROVE TypeInv'
<1>1. PICK n \in 0..log :
        /\ seen' = n /\ WindowStart(n) \in Nat /\ (WindowStart(n) < n \/ WindowStart(n) = 0)
        /\ Ingest(WindowStart(n), n, TRUE)
  BY SnapshotFrame
<1>i. /\ baseline' \in 0..log /\ batch' \in Seq(Entries(log)) /\ flying' = flying
      /\ known' \in BOOLEAN /\ seen' \in 0..log
  BY <1>1, IngestType
<1>d. doubt' \in BOOLEAN
  BY DEF Snapshot
<1>p. SeqsOK'
  BY <1>i
  DEF Snapshot, TypeInv, SeqsOK
<1>q. NumbersOK'
  BY <1>i, HubAssumption
  DEF Snapshot, TypeInv, NumbersOK, resetVars, turnVars
<1>r. FlagsOK'
  BY <1>i, <1>d
  DEF Snapshot, TypeInv, FlagsOK, turnVars
<1>s. CallsOK'
  BY <1>i
  DEF Snapshot, Steps, Over, TypeInv, CallsOK, resetVars
<1> QED
  BY <1>p, <1>q, <1>r, <1>s DEF TypeInv

LEMMA EventType == ASSUME TypeInv, Event PROVE TypeInv'
<1>1. seen \in Nat /\ seen + 1 \in 0..log
  BY HubAssumption DEF Event, TypeInv, NumbersOK
<1>i. /\ baseline' \in 0..log /\ batch' \in Seq(Entries(log)) /\ flying' = flying
      /\ known' \in BOOLEAN /\ seen' \in 0..log
  <2>1. Ingest(seen, seen + 1, FALSE) /\ seen' = seen + 1
    BY DEF Event
  <2>2. seen < seen + 1 /\ seen' \in 0..log
    BY <1>1, <2>1
  <2> QED
    BY <1>1, <2>1, <2>2, IngestType
<1>p. SeqsOK'
  BY <1>i
  DEF Event, TypeInv, SeqsOK
<1>q. NumbersOK'
  BY <1>i, HubAssumption
  DEF Event, TypeInv, NumbersOK, resetVars, callVars, turnVars
<1>r. FlagsOK'
  BY <1>i
  DEF Event, TypeInv, FlagsOK, callVars, turnVars
<1>s. CallsOK'
  BY <1>i
  DEF Event, TypeInv, CallsOK, resetVars, callVars
<1> QED
  BY <1>p, <1>q, <1>r, <1>s DEF TypeInv

LEMMA ReconnectType == ASSUME TypeInv, Reconnect PROVE TypeInv'
<1>p. SeqsOK'
  BY DEF Reconnect, LoseTurn, TypeInv, SeqsOK, storeVars
<1>q. NumbersOK'
  BY HubAssumption
  DEF Reconnect, LoseTurn, TypeInv, NumbersOK, hubVars, resetVars, callVars
<1>r. FlagsOK'
  BY DEF Reconnect, LoseTurn, TypeInv, FlagsOK, hubVars, storeVars, callVars
<1>s. CallsOK'
  BY DEF Reconnect, LoseTurn, TypeInv, CallsOK, resetVars, callVars
<1> QED
  BY <1>p, <1>q, <1>r, <1>s DEF TypeInv

LEMMA StreamEndsType == ASSUME TypeInv, StreamEnds PROVE TypeInv'
<1>p. SeqsOK'
  BY CloseType, RefusingType
  DEF StreamEnds, TypeInv, SeqsOK, storeVars
<1>q. NumbersOK' /\ FlagsOK'
  BY ClosedType DEF StreamEnds, resetVars, storeVars
<1>s. CallsOK'
  BY CloseType, RefusingType
  DEF StreamEnds, TypeInv, CallsOK, resetVars
<1> QED
  BY <1>p, <1>q, <1>s DEF TypeInv

LEMMA FlyType == ASSUME TypeInv, Fly PROVE TypeInv'
<1>p. SeqsOK'
  BY DEF Fly, TypeInv, SeqsOK
<1>q. NumbersOK'
  BY HubAssumption
  DEF Fly, TypeInv, NumbersOK, streamVars, hubVars, resetVars, callVars,
      turnVars
<1>r. FlagsOK'
  BY DEF Fly, TypeInv, FlagsOK, streamVars, hubVars, callVars, turnVars
<1>s. CallsOK'
  BY DEF Fly, TypeInv, CallsOK, resetVars, callVars
<1> QED
  BY <1>p, <1>q, <1>r, <1>s DEF TypeInv

LEMMA AppendLandsType == ASSUME TypeInv, AppendLands PROVE TypeInv'
<1>p. SeqsOK'
  BY EmptySeq, UntrackedAre DEF AppendLands, TypeInv, SeqsOK
<1>q. NumbersOK'
  BY HubAssumption
  DEF AppendLands, Wake, After, TypeInv, NumbersOK, streamVars, hubVars,
      resetVars, turnVars
<1>r. FlagsOK'
  BY DEF AppendLands, Wake, After, TypeInv, FlagsOK, streamVars, hubVars,
      turnVars
<1>s. CallsOK'
  BY DEF AppendLands, Wake, After, Steps, Over, TypeInv, CallsOK, resetVars
<1> QED
  BY <1>p, <1>q, <1>r, <1>s DEF TypeInv

LEMMA ClearDropsType == ASSUME TypeInv, NEW i \in Resets, ClearDrops(i) PROVE TypeInv'
<1>p. SeqsOK'
  BY DEF ClearDrops, TypeInv, SeqsOK
<1>q. NumbersOK'
  BY HubAssumption
  DEF ClearDrops, TypeInv, NumbersOK, streamVars, hubVars, callVars, turnVars
<1>r. FlagsOK'
  BY DEF ClearDrops, TypeInv, FlagsOK, streamVars, hubVars, callVars, turnVars
<1>s. CallsOK'
  BY DEF ClearDrops, TypeInv, CallsOK, callVars
<1> QED
  BY <1>p, <1>q, <1>r, <1>s DEF TypeInv

LEMMA DropLandsType == ASSUME TypeInv, NEW i \in Resets, DropLands(i) PROVE TypeInv'
<1>p. SeqsOK'
  BY DEF DropLands, TypeInv, SeqsOK, storeVars
<1>q. NumbersOK'
  BY HubAssumption
  DEF DropLands, TypeInv, NumbersOK, streamVars, hubVars, callVars, turnVars
<1>r. FlagsOK'
  BY DEF DropLands, TypeInv, FlagsOK, streamVars, hubVars, storeVars,
      callVars, turnVars
<1>s. CallsOK'
  BY DEF DropLands, TypeInv, CallsOK, callVars
<1> QED
  BY <1>p, <1>q, <1>r, <1>s DEF TypeInv

LEMMA DropFailsType == ASSUME TypeInv, NEW i \in Resets, DropFails(i) PROVE TypeInv'
<1>p. SeqsOK'
  BY DEF DropFails, TypeInv, SeqsOK, storeVars
<1>q. NumbersOK'
  BY HubAssumption
  DEF DropFails, TypeInv, NumbersOK, streamVars, hubVars, callVars, turnVars
<1>r. FlagsOK'
  BY DEF DropFails, TypeInv, FlagsOK, streamVars, hubVars, storeVars,
      callVars, turnVars
<1>s. CallsOK'
  BY DEF DropFails, TypeInv, CallsOK, callVars
<1> QED
  BY <1>p, <1>q, <1>r, <1>s DEF TypeInv

LEMMA ReadType == ASSUME TypeInv, Read PROVE TypeInv'
<1>p. SeqsOK'
  BY GotoType
  DEF Read, Goto, TypeInv, SeqsOK, storeVars, CallUnchanged
<1>q. NumbersOK'
  BY NumbersAre DEF Read, TypeInv, NumbersOK, streamVars, hubVars, turnVars, resetVars, CallUnchanged
<1>r. FlagsOK'
  BY GotoType
  DEF Read, Goto, TypeInv, FlagsOK, streamVars, hubVars, storeVars, turnVars,
      CallUnchanged
<1>s. CallsOK'
  <2>1. pc' \in [Callers -> Steps]
    BY GotoType DEF Read, Steps, Callers
  <2>2. awaits' \in [Callers -> 0..MaxResets]
    BY NumbersAre DEF Read, TypeInv, CallsOK, NumbersOK
  <2> QED
    BY <2>1, <2>2 DEF Read, TypeInv, CallsOK, resetVars, CallUnchanged
<1> QED
  BY <1>p, <1>q, <1>r, <1>s DEF TypeInv

LEMMA EnsureType == ASSUME TypeInv, Ensure PROVE TypeInv'
<1>1. "ensure" \in Callers /\ {"flush", "done", "reset"} \subseteq Steps
  BY DEF Callers, Steps, Over
<1>2. CASE ~source \/ handle
  <2>1. /\ AwaitWrites("ensure", Tracked)
        /\ Goto("ensure", IF Tracked # {} THEN "flush" ELSE "done")
        /\ hasty' = (handle /\ ~live) /\ UNCHANGED awaits
    BY <1>2 DEF Ensure
  <2>2. /\ adopted' = FALSE /\ promised' = {}
        /\ UNCHANGED <<log, core, resets, clear, doubt, live, from, seen, source, handle,
                       settled, opener, baseline, spoiled, asked>>
    BY DEF Ensure, CallUnchanged, streamVars, hubVars, resetVars
  <2>3. SeqsOK'
    BY <1>1, <2>1, <2>2, AwaitType DEF SeqsOK
  <2>4. NumbersOK'
    BY <2>2 DEF TypeInv, NumbersOK
  <2>5. FlagsOK'
    BY <1>1, <2>1, <2>2, AwaitType DEF TypeInv, FlagsOK
  <2>6. CallsOK'
    BY <1>1, <2>1, <2>2 DEF Goto, TypeInv, CallsOK
  <2> QED
    BY <2>3, <2>4, <2>5, <2>6 DEF TypeInv
<1>3. CASE ~(~source \/ handle)
  <2>1. /\ Goto("ensure", "reset") /\ awaits' = [awaits EXCEPT !["ensure"] = resets]
        /\ hasty' = FALSE /\ UNCHANGED <<batch, flying, known>>
    BY <1>3 DEF Ensure, storeVars
  <2>2. /\ adopted' = FALSE /\ promised' = {}
        /\ UNCHANGED <<log, core, resets, clear, doubt, live, from, seen, source, handle,
                       settled, opener, baseline, spoiled, asked>>
    BY DEF Ensure, CallUnchanged, streamVars, hubVars, resetVars
  <2>3. SeqsOK' /\ NumbersOK'
    BY <2>1, <2>2 DEF TypeInv, SeqsOK, NumbersOK
  <2>4. FlagsOK'
    BY <2>1, <2>2 DEF TypeInv, FlagsOK
  <2>5. CallsOK'
    BY <1>1, <2>1, <2>2 DEF Goto, TypeInv, CallsOK, NumbersOK
  <2> QED
    BY <2>3, <2>4, <2>5 DEF TypeInv
<1> QED
  BY <1>2, <1>3

LEMMA OpenType == ASSUME TypeInv, NEW c \in Callers, Open(c) PROVE TypeInv'
<1>0. {"opened", "ready", "failed"} \subseteq Steps
  BY DEF Steps, Over
<1>1. /\ awaits' = [awaits EXCEPT ![c] = 0] /\ doubt' \in BOOLEAN
      /\ UNCHANGED <<log, core, resets, clear, batch, flying, known, spoiled, asked,
                     adopted, promised>>
  BY DEF Open, resetVars, storeVars
<1>2. awaits' \in [Callers -> 0..MaxResets]
  BY <1>1, NumbersAre DEF TypeInv, CallsOK
<1>3. SeqsOK'
  BY <1>1 DEF TypeInv, SeqsOK
<1>4. CASE /\ handle
           /\ Goto(c, IF settled THEN "opened" ELSE "ready")
           /\ hasty' = IF c = "ensure" THEN settled /\ ~live ELSE hasty
           /\ UNCHANGED <<hubVars, streamVars>>
  <2>1. NumbersOK' /\ FlagsOK'
    BY <1>1, <1>4 DEF TypeInv, NumbersOK, FlagsOK, streamVars, hubVars
  <2>2. CallsOK'
    BY <1>0, <1>1, <1>2, <1>4 DEF Goto, TypeInv, CallsOK
  <2> QED
    BY <1>3, <2>1, <2>2 DEF TypeInv
<1>5. CASE /\ ~handle /\ source
           /\ handle' = TRUE /\ settled' = FALSE /\ opener' = c
           /\ live' = FALSE /\ from' = log /\ seen' = 0
           /\ Goto(c, Followed)
           /\ UNCHANGED <<source, baseline, hasty>>
  <2>1. NumbersOK'
    BY <1>1, <1>5, NumbersAre DEF TypeInv, NumbersOK
  <2>2. FlagsOK'
    BY <1>1, <1>5 DEF TypeInv, FlagsOK
  <2>3. CallsOK'
    BY <1>0, <1>1, <1>2, <1>5 DEF Goto, Followed, TypeInv, CallsOK
  <2> QED
    BY <1>3, <2>1, <2>2, <2>3 DEF TypeInv
<1>6. CASE /\ ~handle /\ ~source
           /\ Goto(c, "failed")
           /\ UNCHANGED <<hubVars, streamVars, hasty>>
  <2>1. NumbersOK' /\ FlagsOK'
    BY <1>1, <1>6 DEF TypeInv, NumbersOK, FlagsOK, streamVars, hubVars
  <2>2. CallsOK'
    BY <1>0, <1>1, <1>2, <1>6 DEF Goto, TypeInv, CallsOK
  <2> QED
    BY <1>3, <2>1, <2>2 DEF TypeInv
<1> QED
  BY <1>4, <1>5, <1>6 DEF Open

LEMMA TimesOutType == ASSUME TypeInv, NEW c \in Callers, TimesOut(c) PROVE TypeInv'
<1>p. SeqsOK'
  BY CloseType, GiveUpType
  DEF TimesOut, GiveUp, TypeInv, SeqsOK, storeVars, CallUnchanged
<1>q. NumbersOK' /\ FlagsOK'
  BY ClosedType DEF TimesOut, GiveUp, resetVars, storeVars, CallUnchanged
<1>s. CallsOK'
  BY CloseType, GiveUpType
  DEF TimesOut, GiveUp, TypeInv, CallsOK, resetVars, CallUnchanged
<1> QED
  BY <1>p, <1>q, <1>s DEF TypeInv

LEMMA ThrowType == ASSUME TypeInv, NEW c \in Callers, Throw(c) PROVE TypeInv'
<1>p. SeqsOK'
  BY CloseType, GiveUpType
  DEF Throw, GiveUp, Goto, TypeInv, SeqsOK, storeVars, CallUnchanged
<1>q. NumbersOK' /\ FlagsOK'
  <2>1. CASE GiveUp(c)
    BY <2>1, ClosedType DEF Throw, GiveUp, resetVars, storeVars, CallUnchanged
  <2>2. CASE UNCHANGED <<handle, settled, opener, streamVars, turnVars>>
    BY <2>2 DEF Throw, TypeInv, NumbersOK, FlagsOK, streamVars, turnVars, resetVars,
                storeVars, CallUnchanged
  <2> QED
    BY <2>1, <2>2 DEF Throw
<1>s. CallsOK'
  BY CloseType, GiveUpType
  DEF Throw, GiveUp, Goto, Steps, Over, TypeInv, CallsOK, resetVars,
      CallUnchanged
<1> QED
  BY <1>p, <1>q, <1>s DEF TypeInv

LEMMA FlushType ==
  ASSUME TypeInv, NEW c \in Callers, NEW S, NEW waiting \in Steps, NEW beyond \in Steps,
         Flush(c, S, waiting, beyond), asked' \in 0..MaxSeq
  PROVE  TypeInv'
<1>2. AwaitWrites(c, S) /\ Goto(c, IF S # {} THEN waiting ELSE beyond)
  BY DEF Flush
<1>3. UNCHANGED <<log, core, resets, clear, doubt, live, from, seen, source, handle, settled,
                  opener, baseline, awaits, spoiled, adopted, promised, hasty>>
  BY DEF Flush, CallUnchanged, streamVars, hubVars, resetVars, turnVars
<1>4. SeqsOK' /\ known' = known
  BY <1>2, <1>3, AwaitType DEF SeqsOK
<1>5. NumbersOK' /\ FlagsOK'
  BY <1>3, <1>4 DEF TypeInv, NumbersOK, FlagsOK
<1>6. CallsOK'
  BY <1>2, <1>3 DEF Goto, TypeInv, CallsOK
<1> QED
  BY <1>4, <1>5, <1>6 DEF TypeInv

LEMMA FlushesType == ASSUME TypeInv, NEW c \in Callers, Flushes(c) PROVE TypeInv'
<1>1. {"flush", "drain", "done", "drain flush", "tail"} \subseteq Steps
  BY DEF Steps, Over
<1>4. asked \in 0..MaxSeq /\ baseline \in 0..MaxSeq
  BY NumbersAre DEF TypeInv, NumbersOK
<1>2. CASE Flush(c, Tracked, "flush", IF c = "read" THEN "drain" ELSE "done") /\ UNCHANGED asked
  BY <1>1, <1>2, <1>4, FlushType
<1>3. CASE Flush(c, Writes, "drain flush", "tail") /\ asked' = baseline
  BY <1>1, <1>3, <1>4, FlushType
<1> QED
  BY <1>2, <1>3 DEF Flushes

LEMMA TailAnsweredType == ASSUME TypeInv, TailAnswered PROVE TypeInv'
<1>p. SeqsOK'
  BY DEF TailAnswered, Goto, TypeInv, SeqsOK, storeVars, CallUnchanged
<1>q. NumbersOK'
  BY HubAssumption
  DEF TailAnswered, Goto, TypeInv, NumbersOK, resetVars, streamVars, hubVars,
      turnVars, CallUnchanged
<1>r. FlagsOK'
  BY DEF TailAnswered, Goto, TypeInv, FlagsOK, streamVars, hubVars,
      storeVars, turnVars, CallUnchanged
<1>s. CallsOK'
  BY DEF TailAnswered, Goto, Steps, Over, TypeInv, CallsOK, resetVars,
      CallUnchanged
<1> QED
  BY <1>p, <1>q, <1>r, <1>s DEF TypeInv

LEMMA ReturnType == ASSUME TypeInv, NEW c \in Callers, Return(c) PROVE TypeInv'
<1>p. SeqsOK'
  BY DEF Return, Goto, TypeInv, SeqsOK, storeVars, CallUnchanged
<1>q. NumbersOK'
  BY HubAssumption
  DEF Return, Goto, TypeInv, NumbersOK, resetVars, streamVars, hubVars,
      CallUnchanged
<1>r. FlagsOK'
  BY DEF Return, Goto, TypeInv, FlagsOK, streamVars, hubVars, storeVars,
      CallUnchanged
<1>s. CallsOK'
  BY DEF Return, Goto, Steps, Over, TypeInv, CallsOK, resetVars, CallUnchanged
<1> QED
  BY <1>p, <1>q, <1>r, <1>s DEF TypeInv

LEMMA TypeNext == TypeInv /\ [Next]_vars => TypeInv'
<1> SUFFICES ASSUME TypeInv, [Next]_vars PROVE TypeInv'
  OBVIOUS
<1>1. ASSUME Continue PROVE TypeInv'
  BY <1>1, OpenType, ThrowType, FlushesType, ReturnType, ClearDropsType DEF Continue
<1>2. CASE AppendFails
  <2>1. LoseFlight({}, {}) /\ UNCHANGED core
    BY <1>2 DEF AppendFails
  <2> QED
    BY <2>1, LoseFlightType DEF TypeInv, FlagsOK
<1>3. CASE Crash
  BY <1>3, LoseFlightType DEF Crash
<1>4. CASE Detach \/ Attach
  <2>1. pc' \in [Callers -> Steps]
    BY <1>4, RefusingType DEF Detach, Attach, TypeInv, CallsOK
  <2> QED
    BY <1>4, <2>1, ResetType DEF Detach, Attach, TypeInv, FlagsOK, CallsOK
<1>5. CASE Ready
  <2>1. CASE /\ core' = TRUE /\ UNCHANGED source
             /\ UNCHANGED <<log, streamVars, handle, settled, opener, baseline, storeVars, journal,
                            resetVars, callVars, emitted, doubt, turnVars>>
    BY <2>1 DEF TypeInv, SeqsOK, NumbersOK, FlagsOK, CallsOK, streamVars, storeVars,
                resetVars, callVars, turnVars
  <2>2. ASSUME NEW A, core' = TRUE, UNCHANGED source, Reset(A),
               \/ /\ pc' = [Refusing EXCEPT !["rehydrate"] = "reset"]
                  /\ awaits' = [awaits EXCEPT !["rehydrate"] = resets + 1]
               \/ pc' = Refusing /\ UNCHANGED awaits
        PROVE  TypeInv'
    <3>1. Refusing \in [Callers -> Steps] /\ "reset" \in Steps
      BY RefusingType DEF TypeInv, CallsOK, Steps
    <3>2. pc' \in [Callers -> Steps]
      BY <2>2, <3>1
    <3>3. resets + 1 \in 0..MaxResets
      <4>1. resets < MaxResets
        BY <2>2 DEF Reset
      <4> QED
        BY <4>1, NumbersAre
    <3>4. awaits' \in [Callers -> 0..MaxResets]
      BY <2>2, <3>3 DEF TypeInv, CallsOK
    <3>5. source' \in BOOLEAN /\ core' \in BOOLEAN
      BY <2>2 DEF TypeInv, FlagsOK
    <3> QED
      BY <2>2, <3>2, <3>4, <3>5, ResetType
  <2> QED
    BY <1>5, <2>1, <2>2 DEF Ready
<1>6. ASSUME Record \/ Snapshot \/ Event \/ Reconnect \/ StreamEnds \/ Fly \/ AppendLands
               \/ Read \/ Ensure \/ TailAnswered
      PROVE  TypeInv'
  BY <1>6, RecordType, SnapshotType, EventType, ReconnectType, StreamEndsType, FlyType,
     AppendLandsType, ReadType, EnsureType, TailAnsweredType
<1>7. ASSUME NEW c \in Callers, TimesOut(c) PROVE TypeInv'
  BY <1>7, TimesOutType
<1>8. ASSUME NEW i \in Resets, Drops(i) PROVE TypeInv'
  BY <1>8, DropLandsType, DropFailsType DEF Drops
<1>9. CASE UNCHANGED vars
  BY <1>9 DEF vars, TypeInv, SeqsOK, NumbersOK, FlagsOK, CallsOK, streamVars, hubVars,
              storeVars, resetVars, callVars, turnVars
<1> QED
  BY <1>1, <1>2, <1>3, <1>4, <1>5, <1>6, <1>7, <1>8, <1>9 DEF Next, Happens, Answers

LEMMA Typed == Spec => []TypeInv
BY TypeInit, TypeNext, PTL DEF Spec

(* The variables have their types; a stream stands for a held handle only, *)
(* a handle for an attached source, and every write for a recorded event.  *)
THEOREM HubTypeOK == Spec => []TypeOK
BY Typed, TypeOf, PTL

-----------------------------------------------------------------------------
(* Emission.                                                               *)

(* Whatever was emitted comes before what the stream, or the snapshot it   *)
(* is about to send, will bring next.                                      *)
EmittedBehind ==
  /\ live => \A i \in DOMAIN emitted : emitted[i] <= seen
  /\ handle /\ ~live => \A i \in DOMAIN emitted : emitted[i] <= from

EmissionInv == emitted \in Seq(1..log) /\ EmittedOnce /\ EmittedBehind

LEMMA NotLast == ASSUME NEW n \in Nat, NEW i \in 1..n + 1, i # n + 1 PROVE i \in 1..n
OBVIOUS

(* One more event, later than those emitted. *)
LEMMA EmitOne ==
  ASSUME NEW n \in Nat, NEW s \in Seq(1..n), NEW m \in 1..n,
         \A i, j \in DOMAIN s : i < j => s[i] < s[j],
         \A i \in DOMAIN s : s[i] < m
  PROVE  /\ s \o <<m>> \in Seq(1..n)
         /\ \A i, j \in DOMAIN (s \o <<m>>) : i < j => (s \o <<m>>)[i] < (s \o <<m>>)[j]
         /\ \A i \in DOMAIN (s \o <<m>>) : (s \o <<m>>)[i] <= m
<1> DEFINE t == s \o <<m>>
<1>1. /\ t \in Seq(1..n) /\ Len(t) = Len(s) + 1 /\ Len(s) \in Nat
      /\ DOMAIN t = 1..Len(s) + 1 /\ DOMAIN s = 1..Len(s)
      /\ \A i \in 1..Len(s) : t[i] = s[i]
      /\ t[Len(s) + 1] = m
  OBVIOUS
<1>2. \A i \in 1..Len(s) : s[i] \in Nat /\ s[i] < m
  <2>1. \A i \in 1..Len(s) : s[i] \in 1..n
    BY ElementOfSeq
  <2> QED
    BY <1>1, <2>1
<1> HIDE DEF t
<1>3. \A i \in DOMAIN t : t[i] <= m
  <2> SUFFICES ASSUME NEW i \in 1..Len(s) + 1 PROVE t[i] <= m
    BY <1>1
  <2>1. CASE i = Len(s) + 1
    BY <1>1, <2>1
  <2>2. CASE i # Len(s) + 1
    <3>1. i \in 1..Len(s) /\ t[i] = s[i]
      BY <1>1, <2>2
    <3> QED
      BY <1>2, <3>1
  <2> QED
    BY <2>1, <2>2
<1>4. \A i, j \in DOMAIN t : i < j => t[i] < t[j]
  <2> SUFFICES ASSUME NEW i \in 1..Len(s) + 1, NEW j \in 1..Len(s) + 1, i < j
               PROVE  t[i] < t[j]
    BY <1>1
  <2>1. i \in 1..Len(s)
    BY <1>1
  <2>2. CASE j = Len(s) + 1
    <3>1. t[j] = m /\ t[i] = s[i] /\ s[i] < m
      BY <1>1, <1>2, <2>1, <2>2
    <3> QED
      BY <3>1
  <2>3. CASE j # Len(s) + 1
    <3>0. Len(s) \in Nat
      BY <1>1
    <3>j. j \in 1..Len(s)
      BY <2>3, <3>0, NotLast
    <3>1. t[j] = s[j] /\ t[i] = s[i]
      BY <1>1, <2>1, <3>j
    <3>2. i \in DOMAIN s /\ j \in DOMAIN s
      BY <1>1, <2>1, <3>j
    <3> QED
      BY <3>1, <3>2
  <2> QED
    BY <2>2, <2>3
<1> QED
  BY <1>1, <1>3, <1>4 DEF t

(* Nothing is emitted, and the stream does not fall behind what was. *)
LEMMA EmitNothing ==
  ASSUME TypeInv, EmissionInv, UNCHANGED <<log, emitted>>, EmittedBehind'
  PROVE  EmissionInv'
BY DEF EmissionInv, EmittedOnce

(* The stream stays as it is, or its handle is closed. *)
LEMMA EmitStream ==
  ASSUME TypeInv, EmissionInv, UNCHANGED <<log, emitted>>,
         \/ UNCHANGED <<handle, live, from, seen>>
         \/ handle' = FALSE /\ live' = FALSE
  PROVE  EmissionInv'
<1>1. EmittedBehind'
  BY DEF EmissionInv, EmittedBehind
<1> QED
  BY <1>1, EmitNothing

LEMMA EmittedNumbers ==
  ASSUME TypeInv, EmissionInv
  PROVE  \A i \in DOMAIN emitted : emitted[i] \in 1..log
<1>1. emitted \in Seq(1..log)
  BY DEF EmissionInv
<1> QED
  BY <1>1, ElementOfSeq, LenProperties

LEMMA EmissionNext ==
  ASSUME TypeInv, EmissionInv, [Next]_vars
  PROVE  EmissionInv'
<1>n. log \in Nat /\ baseline \in Nat /\ from \in Nat /\ seen \in Nat
  BY NumbersAre
<1>1. CASE Record
  <2>1. log' = log + 1 /\ UNCHANGED <<emitted, handle, live, from, seen>>
    BY <1>1 DEF Record, streamVars, hubVars
  <2>2. 1..log \subseteq 1..log'
    BY <1>n, <2>1
  <2>3. emitted' \in Seq(1..log')
    BY <2>1, <2>2, SeqMonotonic DEF EmissionInv
  <2> QED
    BY <2>1, <2>3 DEF EmissionInv, EmittedOnce, EmittedBehind
<1>2. CASE Snapshot
  <2>1. PICK n \in 0..log : from <= n /\ seen' = n /\ Ingest(WindowStart(n), n, TRUE)
    BY <1>2, SnapshotFrame
  <2>2. UNCHANGED <<log, emitted, handle>> /\ live' = TRUE /\ handle /\ ~live
    BY <1>2, <2>1 DEF Snapshot, Ingest, Emits
  <2>3. \A i \in DOMAIN emitted : emitted[i] <= seen'
    <3>1. ASSUME NEW i \in DOMAIN emitted PROVE emitted[i] <= seen'
      <4>1. emitted[i] <= from /\ emitted[i] \in 1..log
        BY <2>2, EmittedNumbers DEF EmissionInv, EmittedBehind
      <4> QED
        BY <1>n, <2>1, <4>1
    <3> QED
      BY <3>1
  <2>4. EmittedBehind'
    BY <2>2, <2>3 DEF EmittedBehind
  <2> QED
    BY <2>2, <2>4, EmitNothing
<1>3. CASE Event
  <2>1. /\ live /\ seen < log /\ seen' = seen + 1 /\ live' = live /\ log' = log
        /\ Ingest(seen, seen + 1, FALSE)
    BY <1>3 DEF Event
  <2>2. emitted' = emitted \o Accepted(seen, seen + 1)
    BY <2>1 DEF Ingest, Emits
  <2>3. CASE seen + 1 <= baseline
    <3>1. emitted' = emitted
      BY <2>2, <2>3 DEF Accepted, EmissionInv
    <3>2. \A i \in DOMAIN emitted : emitted[i] <= seen'
      <4>1. ASSUME NEW i \in DOMAIN emitted PROVE emitted[i] <= seen'
        <5>1. emitted[i] <= seen /\ emitted[i] \in 1..log
          BY <2>1, EmittedNumbers DEF EmissionInv, EmittedBehind
        <5> QED
          BY <1>n, <2>1, <5>1
      <4> QED
        BY <4>1
    <3>3. EmittedBehind'
      BY <2>1, <3>1, <3>2 DEF EmittedBehind
    <3> QED
      BY <2>1, <3>1, <3>3, EmitNothing
  <2>4. CASE baseline < seen + 1
    <3>1. emitted' = emitted \o <<seen + 1>>
      <4>1. Accepted(seen, seen + 1) = [i \in 1..1 |-> seen + 1]
        BY <1>n, <2>4 DEF Accepted, Between
      <4>2. [i \in 1..1 |-> seen + 1] = <<seen + 1>>
        OBVIOUS
      <4> QED
        BY <2>2, <4>1, <4>2
    <3>2. \A i \in DOMAIN emitted : emitted[i] < seen + 1
      <4>1. ASSUME NEW i \in DOMAIN emitted PROVE emitted[i] < seen + 1
        <5>1. emitted[i] <= seen /\ emitted[i] \in 1..log
          BY <2>1, EmittedNumbers DEF EmissionInv, EmittedBehind
        <5> QED
          BY <1>n, <5>1
      <4> QED
        BY <4>1
    <3>3. seen + 1 \in 1..log
      BY <1>n, <2>1
    <3>4. /\ emitted' \in Seq(1..log) /\ EmittedOnce'
          /\ \A i \in DOMAIN emitted' : emitted'[i] <= seen + 1
      BY <1>n, <3>1, <3>2, <3>3, EmitOne DEF EmissionInv, EmittedOnce
    <3> QED
      BY <2>1, <3>4 DEF EmissionInv, EmittedBehind
  <2> QED
    BY <1>n, <2>3, <2>4
<1>4. CASE Reconnect
  <2>1. UNCHANGED <<log, emitted>> /\ live' = FALSE /\ from' = log
    BY <1>4 DEF Reconnect
  <2>2. EmittedBehind'
    BY <1>n, <2>1, EmittedNumbers DEF EmittedBehind
  <2> QED
    BY <2>1, <2>2, EmitNothing
<1>5. ASSUME NEW c \in Callers, Open(c) PROVE EmissionInv'
  <2>1. UNCHANGED <<log, emitted>>
    BY <1>5 DEF Open
  <2>2. CASE UNCHANGED <<handle, live, from, seen>>
    BY <2>1, <2>2, EmitStream
  <2>3. CASE live' = FALSE /\ from' = log
    <3>1. EmittedBehind'
      BY <1>n, <2>1, <2>3, EmittedNumbers DEF EmittedBehind
    <3> QED
      BY <2>1, <3>1, EmitNothing
  <2> QED
    BY <1>5, <2>2, <2>3 DEF Open, hubVars, streamVars
<1>6. ASSUME CloseHandle, UNCHANGED <<log, emitted>> PROVE EmissionInv'
  BY <1>6, EmitStream DEF CloseHandle
<1>7. CASE StreamEnds
  BY <1>6, <1>7 DEF StreamEnds
<1>8. ASSUME NEW A, Reset(A) PROVE EmissionInv'
  BY <1>6, <1>8 DEF Reset
<1>9. CASE Detach \/ Attach
  BY <1>8, <1>9 DEF Detach, Attach
<1>10. CASE Ready
  BY <1>8, <1>10, EmitStream DEF Ready, hubVars, streamVars
<1>11. ASSUME NEW c \in Callers, TimesOut(c) \/ Throw(c) PROVE EmissionInv'
  BY <1>6, <1>11, EmitStream DEF TimesOut, Throw, GiveUp, CallUnchanged, streamVars
<1>12. ASSUME NEW c \in Callers, Flushes(c) \/ Return(c) PROVE EmissionInv'
  BY <1>12, EmitStream DEF Flushes, Flush, Return, CallUnchanged, streamVars, hubVars
<1>13. CASE AppendFails \/ Crash
  BY <1>13, EmitStream DEF AppendFails, Crash, LoseFlight, streamVars, hubVars
<1>14. CASE Fly \/ AppendLands \/ Read \/ Ensure \/ TailAnswered
  BY <1>14, EmitStream
  DEF Fly, AppendLands, Read, Ensure, TailAnswered, CallUnchanged, streamVars, hubVars
<1>15. ASSUME NEW i \in Resets, ClearDrops(i) \/ Drops(i) PROVE EmissionInv'
  BY <1>15, EmitStream DEF ClearDrops, Drops, DropLands, DropFails, streamVars, hubVars
<1>16. CASE UNCHANGED vars
  BY <1>16, EmitStream DEF vars, streamVars, hubVars
<1> QED
  BY <1>1, <1>2, <1>3, <1>4, <1>5, <1>7, <1>9, <1>10, <1>11, <1>12, <1>13, <1>14, <1>15, <1>16
  DEF Next, Continue, Happens, Answers

(* ingest: no event is emitted twice or out of order, whatever streams     *)
(* end, reconnect and are reset, and whatever snapshots come in between.   *)
THEOREM EmittedInOrder == Spec => []EmittedOnce
<1>1. Init => EmissionInv
  BY DEF Init, EmissionInv, EmittedOnce, EmittedBehind
<1>2. TypeInv /\ EmissionInv /\ [Next]_vars => EmissionInv'
  BY EmissionNext
<1>3. EmissionInv => EmittedOnce
  BY DEF EmissionInv
<1> QED
  BY <1>1, <1>2, <1>3, Typed, PTL DEF Spec

-----------------------------------------------------------------------------
(* What a call waits for: a clear that was begun, a snapshot some open()   *)
(* has put a limit to, or an append with an event it awaits.               *)

ResetsBegun ==
  /\ \A i \in Resets : i <= resets => clear[i] # "none"
  /\ \A c \in Callers : awaits[c] \in 0..resets

LEMMA BegunNext ==
  ASSUME TypeInv, ResetsBegun, [Next]_vars
  PROVE  ResetsBegun'
<1>n. resets \in Nat /\ MaxResets \in Nat
  BY NumbersAre
<1>t. clear \in [Resets -> {"none", "flush", "drop", "done"}] /\ awaits \in [Callers -> 0..MaxResets]
  BY DEF TypeInv, CallsOK
<1>1. ASSUME UNCHANGED resets,
             \A i \in Resets : clear'[i] = "none" => clear[i] = "none",
             \A c \in Callers : awaits'[c] \in {awaits[c], 0, resets}
      PROVE  ResetsBegun'
  BY <1>1, <1>n DEF ResetsBegun
<1>2. ASSUME NEW A, Reset(A), \A c \in Callers : awaits'[c] \in {awaits[c], resets + 1}
      PROVE  ResetsBegun'
  <2>1. resets' = resets + 1 /\ clear' = [clear EXCEPT ![resets + 1] = "flush"]
    BY <1>2 DEF Reset
  <2>2. \A i \in Resets : i <= resets + 1 => clear'[i] # "none"
    BY <1>n, <1>t, <2>1 DEF ResetsBegun, Resets
  <2>3. \A c \in Callers : awaits'[c] \in 0..resets + 1
    BY <1>2, <1>n DEF ResetsBegun
  <2> QED
    BY <2>1, <2>2, <2>3 DEF ResetsBegun
<1>3. CASE Detach \/ Attach
  BY <1>2, <1>3 DEF Detach, Attach
<1>4. CASE Ready
  <2>1. ASSUME NEW A, Reset(A),
               UNCHANGED awaits \/ awaits' = [awaits EXCEPT !["rehydrate"] = resets + 1]
        PROVE  ResetsBegun'
    BY <1>2, <1>t, <2>1
  <2>2. CASE UNCHANGED <<resetVars, callVars>>
    BY <1>1, <2>2 DEF resetVars, callVars
  <2> QED
    BY <1>4, <2>1, <2>2 DEF Ready
<1>5. ASSUME NEW i \in Resets, ClearDrops(i) \/ Drops(i) PROVE ResetsBegun'
  BY <1>1, <1>5, <1>t DEF ClearDrops, Drops, DropLands, DropFails, callVars
<1>6. CASE AppendFails \/ Crash
  BY <1>1, <1>6, <1>t DEF AppendFails, Crash, LoseFlight
<1>7. CASE Read \/ Ensure
  BY <1>1, <1>7, <1>t DEF Read, Ensure, CallUnchanged, resetVars
<1>8. ASSUME NEW c \in Callers, Open(c) PROVE ResetsBegun'
  BY <1>1, <1>8, <1>t DEF Open, resetVars
<1>9. ASSUME NEW c \in Callers, TimesOut(c) \/ Throw(c) \/ Flushes(c) \/ Return(c)
      PROVE  ResetsBegun'
  BY <1>1, <1>9 DEF TimesOut, Throw, Flushes, Flush, Return, CallUnchanged, resetVars
<1>10. CASE Record \/ Snapshot \/ Event \/ Reconnect \/ StreamEnds \/ Fly \/ AppendLands \/ TailAnswered
  BY <1>1, <1>10
  DEF Record, Snapshot, Event, Reconnect, StreamEnds, Fly, AppendLands, TailAnswered,
      CallUnchanged, callVars, resetVars
<1>11. CASE UNCHANGED vars
  BY <1>1, <1>11 DEF vars, callVars, resetVars
<1> QED
  BY <1>3, <1>4, <1>5, <1>6, <1>7, <1>8, <1>9, <1>10, <1>11 DEF Next, Continue, Happens, Answers

(* Writes that are not tracked any more are awaited as before.             *)
LEMMA UntrackedAwaited ==
  ASSUME NEW n, NEW s \in Seq(Entries(n)), NEW t \in Untracked(s)
  PROVE  \A c : Awaited(t, c) <=> Awaited(s, c)
BY UntrackedAre DEF Awaited

LEMMA NoneAwaited == \A c : ~Awaited(<<>>, c)
BY DEF Awaited

(* The calls that wait for the append under way. *)
Struck == UNION {e.awaited : e \in ToSet(flying)}

WaitersFlush ==
  \A c \in Callers : Waits(c) <=> pc[c] \in {"flush", "drain flush"}

LEMMA StruckAre ==
  ASSUME TypeInv, NEW c
  PROVE  c \in Struck <=> Awaited(flying, c)
BY DEF Struck, Awaited, ToSet

LEMMA StruckWait ==
  ASSUME TypeInv, NEW c \in Struck
  PROVE  Waits(c)
BY StruckAre, WaitsAre DEF TypeInv, SeqsOK, Waits, Writes, Pending

(* The same calls wait, and the same calls are at a flush. *)
LEMMA StillWaiting ==
  ASSUME TypeInv, TypeInv', WaitersFlush,
         \A c \in Callers :
           /\ Awaited(flying', c) \/ Awaited(batch', c) <=> Awaited(flying, c) \/ Awaited(batch, c)
           /\ pc'[c] \in {"flush", "drain flush"} <=> pc[c] \in {"flush", "drain flush"}
  PROVE  WaitersFlush'
<1>1. \A c \in Callers : Waits(c) <=> Awaited(flying, c) \/ Awaited(batch, c)
  BY WaitsAre DEF TypeInv, SeqsOK, Waits, Writes, Pending
<1>2. \A c \in Callers : Waits(c)' <=> Awaited(flying', c) \/ Awaited(batch', c)
  BY WaitsAre DEF TypeInv, SeqsOK, Waits, Writes, Pending
<1> QED
  BY <1>1, <1>2 DEF WaitersFlush

(* One call begins to wait for some writes, if there are any. *)
LEMMA OneMoreWaits ==
  ASSUME TypeInv, TypeInv', WaitersFlush, NEW c \in Callers,
         pc[c] \notin {"flush", "drain flush"},
         NEW S \in SUBSET Writes, AwaitWrites(c, S),
         \A d \in Callers \ {c} : pc'[d] = pc[d],
         pc'[c] \in {"flush", "drain flush"} <=> S # {}
  PROVE  WaitersFlush'
<1> DEFINE await(s) == [i \in DOMAIN s |->
             IF s[i] \in S THEN [s[i] EXCEPT !.awaited = @ \cup {c}] ELSE s[i]]
<1>1. \A d \in Callers : Waits(d) <=> Awaited(flying, d) \/ Awaited(batch, d)
  BY WaitsAre DEF TypeInv, SeqsOK, Waits, Writes, Pending
<1>2. \A d \in Callers : Waits(d)' <=> Awaited(flying', d) \/ Awaited(batch', d)
  BY WaitsAre DEF TypeInv, SeqsOK, Waits, Writes, Pending
<1>3. batch' = await(batch) /\ flying' = await(flying)
  BY DEF AwaitWrites
<1>4. ASSUME NEW s \in Seq(Entries(log))
      PROVE  /\ \A d \in Callers \ {c} : Awaited(await(s), d) <=> Awaited(s, d)
             /\ Awaited(await(s), c) <=> Awaited(s, c) \/ \E i \in DOMAIN s : s[i] \in S
  <2>1. \A i \in DOMAIN s : s[i] \in Entries(log)
    BY LenProperties, ElementOfSeq
  <2>2. ASSUME NEW i \in DOMAIN s
        PROVE  /\ \A d \in Callers \ {c} : d \in await(s)[i].awaited <=> d \in s[i].awaited
               /\ c \in await(s)[i].awaited <=> c \in s[i].awaited \/ s[i] \in S
    BY <2>1 DEF Entries
  <2>3. DOMAIN await(s) = DOMAIN s
    OBVIOUS
  <2> HIDE DEF await
  <2> QED
    BY <2>2, <2>3 DEF Awaited
<1>5. batch \in Seq(Entries(log)) /\ flying \in Seq(Entries(log))
  BY DEF TypeInv, SeqsOK
<1>6. S # {} <=> (\E i \in DOMAIN flying : flying[i] \in S) \/ (\E i \in DOMAIN batch : batch[i] \in S)
  <2>1. Writes = {flying[i] : i \in DOMAIN flying} \cup {batch[i] : i \in DOMAIN batch}
    BY <1>5, PendingOnes DEF Writes, Pending
  <2>2. ASSUME NEW e \in S
        PROVE  (\E i \in DOMAIN flying : flying[i] = e) \/ (\E i \in DOMAIN batch : batch[i] = e)
    BY <2>1
  <2> QED
    BY <2>2
<1> HIDE DEF await
<1>7. \A d \in Callers \ {c} : Waits(d)' <=> Waits(d)
  BY <1>1, <1>2, <1>3, <1>4, <1>5
<1>8. Waits(c)' <=> Waits(c) \/ S # {}
  BY <1>1, <1>2, <1>3, <1>4, <1>5, <1>6
<1> QED
  BY <1>7, <1>8 DEF WaitersFlush

LEMMA WaitersNext ==
  ASSUME TypeInv, WaitersFlush, [Next]_vars
  PROVE  WaitersFlush'
<1> DEFINE FP == {"flush", "drain flush"}
<1>t. TypeInv' /\ pc \in [Callers -> Steps]
  BY TypeNext DEF TypeInv, CallsOK
<1>1. ASSUME UNCHANGED <<batch, flying>>,
             \A c \in Callers : pc'[c] \in FP <=> pc[c] \in FP
      PROVE  WaitersFlush'
  BY <1>1, <1>t, StillWaiting
<1>2. ASSUME NEW c \in Callers, NEW place, Goto(c, place), pc[c] \notin FP, place \notin FP,
             UNCHANGED <<batch, flying>>
      PROVE  WaitersFlush'
  BY <1>1, <1>2, <1>t DEF Goto
<1>3. \A c \in Callers : Refusing[c] \in FP <=> pc[c] \in FP
  BY DEF Refusing
<1>4. ASSUME NEW c \in Callers, Open(c) PROVE WaitersFlush'
  <2>1. PICK place \in {"opened", "ready", "failed"} : Goto(c, place)
    BY <1>4 DEF Open, Followed
  <2> QED
    BY <1>2, <1>4, <2>1 DEF Open, At, storeVars
<1>5. ASSUME NEW c \in Callers, TimesOut(c) \/ Throw(c) PROVE WaitersFlush'
  <2>1. CASE Goto(c, "failed") /\ pc[c] = "refused"
    BY <1>2, <1>5, <2>1 DEF TimesOut, Throw, storeVars
  <2>2. CASE GiveUp(c) /\ pc[c] \in {"ready", "refused"}
    <3>1. Refusing \in [Callers -> Steps]
      BY <1>t, RefusingType
    <3>2. \A d \in Callers : pc'[d] \in FP <=> pc[d] \in FP
      BY <1>3, <2>2, <3>1 DEF GiveUp
    <3> QED
      BY <1>1, <1>5, <3>2 DEF TimesOut, Throw, storeVars
  <2> QED
    BY <1>5, <2>1, <2>2 DEF TimesOut, Throw, At
<1>6. ASSUME NEW c \in Callers, Flushes(c) PROVE WaitersFlush'
  <2>1. ASSUME NEW S \in SUBSET Writes, NEW waiting \in FP, NEW beyond, beyond \notin FP,
               pc[c] \notin FP, Flush(c, S, waiting, beyond)
        PROVE  WaitersFlush'
    BY <1>t, <2>1, OneMoreWaits DEF Flush, Goto
  <2>2. Tracked \in SUBSET Writes /\ Writes \in SUBSET Writes
    BY DEF Tracked
  <2>3. CASE At(c, "opened") /\ Flush(c, Tracked, "flush", IF c = "read" THEN "drain" ELSE "done")
    BY <2>1, <2>2, <2>3 DEF At
  <2>4. CASE At(c, "drain") /\ Flush(c, Writes, "drain flush", "tail")
    BY <2>1, <2>2, <2>4 DEF At
  <2> QED
    BY <1>6, <2>3, <2>4 DEF Flushes
<1>7. ASSUME NEW c \in Callers, Return(c) PROVE WaitersFlush'
  BY <1>2, <1>7 DEF Return, Over, storeVars
<1>8. ASSUME NEW i \in Resets, ClearDrops(i) \/ Drops(i) PROVE WaitersFlush'
  BY <1>1, <1>8 DEF ClearDrops, Drops, DropLands, DropFails, storeVars, callVars
<1>9. ASSUME Snapshot \/ Event
      PROVE  flying' = flying /\ \A c : Awaited(batch', c) <=> Awaited(batch, c)
  <2>1. CASE Snapshot
    <3>1. PICK n \in 0..log : /\ WindowStart(n) \in Nat /\ (WindowStart(n) < n \/ WindowStart(n) = 0)
                              /\ Ingest(WindowStart(n), n, TRUE)
      BY <2>1, SnapshotFrame
    <3> QED
      BY <3>1, IngestType
  <2>2. CASE Event
    <3>1. Ingest(seen, seen + 1, FALSE) /\ seen < log
      BY <2>2 DEF Event
    <3>2. seen \in Nat /\ seen + 1 \in 0..log /\ seen < seen + 1
      BY <3>1, NumbersAre
    <3> QED
      BY <3>1, <3>2, IngestType
  <2> QED
    BY <1>9, <2>1, <2>2
<1>10. CASE Snapshot \/ Event
  <2>1. \A c \in Callers : pc'[c] \in FP <=> pc[c] \in FP
    BY <1>10 DEF Snapshot, Event, callVars
  <2> QED
    BY <1>9, <1>10, <1>t, <2>1, StillWaiting
<1>11. CASE Fly
  <2>1. flying = <<>> /\ flying' = batch /\ batch' = <<>> /\ UNCHANGED pc
    BY <1>11 DEF Fly, callVars
  <2>2. \A c \in Callers : ~Awaited(<<>>, c)
    BY DEF Awaited
  <2> QED
    BY <1>t, <2>1, <2>2, StillWaiting
<1>12. CASE AppendLands
  <2>1. /\ flying' = <<>> /\ batch' \in Untracked(batch)
        /\ \A c \in Callers :
             pc'[c] = IF Waits(c) /\ ~Awaited(batch, c) THEN After(c) ELSE pc[c]
    BY <1>12 DEF AppendLands, Wake, Awaited, ToSet
  <2>2. \A c \in Callers : Waits(c)' <=> Awaited(batch, c)
    <3>1. \A c \in Callers : Waits(c)' <=> Awaited(flying', c) \/ Awaited(batch', c)
      BY <1>t, WaitsAre DEF TypeInv, SeqsOK, Waits, Writes, Pending
    <3>2. \A c : Awaited(batch', c) <=> Awaited(batch, c)
      BY <2>1, UntrackedAwaited DEF TypeInv, SeqsOK
    <3>3. \A c : ~Awaited(flying', c)
      BY <2>1, NoneAwaited
    <3> QED
      BY <3>1, <3>2, <3>3
  <2>3. \A c \in Callers : Awaited(batch, c) => Waits(c)
    BY WaitsAre DEF TypeInv, SeqsOK, Waits, Writes, Pending
  <2>4. \A c \in Callers : After(c) \notin FP
    BY DEF After
  <2> QED
    BY <2>1, <2>2, <2>3, <2>4 DEF WaitersFlush
<1>13. ASSUME NEW S, NEW T, LoseFlight(S, T), \A c \in S : pc[c] = "tail" PROVE WaitersFlush'
  <2> DEFINE hit == UNION {e.awaited : e \in ToSet(flying)}
             hitClears == UNION {e.clears : e \in ToSet(flying)}
             left == [i \in DOMAIN batch |->
                       [batch[i] EXCEPT !.awaited = @ \ hit, !.clears = @ \ hitClears]]
  <2>1. /\ flying' = <<>> /\ batch' \in Untracked(left)
        /\ \A c \in Callers : pc'[c] = IF c \in Struck \cup S
             THEN IF pc[c] = "flush" THEN "refused" ELSE "failed" ELSE pc[c]
    BY <1>13 DEF LoseFlight, Struck
  <2>2. \A c \in Callers : Awaited(left, c) <=> Awaited(batch, c) /\ c \notin Struck
    <3>1. \A i \in DOMAIN batch : batch[i] \in Entries(log)
      BY LenProperties, ElementOfSeq DEF TypeInv, SeqsOK
    <3>2. ASSUME NEW i \in DOMAIN batch, NEW c
          PROVE  c \in left[i].awaited <=> c \in batch[i].awaited /\ c \notin hit
      BY <3>1 DEF Entries
    <3>3. DOMAIN left = DOMAIN batch /\ hit = Struck
      BY DEF Struck
    <3> HIDE DEF left, hit
    <3> QED
      BY <3>2, <3>3 DEF Awaited
  <2>3. \A c \in Callers : Waits(c)' <=> Awaited(batch, c) /\ c \notin Struck
    <3>1. \A c \in Callers : Waits(c)' <=> Awaited(flying', c) \/ Awaited(batch', c)
      BY <1>t, WaitsAre DEF TypeInv, SeqsOK, Waits, Writes, Pending
    <3>2. \A c \in Callers : ~Awaited(flying', c)
      <4>2. flying' = <<>>
        BY <2>1
      <4> QED
        BY <4>2, NoneAwaited
    <3>3. left \in Seq(Entries(log))
      <4>1. batch \in Seq(Entries(log))
        BY DEF TypeInv, SeqsOK
      <4> HIDE DEF hit, hitClears
      <4> QED
        BY <4>1, LoseType
    <3> HIDE DEF left
    <3>4. \A c : Awaited(batch', c) <=> Awaited(left, c)
      BY <2>1, <3>3, UntrackedAwaited
    <3> QED
      BY <2>2, <3>1, <3>2, <3>4
  <2>4. \A c \in Callers : Waits(c) <=> Awaited(batch, c) \/ c \in Struck
    BY WaitsAre, StruckAre DEF TypeInv, SeqsOK, Waits, Writes, Pending
  <2> HIDE DEF left
  <2> QED
    BY <1>13, <2>1, <2>3, <2>4 DEF WaitersFlush
<1>14. CASE AppendFails \/ Crash
  BY <1>13, <1>14 DEF AppendFails, Crash
<1>15. ASSUME NEW A, Reset(A), \A c \in Callers : pc'[c] \in FP <=> pc[c] \in FP /\ c \notin A
       PROVE  WaitersFlush'
  <2> DEFINE forget(w) == [i \in DOMAIN w |->
               [w[i] EXCEPT !.tracked = FALSE, !.awaited = @ \ A, !.clears = @ \cup {resets + 1}]]
  <2>1. batch' = forget(batch) /\ flying' = forget(flying)
    BY <1>15 DEF Reset
  <2>2. ASSUME NEW w \in Seq(Entries(log)), NEW c
        PROVE  Awaited(forget(w), c) <=> Awaited(w, c) /\ c \notin A
    <3>1. \A i \in DOMAIN w : w[i] \in Entries(log)
      BY LenProperties, ElementOfSeq
    <3>2. \A i \in DOMAIN w : forget(w)[i].awaited = w[i].awaited \ A
      BY <3>1 DEF Entries
    <3>3. DOMAIN forget(w) = DOMAIN w
      OBVIOUS
    <3> HIDE DEF forget
    <3> QED
      BY <3>2, <3>3 DEF Awaited
  <2>3. batch \in Seq(Entries(log)) /\ flying \in Seq(Entries(log))
    BY DEF TypeInv, SeqsOK
  <2> HIDE DEF forget
  <2>4. \A c \in Callers : /\ Awaited(batch', c) <=> Awaited(batch, c) /\ c \notin A
                           /\ Awaited(flying', c) <=> Awaited(flying, c) /\ c \notin A
    BY <2>1, <2>2, <2>3
  <2>5. \A c \in Callers : Waits(c)' <=> Awaited(flying', c) \/ Awaited(batch', c)
    BY <1>t, WaitsAre DEF TypeInv, SeqsOK, Waits, Writes, Pending
  <2>6. \A c \in Callers : Waits(c) <=> Awaited(flying, c) \/ Awaited(batch, c)
    BY WaitsAre DEF TypeInv, SeqsOK, Waits, Writes, Pending
  <2> QED
    BY <1>15, <2>4, <2>5, <2>6 DEF WaitersFlush
<1>16. CASE Detach \/ Attach
  BY <1>3, <1>15, <1>16 DEF Detach, Attach
<1>17. CASE Ready
  <2>1. CASE UNCHANGED <<storeVars, callVars>>
    BY <1>1, <2>1 DEF storeVars, callVars
  <2>2. Refusing \in [Callers -> Steps]
    BY <1>t, RefusingType
  <2>3. CASE Reset({}) /\ pc' = Refusing
    BY <1>3, <1>15, <2>3
  <2>4. CASE Reset({"rehydrate"}) /\ pc' = [Refusing EXCEPT !["rehydrate"] = "reset"]
    <3>1. \A c \in Callers : pc'[c] \in FP <=> pc[c] \in FP /\ c \notin {"rehydrate"}
      BY <1>3, <2>2, <2>4
    <3> QED
      BY <1>15, <2>4, <3>1
  <2> QED
    BY <1>17, <2>1, <2>3, <2>4 DEF Ready
<1>18. CASE StreamEnds
  BY <1>1, <1>3, <1>18 DEF StreamEnds, storeVars
<1>19. CASE Read
  BY <1>2, <1>19 DEF Read, At, Callers, storeVars
<1>20. CASE Ensure
  <2>1. At("ensure", "idle") /\ "ensure" \in Callers /\ Tracked \in SUBSET Writes
    BY <1>20 DEF Ensure, Callers, Tracked
  <2>2. CASE AwaitWrites("ensure", Tracked)
             /\ Goto("ensure", IF Tracked # {} THEN "flush" ELSE "done")
    <3>1. \A d \in Callers \ {"ensure"} : pc'[d] = pc[d]
      BY <2>2 DEF Goto, TypeInv, CallsOK
    <3>2. pc'["ensure"] \in FP <=> Tracked # {}
      BY <2>1, <2>2 DEF Goto, TypeInv, CallsOK
    <3>3. pc["ensure"] \notin FP
      BY <2>1 DEF At
    <3> QED
      BY <1>t, <2>1, <2>2, <3>1, <3>2, <3>3, OneMoreWaits
  <2>3. CASE Goto("ensure", "reset") /\ UNCHANGED storeVars
    BY <1>2, <2>1, <2>3 DEF At, storeVars
  <2> QED
    BY <1>20, <2>2, <2>3 DEF Ensure
<1>21. CASE TailAnswered
  <2>1. At("read", "tail") /\ "read" \in Callers /\ UNCHANGED storeVars
    BY <1>21 DEF TailAnswered, Callers
  <2>2. PICK place \in {"answered", "failed"} : Goto("read", place)
    BY <1>21 DEF TailAnswered
  <2> QED
    BY <1>2, <2>1, <2>2 DEF At, storeVars
<1>22. CASE Record \/ Reconnect
  BY <1>1, <1>22 DEF Record, Reconnect, storeVars, callVars
<1>23. CASE UNCHANGED vars
  BY <1>1, <1>23 DEF vars, storeVars, callVars
<1> QED
  BY <1>4, <1>5, <1>6, <1>7, <1>8, <1>10, <1>11, <1>12, <1>14, <1>16, <1>17, <1>18, <1>19, <1>20,
     <1>21, <1>22, <1>23
  DEF Next, Continue, Happens, Answers

(* A handle that is not settled has an opener, which waits with a limit;   *)
(* who waits for a snapshot waits for that of a held handle.               *)
OpenerWaits ==
  /\ \A c \in Callers : At(c, "ready") => handle /\ ~settled
  /\ handle /\ ~settled => opener \in Callers /\ At(opener, "ready")

(* A step of one caller that was not waiting for a snapshot. *)
LEMMA OthersWait ==
  ASSUME TypeInv, OpenerWaits, NEW c \in Callers, ~At(c, "ready"),
         NEW place, place # "ready", pc' = [pc EXCEPT ![c] = place],
         UNCHANGED <<handle, settled, opener>>
  PROVE  OpenerWaits'
BY DEF OpenerWaits, At, TypeInv, CallsOK

LEMMA ClosedWaits ==
  ASSUME TypeInv, ~handle', \A c \in Callers : pc'[c] # "ready"
  PROVE  OpenerWaits'
BY DEF OpenerWaits, At

LEMMA OpenerNext ==
  ASSUME TypeInv, WaitersFlush, OpenerWaits, [Next]_vars
  PROVE  OpenerWaits'
<1>t. pc \in [Callers -> Steps]
  BY DEF TypeInv, CallsOK
<1>1. ASSUME UNCHANGED <<pc, handle, settled, opener>> PROVE OpenerWaits'
  BY <1>1 DEF OpenerWaits, At
<1>2. \A c \in Callers : Refusing[c] # "ready"
  BY DEF Refusing
<1>3. ASSUME NEW c \in Callers, Open(c) PROVE OpenerWaits'
  <2>1. At(c, "reset")
    BY <1>3 DEF Open
  <2>2. CASE /\ handle /\ Goto(c, IF settled THEN "opened" ELSE "ready")
             /\ UNCHANGED <<handle, settled, opener>>
    <3>1. CASE settled
      BY <1>t, <2>1, <2>2, <3>1 DEF OpenerWaits, At, Goto
    <3>2. CASE ~settled
      <4>1. opener \in Callers /\ At(opener, "ready") /\ opener # c
        BY <2>1, <2>2, <3>2 DEF OpenerWaits, At
      <4> QED
        BY <1>t, <2>2, <3>2, <4>1 DEF OpenerWaits, At, Goto
    <3> QED
      BY <3>1, <3>2
  <2>3. CASE ~handle /\ handle' = TRUE /\ settled' = FALSE /\ opener' = c /\ Goto(c, "ready")
    BY <1>t, <2>3 DEF OpenerWaits, At, Goto
  <2>4. CASE Goto(c, "failed") /\ UNCHANGED hubVars
    BY <2>1, <2>4, OthersWait DEF Goto, At, hubVars
  <2> QED
    BY <1>3, <2>2, <2>3, <2>4 DEF Open, Followed, hubVars
<1>4. CASE Snapshot
  <2>1. handle' = handle /\ settled' = TRUE
        /\ pc' = [c \in Callers |-> IF pc[c] = "ready" THEN "opened" ELSE pc[c]]
    BY <1>4 DEF Snapshot
  <2> QED
    BY <2>1 DEF OpenerWaits, At
<1>5. CASE StreamEnds \/ Detach \/ Attach
  BY <1>2, <1>5, ClosedWaits DEF StreamEnds, Detach, Attach, Reset, CloseHandle
<1>6. CASE Ready
  <2>1. CASE UNCHANGED <<handle, settled, opener, callVars>>
    BY <1>1, <2>1 DEF callVars
  <2>2. ASSUME NEW A, Reset(A), pc' = Refusing \/ pc' = [Refusing EXCEPT !["rehydrate"] = "reset"]
        PROVE  OpenerWaits'
    <3>1. Refusing \in [Callers -> Steps]
      BY <1>t, RefusingType
    <3> QED
      BY <1>2, <2>2, <3>1, ClosedWaits DEF Reset, CloseHandle
  <2> QED
    BY <1>6, <2>1, <2>2 DEF Ready
<1>7. ASSUME NEW c \in Callers, GiveUp(c) PROVE OpenerWaits'
  <2>1. Refusing \in [Callers -> Steps]
    BY <1>t, RefusingType
  <2> QED
    BY <1>2, <1>7, <2>1, ClosedWaits DEF GiveUp, CloseHandle
<1>8. ASSUME NEW c \in Callers, TimesOut(c) \/ Throw(c) PROVE OpenerWaits'
  BY <1>7, <1>8, OthersWait DEF TimesOut, Throw, Goto, At
<1>9. ASSUME NEW c \in Callers, Flushes(c) PROVE OpenerWaits'
  <2>1. PICK place : pc' = [pc EXCEPT ![c] = place] /\ place # "ready"
    BY <1>9 DEF Flushes, Flush, Goto
  <2>2. ~At(c, "ready") /\ UNCHANGED <<handle, settled, opener>>
    BY <1>9 DEF Flushes, Flush, hubVars, At
  <2> QED
    BY <2>1, <2>2, OthersWait
<1>20. ASSUME NEW c \in Callers, Return(c) PROVE OpenerWaits'
  <2>1. /\ pc' = [pc EXCEPT ![c] = "idle"] /\ ~At(c, "ready") /\ UNCHANGED <<handle, settled>>
        /\ opener' = IF opener = c THEN Nobody ELSE opener
    BY <1>20 DEF Return, Goto, Over, At
  <2>2. handle /\ ~settled => opener # c
    BY <2>1 DEF OpenerWaits
  <2> QED
    BY <1>t, <2>1, <2>2 DEF OpenerWaits, At
<1>10. ASSUME NEW c \in Callers, ~At(c, "ready"), NEW place, place # "ready", Goto(c, place),
              UNCHANGED hubVars
       PROVE  OpenerWaits'
  BY <1>10, OthersWait DEF Goto, hubVars
<1>11. CASE Read
  BY <1>10, <1>11 DEF Read, At, Callers
<1>12. CASE Ensure
  <2>1. At("ensure", "idle") /\ "ensure" \in Callers /\ UNCHANGED hubVars
    BY <1>12 DEF Ensure, Callers
  <2>2. PICK place : place # "ready" /\ Goto("ensure", place)
    BY <1>12 DEF Ensure
  <2> QED
    BY <1>10, <2>1, <2>2 DEF At
<1>13. CASE TailAnswered
  <2>1. At("read", "tail") /\ "read" \in Callers /\ UNCHANGED hubVars
    BY <1>13 DEF TailAnswered, Callers
  <2>2. PICK place : place # "ready" /\ Goto("read", place)
    BY <1>13 DEF TailAnswered
  <2> QED
    BY <1>10, <2>1, <2>2 DEF At
<1>14. CASE AppendLands
  <2>1. \A c \in Callers : pc'[c] = pc[c] \/ (Waits(c) /\ pc'[c] \in {"drain", "tail", "done"})
    BY <1>14 DEF AppendLands, Wake, After
  <2>2. \A c \in Callers : pc'[c] = pc[c] \/ (~At(c, "ready") /\ pc'[c] # "ready")
    BY <2>1 DEF WaitersFlush, At
  <2> QED
    BY <1>14, <2>2 DEF AppendLands, hubVars, OpenerWaits, At
<1>15. ASSUME NEW S, NEW T, LoseFlight(S, T), \A c \in S : pc[c] = "tail" PROVE OpenerWaits'
  <2>1. \A c \in Callers : pc'[c] = pc[c]
                             \/ (c \in Struck \cup S /\ pc'[c] \in {"refused", "failed"})
    BY <1>15 DEF LoseFlight, Struck
  <2>2. \A c \in Callers : pc'[c] = pc[c] \/ (~At(c, "ready") /\ pc'[c] # "ready")
    BY <1>15, <2>1, StruckWait DEF WaitersFlush, At
  <2> QED
    BY <1>15, <2>2 DEF LoseFlight, hubVars, OpenerWaits, At
<1>16. CASE AppendFails \/ Crash
  BY <1>15, <1>16 DEF AppendFails, Crash
<1>17. CASE Record \/ Event \/ Reconnect \/ Fly
  BY <1>1, <1>17 DEF Record, Event, Reconnect, Fly, hubVars, callVars
<1>18. ASSUME NEW i \in Resets, ClearDrops(i) \/ Drops(i) PROVE OpenerWaits'
  BY <1>1, <1>18 DEF ClearDrops, Drops, DropLands, DropFails, hubVars, callVars
<1>19. CASE UNCHANGED vars
  BY <1>1, <1>19 DEF vars, hubVars, callVars
<1> QED
  BY <1>3, <1>4, <1>5, <1>6, <1>8, <1>9, <1>11, <1>12, <1>13, <1>14, <1>16, <1>17, <1>18, <1>19,
     <1>20
  DEF Next, Continue, Happens, Answers

CallsInv == ResetsBegun /\ WaitersFlush /\ OpenerWaits

(* Between a call and its answer, failure or timeout there is always       *)
(* something under way that will end it.                                   *)
THEOREM NoCallIsForgotten == Spec => []NoCallHangs
<1>1. Init => CallsInv
  <2> SUFFICES ASSUME Init PROVE CallsInv
    OBVIOUS
  <2>1. \A c \in Callers : ~Waits(c)
    <3>1. flying = <<>> /\ batch = <<>>
      BY DEF Init
    <3>2. <<>> \in Seq(Entries(0)) /\ \A c : ~Awaited(<<>>, c)
      BY EmptySeq DEF Awaited
    <3>3. \A c : ~(\E e \in ToSet(<<>> \o <<>>) : c \in e.awaited)
      BY <3>2, WaitsAre
    <3> QED
      BY <3>1, <3>3 DEF Waits, Writes, Pending
  <2> QED
    BY <2>1, HubAssumption DEF Init, CallsInv, ResetsBegun, WaitersFlush, OpenerWaits, At, Resets
<1>2. TypeInv /\ CallsInv /\ [Next]_vars => CallsInv'
  BY BegunNext, WaitersNext, OpenerNext DEF CallsInv
<1>3. TypeInv /\ CallsInv => NoCallHangs
  <2> SUFFICES ASSUME TypeInv, CallsInv, NEW c \in Callers
               PROVE  /\ At(c, "reset") => ~Resetting(c) \/ clear[awaits[c]] \in {"flush", "drop"}
                      /\ pc[c] \in {"flush", "drain flush"} => Waits(c)
                      /\ At(c, "ready") => opener # Nobody /\ At(opener, "ready")
    BY DEF NoCallHangs
  <2>1. ASSUME Resetting(c) PROVE clear[awaits[c]] \in {"flush", "drop"}
    <3>1. awaits[c] \in 1..resets /\ resets <= MaxResets /\ awaits[c] \in Nat
      BY <2>1, NumbersAre DEF Resetting, CallsInv, ResetsBegun, TypeInv, NumbersOK
    <3>2. awaits[c] \in Resets
      BY <3>1, NumbersAre DEF Resets
    <3>3. clear[awaits[c]] \in {"none", "flush", "drop", "done"} \ {"none", "done"}
      BY <2>1, <3>1, <3>2 DEF Resetting, CallsInv, ResetsBegun, TypeInv, CallsOK
    <3> QED
      BY <3>3
  <2>2. pc[c] \in {"flush", "drain flush"} => Waits(c)
    BY DEF CallsInv, WaitersFlush
  <2>3. At(c, "ready") => opener # Nobody /\ At(opener, "ready")
    BY DEF CallsInv, OpenerWaits, Callers, Nobody
  <2> QED
    BY <2>1, <2>2, <2>3
<1> QED
  BY <1>1, <1>2, <1>3, Typed, PTL DEF Spec

-----------------------------------------------------------------------------
(* What nd-core keeps of the session and is about to get.                  *)

History == journal \o Seqs(Pending)

LEMMA SeqsType ==
  ASSUME NEW n \in Nat, NEW s \in Seq(Entries(n))
  PROVE  /\ Seqs(s) \in Seq(1..n) /\ Len(Seqs(s)) = Len(s)
         /\ \A i \in DOMAIN s : Seqs(s)[i] = s[i].seq
<1>1. \A i \in DOMAIN s : s[i] \in Entries(n)
  BY LenProperties, ElementOfSeq
<1>2. \A i \in DOMAIN s : s[i].seq \in 1..n
  BY <1>1 DEF Entries
<1>3. Seqs(s) \in [DOMAIN s -> 1..n]
  BY <1>2 DEF Seqs
<1>4. Seqs(s) \in Seq(1..n) /\ DOMAIN Seqs(s) = DOMAIN s
  BY <1>3, MappedSeq
<1>5. DOMAIN s = 1..Len(s) /\ DOMAIN Seqs(s) = 1..Len(Seqs(s)) /\ Len(s) \in Nat
      /\ Len(Seqs(s)) \in Nat
  BY <1>4
<1>6. Len(Seqs(s)) = Len(s)
  BY <1>4, <1>5
<1> QED
  BY <1>4, <1>6 DEF Seqs

(* Two sequences joined, element by element. *)
LEMMA Joined ==
  ASSUME NEW A, NEW s \in Seq(A), NEW t \in Seq(A)
  PROVE  /\ s \o t \in Seq(A) /\ Len(s \o t) = Len(s) + Len(t)
         /\ Len(s) \in Nat /\ Len(t) \in Nat
         /\ DOMAIN s = 1..Len(s) /\ DOMAIN t = 1..Len(t)
         /\ \A k \in 1..Len(s) + Len(t) :
              /\ k <= Len(s) => (s \o t)[k] = s[k] /\ k \in DOMAIN s
              /\ k > Len(s) => (s \o t)[k] = t[k - Len(s)] /\ k - Len(s) \in DOMAIN t
OBVIOUS

LEMMA SeqsConcat ==
  ASSUME NEW n \in Nat, NEW s \in Seq(Entries(n)), NEW t \in Seq(Entries(n))
  PROVE  Seqs(s \o t) = Seqs(s) \o Seqs(t)
<1> DEFINE a == Seqs(s)
           b == Seqs(t)
           c == Seqs(s \o t)
<1>1. /\ s \o t \in Seq(Entries(n)) /\ Len(s \o t) = Len(s) + Len(t)
      /\ Len(s) \in Nat /\ Len(t) \in Nat /\ DOMAIN (s \o t) = 1..Len(s) + Len(t)
      /\ \A k \in 1..Len(s) + Len(t) :
           /\ k <= Len(s) => (s \o t)[k] = s[k] /\ k \in DOMAIN s
           /\ k > Len(s) => (s \o t)[k] = t[k - Len(s)] /\ k - Len(s) \in DOMAIN t
  BY Joined
<1>2. /\ a \in Seq(1..n) /\ Len(a) = Len(s) /\ \A i \in DOMAIN s : a[i] = s[i].seq
      /\ b \in Seq(1..n) /\ Len(b) = Len(t) /\ \A i \in DOMAIN t : b[i] = t[i].seq
      /\ c \in Seq(1..n) /\ Len(c) = Len(s) + Len(t)
      /\ \A i \in 1..Len(s) + Len(t) : c[i] = (s \o t)[i].seq
  BY <1>1, SeqsType
<1> HIDE DEF a, b, c
<1>j. /\ a \o b \in Seq(1..n) /\ Len(a \o b) = Len(a) + Len(b)
      /\ \A k \in 1..Len(a) + Len(b) :
           /\ k <= Len(a) => (a \o b)[k] = a[k]
           /\ k > Len(a) => (a \o b)[k] = b[k - Len(a)]
  <2>1. a \in Seq(1..n) /\ b \in Seq(1..n)
    BY <1>2
  <2> QED
    BY <2>1, Joined
<1>3. /\ a \o b \in Seq(1..n) /\ Len(a \o b) = Len(s) + Len(t)
      /\ \A k \in 1..Len(s) + Len(t) :
           /\ k <= Len(s) => (a \o b)[k] = a[k]
           /\ k > Len(s) => (a \o b)[k] = b[k - Len(s)]
  BY <1>2, <1>j
<1>4. ASSUME NEW k \in 1..Len(s) + Len(t) PROVE c[k] = (a \o b)[k]
  <2>1. Len(s) \in Nat /\ Len(t) \in Nat /\ c[k] = (s \o t)[k].seq
    BY <1>1, <1>2
  <2>0. k <= Len(s) \/ k > Len(s)
    BY <2>1
  <2>2. CASE k <= Len(s)
    <3>1. (s \o t)[k] = s[k] /\ k \in DOMAIN s
      BY <1>1, <2>2
    <3>2. a[k] = s[k].seq
      BY <1>2, <3>1
    <3> QED
      BY <1>3, <2>1, <2>2, <3>1, <3>2
  <2>3. CASE k > Len(s)
    <3>1. (s \o t)[k] = t[k - Len(s)] /\ k - Len(s) \in DOMAIN t
      BY <1>1, <2>3
    <3>2. b[k - Len(s)] = t[k - Len(s)].seq
      BY <1>2, <3>1
    <3> QED
      BY <1>3, <2>1, <2>3, <3>1, <3>2
  <2> QED
    BY <2>0, <2>2, <2>3, Zenon
<1>5. Len(c) = Len(a \o b)
  BY <1>2, <1>3
<1>6. c = a \o b
  BY <1>2, <1>3, <1>4, <1>5, SeqEqual
<1> QED
  BY <1>6 DEF a, b, c

LEMMA EmptySeqs == Seqs(<<>>) = <<>>
BY DEF Seqs

(* Tags may change, the events do not. *)
LEMMA Retagged ==
  ASSUME NEW n \in Nat, NEW s \in Seq(Entries(n)), NEW t \in Seq(Entries(n)),
         DOMAIN t = DOMAIN s, \A i \in DOMAIN s : t[i].seq = s[i].seq
  PROVE  Seqs(t) = Seqs(s)
BY DEF Seqs

LEMMA EmptyDomain ==
  ASSUME NEW A, NEW s \in Seq(A), NEW t \in Seq(A), DOMAIN s = DOMAIN t
  PROVE  s = <<>> <=> t = <<>>
OBVIOUS

(* Pieces of the session.                                                  *)
LEMMA BetweenType ==
  ASSUME NEW n \in Nat, NEW m \in Nat, n <= m
  PROVE  /\ Between(n, m) \in Seq(1..m) /\ Len(Between(n, m)) = m - n
         /\ \A i \in 1..m - n : Between(n, m)[i] = n + i
<1>1. m - n \in Nat /\ Between(n, m) \in [1..m - n -> 1..m]
  BY DEF Between
<1> QED
  BY <1>1 DEF Between

LEMMA EmptyBetween == ASSUME NEW n \in Nat PROVE Between(n, n) = <<>>
<1>1. Between(n, n) \in Seq(1..n) /\ Len(Between(n, n)) = 0
  BY BetweenType
<1> QED
  BY <1>1

(* A sequence of the length of a piece, with its elements, is that piece.  *)
LEMMA IsBetween ==
  ASSUME NEW n \in Nat, NEW m \in Nat, n <= m, NEW s \in Seq(Nat), Len(s) = m - n,
         \A i \in 1..m - n : s[i] = n + i
  PROVE  s = Between(n, m)
<1>1. /\ Between(n, m) \in Seq(1..m) /\ Len(Between(n, m)) = m - n
      /\ \A i \in 1..m - n : Between(n, m)[i] = n + i
  BY BetweenType
<1>2. Between(n, m) \in Seq(Nat)
  <2>1. 1..m \subseteq Nat
    OBVIOUS
  <2> QED
    BY <1>1, <2>1, SeqMonotonic
<1>3. Len(s) = Len(Between(n, m)) /\ \A i \in 1..Len(s) : s[i] = Between(n, m)[i]
  BY <1>1
<1> QED
  BY <1>2, <1>3, SeqEqual

LEMMA BetweenGrows ==
  ASSUME NEW f \in Nat, NEW n \in Nat, NEW m \in Nat, f <= n, n <= m
  PROVE  Between(f, n) \o Between(n, m) = Between(f, m)
<1> DEFINE a == Between(f, n)
           b == Between(n, m)
<1>1. /\ a \in Seq(1..n) /\ Len(a) = n - f /\ (\A i \in 1..n - f : a[i] = f + i)
      /\ b \in Seq(1..m) /\ Len(b) = m - n /\ (\A i \in 1..m - n : b[i] = n + i)
  BY BetweenType
<1>2. a \in Seq(Nat) /\ b \in Seq(Nat)
  <2>1. 1..n \subseteq Nat /\ 1..m \subseteq Nat
    OBVIOUS
  <2> QED
    BY <1>1, <2>1, SeqMonotonic
<1> HIDE DEF a, b
<1>3. /\ a \o b \in Seq(Nat) /\ Len(a \o b) = Len(a) + Len(b)
      /\ \A k \in 1..Len(a) + Len(b) :
           /\ k <= Len(a) => (a \o b)[k] = a[k]
           /\ k > Len(a) => (a \o b)[k] = b[k - Len(a)]
  BY <1>2, Joined
<1>4. Len(a) + Len(b) = m - f
  BY <1>1
<1>5. ASSUME NEW k \in 1..m - f PROVE (a \o b)[k] = f + k
  <2>0. Len(a) = n - f /\ (k <= n - f \/ k > n - f)
    BY <1>1
  <2>1. CASE k <= n - f
    <3>1. k \in 1..n - f
      BY <2>1
    <3> QED
      BY <1>1, <1>3, <1>4, <2>0, <2>1, <3>1
  <2>2. CASE k > n - f
    <3>1. k - (n - f) \in 1..m - n /\ n + (k - (n - f)) = f + k
      BY <2>2
    <3>2. b[k - (n - f)] = n + (k - (n - f))
      BY <1>1, <3>1
    <3>3. (a \o b)[k] = b[k - (n - f)]
      BY <1>3, <1>4, <2>0, <2>2
    <3> QED
      BY <3>1, <3>2, <3>3
  <2> QED
    BY <2>0, <2>1, <2>2, Zenon
<1>6. a \o b = Between(f, m)
  <2>1. f <= m /\ Len(a \o b) = m - f
    BY <1>3, <1>4
  <2> QED
    BY <1>3, <1>5, <2>1, IsBetween
<1> QED
  BY <1>6 DEF a, b

(* The parts of a piece are pieces.                                        *)
PartsOf(f, m, a, b) ==
  a \o b = Between(f, m) =>
    /\ Len(a) \in Nat /\ Len(b) \in Nat /\ f + Len(a) <= m /\ m - (f + Len(a)) = Len(b)
    /\ a = Between(f, f + Len(a)) /\ b = Between(f + Len(a), m)

LEMMA PartsAre ==
  ASSUME NEW f \in Nat, NEW m \in Nat, f <= m, NEW a \in Seq(Nat), NEW b \in Seq(Nat)
  PROVE  PartsOf(f, m, a, b)
<1> SUFFICES
      a \o b = Between(f, m) =>
        /\ Len(a) \in Nat /\ Len(b) \in Nat /\ f + Len(a) <= m /\ m - (f + Len(a)) = Len(b)
        /\ a = Between(f, f + Len(a)) /\ b = Between(f + Len(a), m)
  BY DEF PartsOf
<1>1. /\ Len(a \o b) = Len(a) + Len(b) /\ Len(a) \in Nat /\ Len(b) \in Nat
      /\ \A k \in 1..Len(a) + Len(b) :
           /\ k <= Len(a) => (a \o b)[k] = a[k]
           /\ k > Len(a) => (a \o b)[k] = b[k - Len(a)]
  BY Joined
<1> HAVE a \o b = Between(f, m)
<1>2. Len(a \o b) = m - f /\ \A i \in 1..m - f : (a \o b)[i] = f + i
  BY BetweenType
<1>3. Len(a) + Len(b) = m - f
  BY <1>1, <1>2
<1> DEFINE p == f + Len(a)
<1>4. p \in Nat /\ f <= p /\ p <= m /\ p - f = Len(a) /\ m - p = Len(b)
  BY <1>1, <1>3
<1>5. \A i \in 1..p - f : a[i] = f + i
  <2> SUFFICES ASSUME NEW i \in 1..Len(a) PROVE a[i] = f + i
    BY <1>4
  <2>1. i \in 1..m - f /\ i <= Len(a) /\ i \in 1..Len(a) + Len(b)
    BY <1>1, <1>3
  <2> QED
    BY <1>1, <1>2, <2>1
<1>6. \A i \in 1..m - p : b[i] = p + i
  <2> SUFFICES ASSUME NEW i \in 1..Len(b) PROVE b[i] = p + i
    BY <1>4
  <2>1. /\ Len(a) + i \in 1..m - f /\ Len(a) + i > Len(a)
        /\ Len(a) + i \in 1..Len(a) + Len(b) /\ (Len(a) + i) - Len(a) = i
        /\ f + (Len(a) + i) = p + i
    BY <1>1, <1>3
  <2>2. (a \o b)[Len(a) + i] = b[i]
    BY <1>1, <2>1
  <2>3. (a \o b)[Len(a) + i] = f + (Len(a) + i)
    BY <1>2, <2>1
  <2> QED
    BY <2>1, <2>2, <2>3
<1> HIDE DEF p
<1>7. a = Between(f, p)
  BY <1>4, <1>5, IsBetween
<1>8. b = Between(p, m)
  BY <1>4, <1>6, IsBetween
<1> QED
  BY <1>1, <1>4, <1>7, <1>8 DEF p

(* The newest of a piece are a piece.                                      *)
LEMMA NewestOf ==
  ASSUME NEW f \in Nat, NEW m \in Nat, f <= m, NEW k \in Nat
  PROVE  /\ k >= m - f => Newest(Between(f, m), k) = Between(f, m)
         /\ k < m - f => m - k \in f..m /\ Newest(Between(f, m), k) = Between(m - k, m)
<1> DEFINE s == Between(f, m)
<1>1. s \in Seq(1..m) /\ Len(s) = m - f /\ \A i \in 1..m - f : s[i] = f + i
  BY BetweenType
<1>2. s \in Seq(Nat)
  <2>1. 1..m \subseteq Nat
    OBVIOUS
  <2> QED
    BY <1>1, <2>1, SeqMonotonic
<1> HIDE DEF s
<1>3. CASE k >= m - f
  BY <1>1, <1>3 DEF Newest, s
<1>4. CASE k < m - f
  <2> DEFINE l == m - f - k + 1
             t == SubSeq(s, l, Len(s))
  <2>0. m - k \in Nat /\ m - k \in f..m /\ m - (m - k) = k
    BY <1>4
  <2>1. l \in 1..m - f + 1 /\ l \in Int /\ Len(s) \in Nat /\ Len(s) - l + 1 = k
        /\ (k > 0 => l <= Len(s)) /\ (k = 0 => l > Len(s))
    BY <1>1, <1>4
  <2>2. Newest(s, k) = t
    BY <1>1, <1>4 DEF Newest
  <2>3. t \in Seq(Nat) /\ Len(t) = k /\ \A i \in 1..k : t[i] = s[l + i - 1]
    <3>0. \A i \in l..Len(s) : s[i] \in Nat
      BY <1>1, <1>2, <2>1
    <3>1. /\ t \in Seq(Nat)
          /\ Len(t) = IF l <= Len(s) THEN Len(s) - l + 1 ELSE 0
          /\ \A i \in 1..Len(s) - l + 1 : t[i] = s[l + i - 1]
      BY <2>1, <3>0, SubSeqProperties
    <3> QED
      BY <2>1, <3>1
  <2>4. ASSUME NEW i \in 1..k PROVE t[i] = (m - k) + i
    <3>1. l + i - 1 \in 1..m - f /\ f + (l + i - 1) = (m - k) + i
      BY <1>4
    <3>2. s[l + i - 1] = f + (l + i - 1)
      BY <1>1, <3>1
    <3> QED
      BY <2>3, <3>1, <3>2
  <2> HIDE DEF t, l
  <2>5. t = Between(m - k, m)
    <3>1. m - k <= m /\ Len(t) = m - (m - k) /\ \A i \in 1..m - (m - k) : t[i] = (m - k) + i
      BY <2>0, <2>3, <2>4
    <3> QED
      BY <2>0, <2>3, <3>1, IsBetween
  <2> QED
    BY <1>4, <2>0, <2>2, <2>5 DEF s
<1> QED
  BY <1>3, <1>4

(* What nd-core has is a sequence of events after it has trimmed them.     *)
LEMMA NewestType ==
  ASSUME NEW n \in Nat, NEW s \in Seq(1..n), NEW k \in Nat
  PROVE  /\ Newest(s, k) \in Seq(1..n)
         /\ k >= Len(s) => Newest(s, k) = s
         /\ k < Len(s) => Len(Newest(s, k)) = k
<1>1. Len(s) \in Nat
  OBVIOUS
<1>2. CASE k >= Len(s)
  BY <1>1, <1>2 DEF Newest
<1>3. CASE k < Len(s)
  <2> DEFINE l == Len(s) - k + 1
  <2>1. Newest(s, k) = SubSeq(s, l, Len(s)) /\ l \in Nat \ {0} /\ l \in Int
        /\ l \in 1..Len(s) + 1
    BY <1>1, <1>3 DEF Newest
  <2>2. CASE k = 0
    <3>1. l > Len(s)
      BY <1>1, <2>2
    <3>2. SubSeq(s, l, Len(s)) = <<>>
      BY <1>1, <2>1, <3>1
    <3> QED
      BY <1>3, <2>1, <2>2, <3>2
  <2>3. CASE k # 0
    <3>1. l \in 1..Len(s) /\ Len(s) \in 1..Len(s) /\ Len(s) - l + 1 = k /\ l <= Len(s)
      BY <1>1, <1>3, <2>3
    <3> HIDE DEF l
    <3>2. /\ SubSeq(s, l, Len(s)) \in Seq(1..n)
          /\ Len(SubSeq(s, l, Len(s))) = IF l <= Len(s) THEN Len(s) - l + 1 ELSE 0
      BY <3>1, SubSeqProperties
    <3> QED
      BY <1>1, <1>3, <2>1, <3>1, <3>2
  <2> QED
    BY <2>2, <2>3
<1> QED
  BY <1>1, <1>2, <1>3

LEMMA WindowsAre ==
  /\ Kept \in Nat \ {0} /\ Kept <= Window /\ Kept <= Retained
  /\ Window \in Nat \ {0} /\ Retained \in Nat \ {0} /\ MaxMessages \in Nat \ {0}
BY HubAssumption DEF Kept, Least

LEMMA ConcatEmpty ==
  ASSUME NEW A, NEW s \in Seq(A), NEW t \in Seq(A)
  PROVE  s \o t = <<>> <=> s = <<>> /\ t = <<>>
OBVIOUS

(* Three sequences may be joined in either order.                          *)
InOrder(s, t, u) == s \o (t \o u) = (s \o t) \o u

LEMMA InThree ==
  ASSUME NEW A, NEW s \in Seq(A), NEW t \in Seq(A), NEW u \in Seq(A)
  PROVE  InOrder(s, t, u)
BY ConcatAssociative DEF InOrder

(* nd-core has j, and gets f and then b. *)
LandsInOrder(n, j, f, b) ==
  /\ j \o Seqs(f \o b) = (j \o Seqs(f)) \o Seqs(b)
  /\ Seqs(f) \in Seq(1..n) /\ Seqs(b) \in Seq(1..n)
  /\ f \o b \in Seq(Entries(n)) /\ Seqs(f \o b) \in Seq(1..n)
  /\ j \o Seqs(f \o b) \in Seq(1..n)
  /\ (f \o b = <<>> <=> f = <<>> /\ b = <<>>)
  /\ (f \o b = <<>> => j \o Seqs(f \o b) = j)

LEMMA HistoryOf ==
  ASSUME NEW n \in Nat, NEW j \in Seq(1..n), NEW f \in Seq(Entries(n)), NEW b \in Seq(Entries(n))
  PROVE  LandsInOrder(n, j, f, b)
<1>1. Seqs(f) \in Seq(1..n) /\ Seqs(b) \in Seq(1..n)
  BY SeqsType
<1>2. f \o b \in Seq(Entries(n)) /\ Seqs(f \o b) = Seqs(f) \o Seqs(b)
  BY SeqsConcat
<1>3. f \o b = <<>> <=> f = <<>> /\ b = <<>>
  BY ConcatEmpty
<1>4. j \o Seqs(f \o b) = (j \o Seqs(f)) \o Seqs(b)
  <2> DEFINE E == 1..n
             sf == Seqs(f)
             sb == Seqs(b)
  <2>1. j \in Seq(E) /\ sf \in Seq(E) /\ sb \in Seq(E)
    BY <1>1
  <2>2. j \o Seqs(f \o b) = j \o (sf \o sb)
    BY <1>2
  <2> HIDE DEF E, sf, sb
  <2>3. (j \o sf) \o sb = j \o (sf \o sb)
    <3>1. InOrder(j, sf, sb)
      BY <2>1, InThree
    <3> QED
      BY <3>1, Zenon DEF InOrder
  <2> QED
    BY <2>2, <2>3 DEF sf, sb
<1>5. Seqs(f \o b) \in Seq(1..n)
  BY <1>1, <1>2
<1>6. f \o b = <<>> => j \o Seqs(f \o b) = j
  BY EmptySeqs
<1>7. j \o Seqs(f \o b) \in Seq(1..n)
  BY <1>5
<1> QED
  BY <1>1, <1>2, <1>3, <1>4, <1>5, <1>6, <1>7 DEF LandsInOrder

LEMMA HistoryIs ==
  ASSUME TypeInv, journal \in Seq(1..log)
  PROVE  /\ log \in Nat /\ flying \in Seq(Entries(log)) /\ batch \in Seq(Entries(log))
         /\ History = (journal \o Seqs(flying)) \o Seqs(batch)
         /\ Seqs(flying) \in Seq(1..log) /\ Seqs(batch) \in Seq(1..log)
         /\ Pending \in Seq(Entries(log)) /\ Seqs(Pending) \in Seq(1..log)
         /\ History \in Seq(1..log)
         /\ (Pending = <<>> <=> flying = <<>> /\ batch = <<>>)
         /\ (Pending = <<>> => History = journal)
<1>1. log \in Nat /\ flying \in Seq(Entries(log)) /\ batch \in Seq(Entries(log))
  BY NumbersAre DEF TypeInv, SeqsOK
<1> QED
  <2>1. LandsInOrder(log, journal, flying, batch)
    BY <1>1, HistoryOf
  <2> QED
    BY <1>1, <2>1 DEF LandsInOrder, History, Pending

-----------------------------------------------------------------------------
(* What nd-core has of the session, while no call to it failed.            *)

(* How much nd-core has, or gets first when it has nothing.                *)
First ==
  IF journal # <<>> THEN Len(journal) ELSE IF flying # <<>> THEN Len(flying) ELSE Len(batch)

(* What it has begins after event f, with the session or with as much as   *)
(* the windows let through: a snapshot's worth, or what is left when       *)
(* nd-core trims.                                                          *)
Whole(f) == f = 0 \/ Kept <= First

(* While clears are under way nothing new comes in, all that is pending is *)
(* waited for, and the session is about to be dropped if nd-core has any   *)
(* of it; afterwards it has the newest of what the baseline says.          *)
Backed ==
  /\ Covered
  /\ Pending # <<>> => known
  /\ ~Calm => baseline = 0 /\ ~handle
  /\ History # <<>> => known \/ \E i \in Resets : clear[i] = "drop"
  /\ ~Calm /\ Pending # <<>> => \E i \in Resets : clear[i] = "flush"
  /\ Calm => \E f \in 0..baseline : History = Between(f, baseline) /\ Whole(f)

JournalInv ==
  /\ journal \in Seq(1..log)
  /\ live => seen <= baseline
  /\ \A i \in Resets : i > resets => clear[i] \in {"none", "done"}
  /\ ~doubt => Backed

(* Clear i waits for all the writes w. *)
Awaits(i, w) == \A k \in DOMAIN w : i \in w[k].clears

LEMMA ClearsAre ==
  ASSUME NEW n, NEW s \in Seq(Entries(n)), NEW t \in Seq(Entries(n)), NEW i
  PROVE  (\A e \in ToSet(s \o t) : i \in e.clears) <=> Awaits(i, s) /\ Awaits(i, t)
BY PendingOnes DEF Awaits

LEMMA CoveredBefore ==
  ASSUME TypeInv
  PROVE  Covered <=> \A i \in Resets : clear[i] = "flush" => Awaits(i, flying) /\ Awaits(i, batch)
BY ClearsAre DEF TypeInv, SeqsOK, Covered, Writes, Pending

LEMMA CoveredAfter ==
  ASSUME TypeInv'
  PROVE  Covered' <=> \A i \in Resets : clear'[i] = "flush" => Awaits(i, flying') /\ Awaits(i, batch')
BY ClearsAre DEF TypeInv, SeqsOK, Covered, Writes, Pending

LEMMA EmptyCovered ==
  ASSUME Pending = <<>>
  PROVE  Covered
<1>1. Writes = {}
  BY DEF Writes, ToSet
<1> QED
  BY <1>1 DEF Covered

LEMMA FirstIs ==
  ASSUME TypeInv, journal \in Seq(1..log)
  PROVE  /\ First \in Nat /\ First <= Len(History) /\ Len(History) \in Nat
         /\ (History = <<>> => First = 0)
<1>1. /\ log \in Nat /\ flying \in Seq(Entries(log)) /\ batch \in Seq(Entries(log))
      /\ History = (journal \o Seqs(flying)) \o Seqs(batch)
      /\ Seqs(flying) \in Seq(1..log) /\ Seqs(batch) \in Seq(1..log)
  BY HistoryIs
<1>2. Len(Seqs(flying)) = Len(flying) /\ Len(Seqs(batch)) = Len(batch)
  BY <1>1, SeqsType
<1>3. /\ Len(flying) \in Nat /\ Len(batch) \in Nat /\ Len(journal) \in Nat
      /\ (flying = <<>> => Len(flying) = 0) /\ (journal = <<>> => Len(journal) = 0)
  BY <1>1
<1>4. Len(History) = Len(journal) + Len(flying) + Len(batch)
  <2>1. /\ journal \o Seqs(flying) \in Seq(1..log)
        /\ Len(journal \o Seqs(flying)) = Len(journal) + Len(Seqs(flying))
    BY <1>1, ConcatProperties
  <2>2. Len((journal \o Seqs(flying)) \o Seqs(batch)) = Len(journal \o Seqs(flying)) + Len(Seqs(batch))
    BY <1>1, <2>1, ConcatProperties
  <2> QED
    BY <1>1, <1>2, <2>1, <2>2
<1>5. First \in Nat /\ First <= Len(History)
  BY <1>3, <1>4 DEF First
<1>6. History = <<>> => Len(History) = 0
  OBVIOUS
<1> QED
  BY <1>3, <1>4, <1>5, <1>6

(* Neither the clears nor what nd-core has and gets change. *)
LEMMA SameHistory ==
  ASSUME TypeInv, JournalInv, ~doubt, UNCHANGED <<clear, known, baseline>>,
         Calm \/ (handle' => handle),
         History' = History, First' = First, Pending' # <<>> => Pending # <<>>, Covered'
  PROVE  Backed'
<1>1. Calm' <=> Calm
  BY DEF Calm
<1>2. ASSUME Calm' PROVE \E f \in 0..baseline' : History' = Between(f, baseline') /\ Whole(f)'
  <2>1. PICK f \in 0..baseline : History = Between(f, baseline) /\ Whole(f)
    BY <1>1, <1>2 DEF JournalInv, Backed
  <2>2. Whole(f)'
    BY <2>1 DEF Whole
  <2>3. History' = Between(f, baseline')
    BY <2>1
  <2> QED
    BY <2>1, <2>2, <2>3
<1> QED
  BY <1>1, <1>2 DEF JournalInv, Backed

LEMMA SameWrites ==
  ASSUME TypeInv, JournalInv, ~doubt, UNCHANGED <<clear, known, baseline, journal, flying, batch>>,
         Calm \/ (handle' => handle)
  PROVE  Backed'
<1>1. Pending' = Pending /\ Covered'
  BY DEF Pending, Covered, Writes, JournalInv, Backed
<1>2. History' = History /\ First' = First
  BY <1>1 DEF History, Seqs, First
<1> QED
  BY <1>1, <1>2, SameHistory

(* Writes that are tagged anew are the same writes. *)
LEMMA RetaggedHistory ==
  ASSUME TypeInv, TypeInv', JournalInv, UNCHANGED <<log, journal>>,
         DOMAIN flying' = DOMAIN flying, DOMAIN batch' = DOMAIN batch,
         \A k \in DOMAIN flying : flying'[k].seq = flying[k].seq,
         \A k \in DOMAIN batch : batch'[k].seq = batch[k].seq
  PROVE  History' = History /\ First' = First /\ (Pending' = <<>> <=> Pending = <<>>)
<1>1. /\ flying \in Seq(Entries(log)) /\ batch \in Seq(Entries(log)) /\ log \in Nat
      /\ flying' \in Seq(Entries(log)) /\ batch' \in Seq(Entries(log))
  BY NumbersAre DEF TypeInv, SeqsOK
<1>2. Seqs(flying') = Seqs(flying) /\ Seqs(batch') = Seqs(batch)
  BY <1>1, Retagged
<1>3. journal \in Seq(1..log) /\ History = journal \o Seqs(flying \o batch)
  BY DEF JournalInv, History, Pending
<1>4. History' = journal \o Seqs(flying' \o batch')
  BY DEF History, Pending, Seqs
<1>5. /\ journal \o Seqs(flying \o batch) = (journal \o Seqs(flying)) \o Seqs(batch)
      /\ journal \o Seqs(flying' \o batch') = (journal \o Seqs(flying')) \o Seqs(batch')
      /\ (flying \o batch = <<>> <=> flying = <<>> /\ batch = <<>>)
      /\ (flying' \o batch' = <<>> <=> flying' = <<>> /\ batch' = <<>>)
  <2>1. LandsInOrder(log, journal, flying, batch) /\ LandsInOrder(log, journal, flying', batch')
    BY <1>1, <1>3, HistoryOf
  <2> QED
    BY <2>1 DEF LandsInOrder
<1>6. (flying' = <<>> <=> flying = <<>>) /\ (batch' = <<>> <=> batch = <<>>)
  BY <1>1, EmptyDomain
<1>7. First' = First
  <2>1. Len(flying') = Len(flying) /\ Len(batch') = Len(batch)
    BY <1>1
  <2> QED
    BY <1>6, <2>1 DEF First
<1> QED
  BY <1>2, <1>3, <1>4, <1>5, <1>6, <1>7 DEF Pending

LEMMA AwaitBacked ==
  ASSUME TypeInv, TypeInv', JournalInv, ~doubt, NEW c \in Callers, NEW S, AwaitWrites(c, S),
         UNCHANGED <<log, clear, baseline, journal>>, handle' => handle
  PROVE  Backed'
<1> DEFINE await(w) == [i \in DOMAIN w |->
             IF w[i] \in S THEN [w[i] EXCEPT !.awaited = @ \cup {c}] ELSE w[i]]
<1>1. batch' = await(batch) /\ flying' = await(flying) /\ known' = known
  BY DEF AwaitWrites
<1>2. ASSUME NEW w \in Seq(Entries(log))
      PROVE  /\ DOMAIN await(w) = DOMAIN w
             /\ \A k \in DOMAIN w : await(w)[k].seq = w[k].seq /\ await(w)[k].clears = w[k].clears
  <2>1. \A k \in DOMAIN w : w[k] \in Entries(log)
    BY LenProperties, ElementOfSeq
  <2> QED
    BY <2>1 DEF Entries
<1>3. flying \in Seq(Entries(log)) /\ batch \in Seq(Entries(log))
  BY DEF TypeInv, SeqsOK
<1> HIDE DEF await
<1>4. /\ DOMAIN flying' = DOMAIN flying /\ DOMAIN batch' = DOMAIN batch
      /\ \A k \in DOMAIN flying : flying'[k].seq = flying[k].seq /\ flying'[k].clears = flying[k].clears
      /\ \A k \in DOMAIN batch : batch'[k].seq = batch[k].seq /\ batch'[k].clears = batch[k].clears
  BY <1>1, <1>2, <1>3
<1>5. History' = History /\ First' = First /\ (Pending' = <<>> <=> Pending = <<>>)
  BY <1>4, RetaggedHistory
<1>6. Covered'
  <2>1. Covered
    BY DEF JournalInv, Backed
  <2> QED
    BY <1>4, <2>1, CoveredBefore, CoveredAfter DEF Awaits
<1> QED
  BY <1>1, <1>5, <1>6, SameHistory

LEMMA FlyBacked == ASSUME TypeInv, JournalInv, ~doubt, Fly PROVE Backed'
<1>1. flying = <<>> /\ flying' = batch /\ batch' = <<>> /\ batch \in Seq(Entries(log))
  BY DEF Fly, TypeInv, SeqsOK
<1>2. Pending = batch /\ Pending' = batch
  BY <1>1 DEF Pending
<1>3. UNCHANGED <<clear, known, baseline, handle, journal>>
  BY DEF Fly, hubVars, resetVars
<1>4. History' = History /\ Covered'
  BY <1>2, <1>3 DEF History, Seqs, Covered, Writes, JournalInv, Backed
<1>5. First' = First
  BY <1>1, <1>3 DEF First
<1> QED
  BY <1>2, <1>3, <1>4, <1>5, SameHistory

(* What nd-core has got of the session is a piece of it, and what it       *)
(* retains of that a piece with the same end.                              *)
RetainsOf(f, m, a, w, k) ==
  a \o w = Between(f, m) /\ k < Len(a) => \E e \in 0..m : Newest(a, k) \o w = Between(e, m)

LEMMA RetainsPiece ==
  ASSUME NEW n \in Nat, NEW f \in Nat, NEW m \in Nat, f <= m,
         NEW a \in Seq(1..n), NEW w \in Seq(1..n), NEW k \in Nat
  PROVE  RetainsOf(f, m, a, w, k)
<1>1. a \in Seq(Nat) /\ w \in Seq(Nat) /\ Len(a) \in Nat
  <2>1. 1..n \subseteq Nat
    OBVIOUS
  <2> QED
    BY <2>1, SeqMonotonic
<1> DEFINE p == f + Len(a)
<1>2. a \o w = Between(f, m) => p <= m /\ a = Between(f, p) /\ w = Between(p, m)
  <2>1. PartsOf(f, m, a, w)
    BY <1>1, PartsAre
  <2> QED
    BY <2>1, Zenon DEF PartsOf
<1>3. p \in Nat /\ f <= p /\ p - f = Len(a)
  BY <1>1
<1> HIDE DEF p
<1>n. k < p - f => p - k \in f..p /\ Newest(Between(f, p), k) = Between(p - k, p)
  BY <1>3, NewestOf
<1> SUFFICES a \o w = Between(f, m) /\ k < Len(a) => \E e \in 0..m : Newest(a, k) \o w = Between(e, m)
  BY DEF RetainsOf
<1> HAVE a \o w = Between(f, m) /\ k < Len(a)
<1>4. p - k \in f..p /\ Newest(a, k) = Between(p - k, p)
  <2>1. k < p - f
    BY <1>3
  <2> QED
    BY <1>2, <1>n, <2>1
<1>5. p - k \in Nat /\ p - k <= p /\ p - k \in 0..m
  BY <1>2, <1>3, <1>4
<1>6. Between(p - k, p) \o Between(p, m) = Between(p - k, m)
  BY <1>2, <1>3, <1>5, BetweenGrows
<1>7. Newest(a, k) \o w = Between(p - k, m)
  BY <1>2, <1>4, <1>6
<1> QED
  BY <1>5, <1>7

(* What nd-core has got when it has got the append under way.              *)
LEMMA LandedIs ==
  ASSUME TypeInv, journal \in Seq(1..log)
  PROVE  /\ journal \o Seqs(flying) \in Seq(1..log)
         /\ Len(journal \o Seqs(flying)) = Len(journal) + Len(flying)
         /\ Len(journal) \in Nat /\ Len(flying) \in Nat
         /\ (journal = <<>> => Len(journal) = 0) /\ (flying # <<>> => Len(flying) > 0)
<1>1. Seqs(flying) \in Seq(1..log) /\ flying \in Seq(Entries(log)) /\ log \in Nat
  BY HistoryIs
<1>2. Len(Seqs(flying)) = Len(flying)
  BY <1>1, SeqsType
<1>3. /\ journal \o Seqs(flying) \in Seq(1..log)
      /\ Len(journal \o Seqs(flying)) = Len(journal) + Len(Seqs(flying))
      /\ Len(journal) \in Nat
  BY <1>1, Joined
<1>4. Len(flying) \in Nat /\ (flying # <<>> => Len(flying) > 0)
  BY <1>1
<1> QED
  BY <1>2, <1>3, <1>4

LEMMA RetainIs ==
  ASSUME TypeInv, journal \in Seq(1..log), Retain
  PROVE  \E k \in Nat :
           /\ journal' = Newest(journal \o Seqs(flying), k)
           /\ k < Len(journal \o Seqs(flying)) => k >= Retained
<1>2. Len(journal \o Seqs(flying)) \in Nat
  BY LandedIs
<1>3. 0..Len(journal \o Seqs(flying)) \subseteq Nat
  BY <1>2
<1> QED
  BY <1>3 DEF Retain

(* nd-core has something when it has appended.                             *)
LEMMA RetainSome ==
  ASSUME TypeInv, journal \in Seq(1..log), Retain
  PROVE  /\ journal' \in Seq(1..log)
         /\ flying # <<>> => journal' # <<>>
<1> DEFINE all == journal \o Seqs(flying)
<1>1. PICK k \in Nat : journal' = Newest(all, k) /\ (k < Len(all) => k >= Retained)
  BY RetainIs
<1>2. /\ log \in Nat /\ flying \in Seq(Entries(log)) /\ Seqs(flying) \in Seq(1..log)
      /\ Len(Seqs(flying)) = Len(flying)
  BY HistoryIs, SeqsType
<1>3. all \in Seq(1..log) /\ Len(all) = Len(journal) + Len(flying) /\ Len(journal) \in Nat
      /\ (flying # <<>> => Len(flying) > 0) /\ Len(flying) \in Nat
  BY LandedIs
<1>5. Retained \in Nat \ {0}
  BY WindowsAre
<1> HIDE DEF all
<1>6. /\ Newest(all, k) \in Seq(1..log)
      /\ k >= Len(all) => Newest(all, k) = all
      /\ k < Len(all) => Len(Newest(all, k)) = k
  BY <1>2, <1>3, NewestType
<1>7. ASSUME flying # <<>> PROVE journal' # <<>>
  <2>1. Len(all) > 0 /\ Len(all) \in Nat
    BY <1>3, <1>7
  <2>2. Len(journal') > 0
    BY <1>1, <1>5, <1>6, <2>1
  <2> QED
    BY <2>2
<1> QED
  BY <1>1, <1>6, <1>7

LEMMA AppendBacked == ASSUME TypeInv, TypeInv', JournalInv, ~doubt, AppendLands PROVE Backed'
<1> DEFINE all == journal \o Seqs(flying)
<1>1. /\ Retain /\ flying # <<>> /\ flying' = <<>> /\ batch' \in Untracked(batch)
      /\ UNCHANGED <<log, clear, known, baseline, handle>>
  BY DEF AppendLands, hubVars, resetVars
<1>2. /\ flying \in Seq(Entries(log)) /\ batch \in Seq(Entries(log)) /\ log \in Nat
      /\ journal \in Seq(1..log)
  BY NumbersAre DEF TypeInv, SeqsOK, JournalInv
<1>3. /\ batch' \in Seq(Entries(log)) /\ DOMAIN batch' = DOMAIN batch
      /\ Seqs(batch') = Seqs(batch) /\ (batch' = <<>> <=> batch = <<>>)
      /\ \A i : Awaits(i, batch') <=> Awaits(i, batch)
  <2>1. /\ batch' \in Seq(Entries(log)) /\ DOMAIN batch' = DOMAIN batch
        /\ \A i \in DOMAIN batch : batch'[i].seq = batch[i].seq /\ batch'[i].clears = batch[i].clears
    BY <1>1, <1>2, UntrackedAre
  <2> QED
    BY <1>2, <2>1, Retagged, EmptyDomain DEF Awaits
<1>4. /\ History = all \o Seqs(batch) /\ Seqs(batch) \in Seq(1..log)
      /\ Seqs(flying) \in Seq(1..log) /\ Pending # <<>>
  BY <1>1, <1>2, HistoryIs
<1>5. History' = journal' \o Seqs(batch) /\ Pending' = batch'
  <2>1. Pending' = batch'
    BY <1>1, <1>3 DEF Pending
  <2>2. History' = journal' \o Seqs(batch')
    BY <2>1 DEF History, Seqs
  <2> QED
    BY <1>3, <2>1, <2>2
<1>6. Covered'
  <2>1. Covered
    BY DEF JournalInv, Backed
  <2>2. \A i : Awaits(i, <<>>)
    BY DEF Awaits
  <2> QED
    BY <1>1, <1>3, <2>1, <2>2, CoveredBefore, CoveredAfter
<1>7. known' /\ (~Calm' => baseline' = 0 /\ ~handle')
      /\ (~Calm' /\ Pending' # <<>> => \E i \in Resets : clear'[i] = "flush")
  BY <1>1, <1>4 DEF JournalInv, Backed, Calm
<1>8. ASSUME Calm' PROVE \E f \in 0..baseline' : History' = Between(f, baseline') /\ Whole(f)'
  <2>1. PICK f \in 0..baseline : History = Between(f, baseline) /\ Whole(f)
    BY <1>1, <1>8 DEF JournalInv, Backed, Calm
  <2>2. PICK k \in Nat : journal' = Newest(all, k) /\ (k < Len(all) => k >= Retained)
    BY <1>1, <1>2, RetainIs
  <2>3. all \in Seq(1..log) /\ Len(all) = Len(journal) + Len(flying) /\ Len(journal) \in Nat
        /\ Len(flying) \in Nat /\ (journal = <<>> => Len(journal) = 0)
    BY <1>2, LandedIs
  <2>4. journal' # <<>>
    BY <1>1, <1>2, RetainSome
  <2>5. First' = Len(journal')
    BY <2>4 DEF First
  <2>6. f \in Nat /\ baseline \in Nat /\ f <= baseline
    BY <2>1, NumbersAre
  <2> HIDE DEF all
  <2>7. all \o Seqs(batch) = Between(f, baseline)
    BY <1>4, <2>1 DEF all
  <2>k. Len(all) \in Nat
    BY <2>3
  <2>8. CASE k >= Len(all)
    <3>1. journal' = all /\ History' = Between(f, baseline)
      BY <1>5, <2>2, <2>7, <2>8, <2>k DEF Newest
    <3>2. Kept \in Nat /\ (Kept <= First => Kept <= First')
      <4>1. First <= Len(all) /\ First \in Nat
        BY <1>1, <2>3 DEF First
      <4>2. First' = Len(all)
        BY <2>5, <3>1
      <4>3. Kept \in Nat
        BY WindowsAre
      <4> QED
        BY <2>k, <4>1, <4>2, <4>3
    <3>3. Whole(f)'
      BY <2>1, <3>2 DEF Whole
    <3> QED
      BY <1>1, <2>1, <3>1, <3>3
  <2>9. CASE k < Len(all)
    <3>0. all \o Seqs(batch) = Between(f, baseline) /\ k < Len(all) =>
            \E e \in 0..baseline : Newest(all, k) \o Seqs(batch) = Between(e, baseline)
      <4>1. all \in Seq(1..log) /\ Seqs(batch) \in Seq(1..log) /\ log \in Nat
        BY <1>2, <1>4, <2>3
      <4> QED
        <5>1. RetainsOf(f, baseline, all, Seqs(batch), k)
          BY <2>6, <4>1, RetainsPiece
        <5> QED
          BY <5>1, Zenon DEF RetainsOf
    <3>1. \E e \in 0..baseline : Newest(all, k) \o Seqs(batch) = Between(e, baseline)
      BY <2>7, <2>9, <3>0
    <3>2. PICK e \in 0..baseline : History' = Between(e, baseline)
      BY <1>5, <2>2, <3>1
    <3>3. First' = k /\ k >= Retained
      BY <1>2, <2>2, <2>3, <2>5, <2>9, NewestType
    <3>4. Kept <= First'
      BY <3>3, WindowsAre
    <3>5. Whole(e)'
      BY <3>4 DEF Whole
    <3> QED
      BY <1>1, <3>2, <3>5
  <2> QED
    BY <2>k, <2>8, <2>9
<1> QED
  BY <1>5, <1>6, <1>7, <1>8 DEF Backed

(* A frame adds what follows the baseline, when nothing is cleared. *)
LEMMA IngestBacked ==
  ASSUME TypeInv, TypeInv', JournalInv, ~doubt, handle,
         NEW n \in Nat, NEW m \in 0..log, n < m \/ n = 0, NEW snapshot,
         n <= baseline \/ (baseline = 0 /\ m - n >= Kept),
         Ingest(n, m, snapshot), UNCHANGED <<log, clear, journal>>
  PROVE  Backed'
<1> DEFINE new == Accepted(n, m)
           F == [i \in DOMAIN new |->
                  [seq |-> new[i], tracked |-> TRUE, awaited |-> {}, clears |-> {}]]
<1>1. Calm /\ Calm' /\ ~(\E i \in Resets : clear[i] = "flush")
  BY DEF JournalInv, Backed, Calm
<1>2. log \in Nat /\ m \in Nat /\ baseline \in Nat /\ 1..m \subseteq 1..log
  BY NumbersAre
<1>3. /\ new \in Seq(1..m)
      /\ m <= baseline => new = <<>>
      /\ baseline < m => /\ new # <<>> /\ Last(new) = m
                         /\ new = Between(IF n < baseline THEN baseline ELSE n, m)
  BY <1>2, AcceptedIs DEF Accepted
<1>4. /\ baseline' = IF new = <<>> THEN baseline ELSE Last(new)
      /\ batch' = batch \o F /\ flying' = flying
      /\ known' = (known \/ new # <<>>)
  BY DEF Ingest
<1> HIDE DEF new
<1>5. F \in Seq(Entries(log)) /\ Seqs(F) = new
  <2>1. ASSUME NEW i \in DOMAIN new
        PROVE  [seq |-> new[i], tracked |-> TRUE, awaited |-> {}, clears |-> {}] \in Entries(log)
    <3>1. new[i] \in 1..log
      BY <1>2, <1>3
    <3> QED
      BY <3>1 DEF Entries
  <2>2. F \in [DOMAIN new -> Entries(log)]
    BY <2>1
  <2>3. Seqs(F) = [i \in DOMAIN new |-> new[i]]
    BY DEF Seqs
  <2>4. [i \in DOMAIN new |-> new[i]] = new
    BY <1>3
  <2> HIDE DEF F
  <2> QED
    BY <1>3, <2>2, <2>3, <2>4, MappedSeq
<1> HIDE DEF F
<1>6. flying \in Seq(Entries(log)) /\ batch \in Seq(Entries(log)) /\ journal \in Seq(1..log)
  BY DEF TypeInv, SeqsOK, JournalInv
<1>7. History' = History \o new /\ (new = <<>> => Pending' = Pending)
  <2>1. Pending' = Pending \o F /\ Pending \in Seq(Entries(log))
    <3>1. flying \o (batch \o F) = (flying \o batch) \o F
      <4> DEFINE E == Entries(log)
      <4>1. flying \in Seq(E) /\ batch \in Seq(E) /\ F \in Seq(E)
        BY <1>5, <1>6
      <4> HIDE DEF E
      <4>2. InOrder(flying, batch, F)
        BY <4>1, InThree
      <4> QED
        BY <4>2, Zenon DEF InOrder
    <3>2. flying \o batch \in Seq(Entries(log))
      BY <1>6
    <3> QED
      BY <1>4, <3>1, <3>2 DEF Pending
  <2>2. History' = journal \o Seqs(Pending \o F)
    BY <2>1 DEF History, Seqs
  <2>3. LandsInOrder(log, journal, Pending, F)
    BY <1>2, <1>5, <1>6, <2>1, HistoryOf
  <2>4. new = <<>> => F = <<>>
    BY DEF F
  <2> QED
    BY <1>5, <2>1, <2>2, <2>3, <2>4 DEF LandsInOrder, History
<1>8. CASE m <= baseline
  <2>1. new = <<>> /\ baseline' = baseline /\ known' = known /\ F = <<>>
    BY <1>3, <1>4, <1>8 DEF TypeInv, FlagsOK, F
  <2>2. batch' = batch /\ Pending' = Pending
    BY <1>4, <1>6, <1>7, <2>1
  <2>3. History' = History /\ First' = First
    BY <1>4, <2>2 DEF History, Seqs, First
  <2>4. Covered'
    BY <1>1 DEF Covered
  <2> QED
    BY <1>1, <2>1, <2>2, <2>3, <2>4, SameHistory
<1>9. CASE baseline < m
  <2>1. known' /\ baseline' = m /\ Covered'
    BY <1>1, <1>3, <1>4, <1>9 DEF Covered
  <2>2. PICK f \in 0..baseline : History = Between(f, baseline) /\ Whole(f)
    BY <1>1 DEF JournalInv, Backed
  <2>3. f \in Nat /\ f <= baseline
    BY <1>2, <2>2
  <2>4. \E e \in 0..m : History' = Between(e, m) /\ Whole(e)'
    <3>1. CASE n <= baseline
      <4>1. new = Between(baseline, m)
        BY <1>2, <1>3, <1>9, <3>1
      <4>2. Between(f, baseline) \o Between(baseline, m) = Between(f, m)
        <5>1. baseline \in Nat /\ m \in Nat /\ baseline <= m
          BY <1>2, <1>9
        <5> QED
          BY <2>3, <5>1, BetweenGrows
      <4>3. History' = Between(f, m)
        BY <1>7, <2>2, <4>1, <4>2
      <4>4. First \in Nat /\ First' \in Nat /\ First <= First'
        <5>1. /\ Len(journal) \in Nat /\ Len(flying) \in Nat /\ Len(batch) \in Nat
              /\ Len(F) \in Nat /\ Len(batch') = Len(batch) + Len(F)
          BY <1>4, <1>5, <1>6, ConcatProperties
        <5> QED
          BY <1>4, <5>1 DEF First
      <4>5. Whole(f)'
        <5>1. f = 0 \/ Kept <= First
          BY <2>2 DEF Whole
        <5>2. Kept \in Nat
          BY WindowsAre
        <5>3. f = 0 \/ Kept <= First'
          BY <4>4, <5>1, <5>2
        <5> QED
          BY <5>3 DEF Whole
      <4> QED
        BY <1>2, <1>9, <2>3, <4>3, <4>5
    <3>2. CASE ~(n <= baseline)
      <4>1. baseline = 0 /\ m - n >= Kept /\ n \in 0..m /\ n > 0
        BY <1>2, <1>9, <3>2
      <4>2. new = Between(n, m) /\ Len(new) = m - n
        <5>1. n \in Nat /\ m \in Nat /\ n <= m /\ ~(n < baseline)
          BY <1>2, <3>2, <4>1
        <5>2. Len(Between(n, m)) = m - n
          BY <5>1, BetweenType
        <5> QED
          BY <1>3, <1>9, <5>1, <5>2
      <4>3. History = <<>>
        <5>1. f = 0
          BY <2>3, <4>1
        <5> QED
          BY <2>2, <4>1, <5>1, EmptyBetween
      <4>4. journal = <<>> /\ flying = <<>> /\ batch = <<>>
        <5>1. /\ History = (journal \o Seqs(flying)) \o Seqs(batch)
              /\ Seqs(flying) \in Seq(1..log) /\ Seqs(batch) \in Seq(1..log)
          BY <1>6, HistoryIs
        <5>2. journal \o Seqs(flying) = <<>> /\ Seqs(batch) = <<>>
          <6>1. journal \o Seqs(flying) \in Seq(1..log)
            BY <1>6, <5>1, ConcatProperties
          <6> QED
            BY <4>3, <5>1, <6>1, ConcatEmpty
        <5>3. journal = <<>> /\ Seqs(flying) = <<>>
          BY <1>6, <5>1, <5>2, ConcatEmpty
        <5>4. Len(flying) = 0 /\ Len(batch) = 0
          <6>1. Len(Seqs(flying)) = Len(flying) /\ Len(Seqs(batch)) = Len(batch)
            BY <1>2, <1>6, SeqsType
          <6> QED
            BY <5>2, <5>3, <6>1
        <5> QED
          BY <1>6, <5>3, <5>4, EmptySeq
      <4>5. History' = Between(n, m)
        <5>1. <<>> \o new = new
          BY <1>3
        <5> QED
          BY <1>7, <4>2, <4>3, <5>1
      <4>6. First' = m - n
        <5>1. batch' = F /\ flying' = <<>> /\ journal' = <<>>
          BY <1>4, <1>5, <4>4
        <5>2. Len(F) = Len(new)
          BY <1>2, <1>5, SeqsType
        <5> QED
          BY <4>2, <5>1, <5>2 DEF First
      <4>7. Whole(n)'
        BY <4>1, <4>6, WindowsAre DEF Whole
      <4> QED
        BY <4>1, <4>5, <4>7
    <3> QED
      BY <3>1, <3>2
  <2> QED
    BY <1>1, <2>1, <2>4 DEF Backed
<1> QED
  BY <1>2, <1>8, <1>9

LEMMA SnapshotBacked == ASSUME TypeInv, TypeInv', JournalInv, Snapshot, ~doubt' PROVE Backed'
<1>1. PICK n \in 0..log :
        /\ n \in Nat /\ WindowStart(n) \in Nat /\ (WindowStart(n) < n \/ WindowStart(n) = 0)
        /\ Ingest(WindowStart(n), n, TRUE)
        /\ doubt' = (doubt \/ (baseline > 0 /\ baseline < WindowStart(n)))
  BY SnapshotFrame
<1>2. ~doubt /\ (WindowStart(n) <= baseline \/ (baseline = 0 /\ WindowStart(n) # 0))
  <2> DEFINE w == WindowStart(n)
  <2>1. ~doubt /\ ~(baseline > 0 /\ baseline < w)
    BY <1>1
  <2>2. w \in Nat /\ baseline \in Nat
    BY <1>1, NumbersAre
  <2> HIDE DEF w
  <2>3. w <= baseline \/ (baseline = 0 /\ w # 0)
    BY <2>1, <2>2
  <2> QED
    BY <2>1, <2>3 DEF w
<1>3. WindowStart(n) # 0 => n - WindowStart(n) >= Kept
  <2>1. WindowStart(n) = 0 \/ n - WindowStart(n) = Window
    BY <1>1, WindowStartIs
  <2> QED
    BY <2>1, WindowsAre
<1>4. handle /\ UNCHANGED <<log, clear, journal>>
  BY DEF Snapshot, resetVars
<1> QED
  BY <1>1, <1>2, <1>3, <1>4, IngestBacked

LEMMA EventBacked == ASSUME TypeInv, TypeInv', JournalInv, ~doubt, Event PROVE Backed'
<1>1. Ingest(seen, seen + 1, FALSE) /\ seen < log /\ live /\ handle
  BY DEF Event
<1>2. seen \in Nat /\ seen + 1 \in 0..log /\ seen < seen + 1 /\ seen <= baseline
  BY <1>1, NumbersAre DEF JournalInv
<1>3. UNCHANGED <<log, clear, journal>>
  BY DEF Event, resetVars
<1> QED
  BY <1>1, <1>2, <1>3, IngestBacked

(* A reset covers what is pending, and sweeps if there was any doubt. *)
LEMMA ResetBacked ==
  ASSUME TypeInv, TypeInv', JournalInv, NEW A, Reset(A), ~doubt'
  PROVE  Backed'
<1>r. resets + 1 \in Resets
  <2>1. resets < MaxResets
    BY DEF Reset
  <2> QED
    BY <2>1, NumbersAre DEF Resets
<1> DEFINE forget(w) == [k \in DOMAIN w |->
             [w[k] EXCEPT !.tracked = FALSE, !.awaited = @ \ A, !.clears = @ \cup {resets + 1}]]
<1>1. /\ batch' = forget(batch) /\ flying' = forget(flying)
      /\ UNCHANGED <<log, known, journal>> /\ resets < MaxResets
      /\ clear' = [clear EXCEPT ![resets + 1] = "flush"]
      /\ baseline' = 0 /\ handle' = FALSE
  BY DEF Reset, CloseHandle
<1>2. ~doubt \/ Sweeps
  BY DEF Reset
<1>3. /\ flying \in Seq(Entries(log)) /\ batch \in Seq(Entries(log))
      /\ clear \in [Resets -> {"none", "flush", "drop", "done"}] /\ resets + 1 \in Resets
  BY <1>r DEF TypeInv, SeqsOK, CallsOK
<1>4. ASSUME NEW w \in Seq(Entries(log))
      PROVE  /\ DOMAIN forget(w) = DOMAIN w
             /\ \A k \in DOMAIN w : forget(w)[k].seq = w[k].seq
                                      /\ forget(w)[k].clears = w[k].clears \cup {resets + 1}
  <2>1. \A k \in DOMAIN w : w[k] \in Entries(log)
    BY LenProperties, ElementOfSeq
  <2> QED
    BY <2>1 DEF Entries
<1> HIDE DEF forget
<1>5. /\ DOMAIN flying' = DOMAIN flying /\ DOMAIN batch' = DOMAIN batch
      /\ \A k \in DOMAIN flying : flying'[k].seq = flying[k].seq
                                    /\ flying'[k].clears = flying[k].clears \cup {resets + 1}
      /\ \A k \in DOMAIN batch : batch'[k].seq = batch[k].seq
                                    /\ batch'[k].clears = batch[k].clears \cup {resets + 1}
  BY <1>1, <1>3, <1>4
<1>6. History' = History /\ (Pending' = <<>> <=> Pending = <<>>)
  BY <1>1, <1>5, RetaggedHistory
<1>7. Covered
  BY <1>2, EmptyCovered DEF JournalInv, Backed, Sweeps
<1>8. Covered'
  <2>1. \A i : Awaits(i, flying) => Awaits(i, flying')
    BY <1>5 DEF Awaits
  <2>2. \A i : Awaits(i, batch) => Awaits(i, batch')
    BY <1>5 DEF Awaits
  <2>3. Awaits(resets + 1, flying') /\ Awaits(resets + 1, batch')
    BY <1>5 DEF Awaits
  <2> QED
    BY <1>1, <1>3, <1>7, <2>1, <2>2, <2>3, CoveredBefore, CoveredAfter
<1>9. Pending' # <<>> => known'
  BY <1>1, <1>2, <1>6 DEF JournalInv, Backed, Sweeps
<1>10. clear'[resets + 1] = "flush" /\ ~Calm'
  BY <1>1, <1>3 DEF Calm
<1>11. History' # <<>> => known' \/ \E i \in Resets : clear'[i] = "drop"
  <2>1. clear[resets + 1] # "drop"
    <3>1. resets + 1 > resets
      BY NumbersAre
    <3>2. clear[resets + 1] \in {"none", "done"}
      BY <1>3, <3>1 DEF JournalInv
    <3> QED
      BY <3>2
  <2>2. \A i \in Resets : clear[i] = "drop" => clear'[i] = "drop"
    BY <1>1, <1>3, <2>1
  <2>3. journal = <<>> /\ Pending = <<>> => History = <<>>
    BY HistoryIs DEF JournalInv
  <2> QED
    BY <1>1, <1>2, <1>6, <2>2, <2>3 DEF JournalInv, Backed, Sweeps
<1> QED
  BY <1>1, <1>3, <1>8, <1>9, <1>10, <1>11 DEF Backed

(* A clear whose flush is over finds nothing pending. *)
LEMMA ClearBacked ==
  ASSUME TypeInv, TypeInv', JournalInv, ~doubt, NEW i \in Resets, ClearDrops(i)
  PROVE  Backed'
<1>1. /\ clear[i] = "flush" /\ ~Flushing(i)
      /\ clear' = [clear EXCEPT ![i] = IF known THEN "drop" ELSE "done"] /\ known' = FALSE
      /\ UNCHANGED <<log, baseline, handle, batch, flying, journal>>
  BY DEF ClearDrops, hubVars
<1>2. clear \in [Resets -> {"none", "flush", "drop", "done"}]
  BY DEF TypeInv, CallsOK
<1>3. Pending = <<>>
  <2>1. Writes = {}
    BY <1>1 DEF JournalInv, Backed, Covered, Flushing
  <2>2. Pending \in Seq(Entries(log)) /\ ToSet(Pending) = {}
    BY <2>1, HistoryIs DEF JournalInv, Writes
  <2>3. DOMAIN Pending = {}
    BY <2>2 DEF ToSet
  <2> QED
    BY <2>2, <2>3
<1>4. Pending' = <<>> /\ History' = History
  BY <1>1, <1>3 DEF Pending, History, Seqs
<1>5. Covered'
  <2>1. Writes' = {}
    BY <1>4 DEF Writes, ToSet
  <2> QED
    BY <2>1 DEF Covered
<1>6. ~Calm /\ baseline' = 0 /\ ~handle'
  BY <1>1 DEF Calm, JournalInv, Backed
<1>7. History' # <<>> => \E j \in Resets : clear'[j] = "drop"
  <2>1. CASE known
    BY <1>1, <1>2, <2>1
  <2>2. CASE ~known
    <3>1. History # <<>> => \E j \in Resets : clear[j] = "drop"
      BY <2>2 DEF JournalInv, Backed
    <3>2. \A j \in Resets : clear[j] = "drop" => clear'[j] = "drop"
      BY <1>1, <1>2
    <3> QED
      BY <1>4, <3>1, <3>2
  <2> QED
    BY <2>1, <2>2
<1>8. Calm' => History' = Between(0, 0)
  <2>1. Between(0, 0) = <<>>
    BY EmptyBetween
  <2> QED
    BY <1>7, <2>1 DEF Calm
<1>9. Calm' => \E f \in 0..baseline' : History' = Between(f, baseline') /\ Whole(f)'
  <2>1. Whole(0)' /\ 0 \in 0..0
    BY DEF Whole
  <2> QED
    BY <1>6, <1>8, <2>1
<1> QED
  BY <1>4, <1>5, <1>6, <1>7, <1>9 DEF Backed

LEMMA DropBacked ==
  ASSUME TypeInv, TypeInv', JournalInv, ~doubt, NEW i \in Resets, DropLands(i)
  PROVE  Backed'
<1>1. /\ clear[i] = "drop" /\ clear' = [clear EXCEPT ![i] = "done"] /\ journal' = <<>>
      /\ UNCHANGED <<log, known, baseline, handle, batch, flying>>
  BY DEF DropLands, hubVars, storeVars
<1>2. clear \in [Resets -> {"none", "flush", "drop", "done"}]
  BY DEF TypeInv, CallsOK
<1>3. Pending' = Pending /\ Writes' = Writes
  BY <1>1 DEF Pending, Writes
<1>4. Covered'
  BY <1>1, <1>2, <1>3 DEF JournalInv, Backed, Covered
<1>5. ~Calm /\ baseline' = 0 /\ ~handle'
  BY <1>1 DEF Calm, JournalInv, Backed
<1>6. Pending' # <<>> => known' /\ \E j \in Resets : clear'[j] = "flush"
  <2>1. Pending # <<>> => known /\ \E j \in Resets : clear[j] = "flush"
    BY <1>5 DEF JournalInv, Backed
  <2>2. \A j \in Resets : clear[j] = "flush" => clear'[j] = "flush"
    BY <1>1, <1>2
  <2> QED
    BY <1>1, <1>3, <2>1, <2>2
<1>7. Pending' = <<>> => History' = <<>>
  BY <1>1, EmptySeqs DEF History, Seqs
<1>8. Calm' => History' = Between(0, 0)
  <2>1. Between(0, 0) = <<>>
    BY EmptyBetween
  <2> QED
    BY <1>6, <1>7, <2>1 DEF Calm
<1>9. Calm' => \E f \in 0..baseline' : History' = Between(f, baseline') /\ Whole(f)'
  <2>1. Whole(0)' /\ 0 \in 0..0
    BY DEF Whole
  <2> QED
    BY <1>5, <1>8, <2>1
<1> QED
  BY <1>4, <1>5, <1>6, <1>7, <1>9 DEF Backed

LEMMA OpenBacked ==
  ASSUME TypeInv, JournalInv, NEW c \in Callers, Open(c), ~doubt'
  PROVE  Backed'
<1>1. /\ ~doubt /\ ~Resetting(c)
      /\ \A i \in Resets \ {awaits[c]} : clear[i] \notin {"flush", "drop"}
      /\ UNCHANGED <<clear, known, baseline, journal, flying, batch>>
  BY DEF Open, hubVars, storeVars, resetVars
<1>2. clear \in [Resets -> {"none", "flush", "drop", "done"}] /\ 0 \notin Resets
  BY DEF TypeInv, CallsOK, Resets
<1>3. Calm
  BY <1>1, <1>2 DEF Calm, Resetting
<1> QED
  BY <1>1, <1>3, SameWrites

LEMMA BackedNext ==
  ASSUME TypeInv, TypeInv', JournalInv, [Next]_vars, ~doubt'
  PROVE  Backed'
<1>1. ASSUME ~doubt, UNCHANGED <<clear, known, baseline, journal, flying, batch>>, handle' => handle
      PROVE  Backed'
  BY <1>1, SameWrites
<1>2. ASSUME NEW A, Reset(A) PROVE Backed'
  BY <1>2, ResetBacked
<1>3. CASE Detach \/ Attach
  BY <1>2, <1>3 DEF Detach, Attach
<1>4. CASE Ready
  BY <1>1, <1>2, <1>4 DEF Ready, storeVars, hubVars, resetVars
<1>5. CASE Snapshot \/ Event \/ Fly \/ AppendLands
  <2>1. Snapshot \/ ~doubt
    BY <1>5 DEF Event, Fly, AppendLands
  <2> QED
    BY <1>5, <2>1, SnapshotBacked, EventBacked, FlyBacked, AppendBacked
<1>6. CASE AppendFails \/ Crash
  BY <1>6 DEF AppendFails, Crash, LoseFlight
<1>7. ASSUME NEW i \in Resets, ClearDrops(i) \/ Drops(i) PROVE Backed'
  <2>1. CASE ClearDrops(i)
    <3>1. ~doubt
      BY <2>1 DEF ClearDrops
    <3> QED
      BY <2>1, <3>1, ClearBacked
  <2>2. CASE DropLands(i)
    <3>1. ~doubt
      BY <2>2 DEF DropLands
    <3> QED
      BY <2>2, <3>1, DropBacked
  <2>3. CASE DropFails(i)
    BY <2>3 DEF DropFails
  <2> QED
    BY <1>7, <2>1, <2>2, <2>3 DEF Drops
<1>8. ASSUME NEW c \in Callers, Open(c) PROVE Backed'
  BY <1>8, OpenBacked
<1>9. ASSUME NEW c \in Callers, NEW S, AwaitWrites(c, S), CallUnchanged,
             UNCHANGED <<handle, baseline>>
      PROVE  Backed'
  BY <1>9, AwaitBacked DEF CallUnchanged, resetVars
<1>10. ASSUME NEW c \in Callers, Flushes(c) PROVE Backed'
  BY <1>9, <1>10 DEF Flushes, Flush, hubVars
<1>11. CASE Ensure
  <2>1. CASE AwaitWrites("ensure", Tracked)
    BY <1>9, <1>11, <2>1 DEF Ensure, hubVars, Callers
  <2>2. CASE UNCHANGED storeVars
    BY <1>1, <1>11, <2>2 DEF Ensure, CallUnchanged, hubVars, storeVars, resetVars
  <2> QED
    BY <1>11, <2>1, <2>2 DEF Ensure
<1>12. ASSUME NEW c \in Callers, TimesOut(c) \/ Throw(c) \/ Return(c) PROVE Backed'
  BY <1>1, <1>12
  DEF TimesOut, Throw, Return, GiveUp, CloseHandle, CallUnchanged, hubVars, storeVars, resetVars
<1>13. CASE Record \/ Reconnect \/ StreamEnds \/ Read \/ TailAnswered
  BY <1>1, <1>13
  DEF Record, Reconnect, StreamEnds, Read, TailAnswered, CloseHandle, CallUnchanged,
      hubVars, storeVars, resetVars
<1>14. CASE UNCHANGED vars
  BY <1>1, <1>14 DEF vars, hubVars, storeVars, resetVars
<1> QED
  BY <1>3, <1>4, <1>5, <1>6, <1>7, <1>8, <1>10, <1>11, <1>12, <1>13, <1>14
  DEF Next, Continue, Happens, Answers

LEMMA JournalTyped ==
  ASSUME TypeInv, TypeInv', JournalInv, [Next]_vars
  PROVE  journal' \in Seq(1..log')
<1>1. journal \in Seq(1..log) /\ log \in Nat /\ flying \in Seq(Entries(log))
  BY NumbersAre DEF JournalInv, TypeInv, SeqsOK
<1>2. <<>> \in Seq(1..log)
  OBVIOUS
<1>3. CASE Record
  <2>1. log' = log + 1 /\ journal' = journal /\ 1..log \subseteq 1..log + 1
    BY <1>1, <1>3 DEF Record
  <2>2. journal \in Seq(1..log + 1)
    BY <1>1, <2>1, SeqMonotonic
  <2> QED
    BY <2>1, <2>2
<1>4. CASE ~Record
  <2>1. log' = log
    BY <1>4
    DEF Next, Continue, Happens, Answers, Drops, Open, Throw, Flushes, Flush, Return, ClearDrops,
        Snapshot, Event, Reconnect, StreamEnds, Fly, AppendLands, AppendFails, LoseFlight, Crash,
        Ready, Reset, Detach, Attach, Read, Ensure, TailAnswered, TimesOut, DropLands, DropFails,
        CallUnchanged, vars
  <2>2. Retain \/ journal' \in {journal, <<>>}
    BY <1>4
    DEF Next, Continue, Happens, Answers, Drops, Open, Throw, Flushes, Flush, Return, ClearDrops,
        Snapshot, Event, Reconnect, StreamEnds, Fly, AppendLands, AppendFails, LoseFlight, Crash,
        Ready, Reset, Detach, Attach, Read, Ensure, TailAnswered, TimesOut, DropLands, DropFails,
        CallUnchanged, vars
  <2>3. Retain => journal' \in Seq(1..log)
    BY <1>1, RetainSome
  <2> QED
    BY <1>1, <1>2, <2>1, <2>2, <2>3
<1> QED
  BY <1>3, <1>4

LEMMA SeenNext ==
  ASSUME TypeInv, live => seen <= baseline, [Next]_vars
  PROVE  live' => seen' <= baseline'
<1>1. ASSUME UNCHANGED <<live, seen, baseline>> PROVE live' => seen' <= baseline'
  BY <1>1
<1>2. ASSUME live' = FALSE PROVE live' => seen' <= baseline'
  BY <1>2
<1>3. CASE Snapshot
  <2>1. PICK n \in 0..log :
          /\ seen' = n /\ WindowStart(n) \in Nat /\ (WindowStart(n) < n \/ WindowStart(n) = 0)
          /\ Ingest(WindowStart(n), n, TRUE)
    BY <1>3, SnapshotFrame
  <2> QED
    BY <2>1, IngestType
<1>4. CASE Event
  <2>1. seen' = seen + 1 /\ Ingest(seen, seen + 1, FALSE) /\ seen < log
    BY <1>4 DEF Event
  <2>2. seen \in Nat /\ seen + 1 \in 0..log /\ seen < seen + 1
    BY <2>1, NumbersAre
  <2> QED
    BY <2>1, <2>2, IngestType
<1>5. CASE Detach \/ Attach \/ StreamEnds \/ Reconnect
  BY <1>2, <1>5 DEF Detach, Attach, Reset, StreamEnds, Reconnect, CloseHandle
<1>6. CASE Ready
  BY <1>1, <1>2, <1>6 DEF Ready, Reset, CloseHandle, streamVars, hubVars
<1>7. ASSUME NEW c \in Callers, Open(c) PROVE live' => seen' <= baseline'
  BY <1>1, <1>2, <1>7 DEF Open, streamVars, hubVars
<1>8. ASSUME NEW c \in Callers, TimesOut(c) \/ Throw(c) PROVE live' => seen' <= baseline'
  BY <1>1, <1>2, <1>8 DEF TimesOut, Throw, GiveUp, CloseHandle, streamVars
<1>9. ASSUME NEW c \in Callers, Flushes(c) \/ Return(c) PROVE live' => seen' <= baseline'
  BY <1>1, <1>9 DEF Flushes, Flush, Return, streamVars, hubVars
<1>10. ASSUME NEW i \in Resets, ClearDrops(i) \/ Drops(i) PROVE live' => seen' <= baseline'
  BY <1>1, <1>10 DEF ClearDrops, Drops, DropLands, DropFails, streamVars, hubVars
<1>11. CASE Record \/ Fly \/ AppendLands \/ AppendFails \/ Crash \/ Read \/ Ensure \/ TailAnswered
  BY <1>1, <1>11
  DEF Record, Fly, AppendLands, AppendFails, Crash, LoseFlight, Read, Ensure, TailAnswered,
      streamVars, hubVars
<1>12. CASE UNCHANGED vars
  BY <1>1, <1>12 DEF vars, streamVars, hubVars
<1> QED
  BY <1>3, <1>4, <1>5, <1>6, <1>7, <1>8, <1>9, <1>10, <1>11, <1>12
  DEF Next, Continue, Happens, Answers

LEMMA NotYetNext ==
  ASSUME TypeInv, [Next]_vars, \A i \in Resets : i > resets => clear[i] \in {"none", "done"}
  PROVE  \A i \in Resets : i > resets' => clear'[i] \in {"none", "done"}
<1> DEFINE NotYet == \A i \in Resets : i > resets => clear[i] \in {"none", "done"}
<1>n. resets \in Nat /\ \A i \in Resets : i \in Nat
  BY NumbersAre DEF Resets
<1>t. clear \in [Resets -> {"none", "flush", "drop", "done"}]
  BY DEF TypeInv, CallsOK
<1>1. ASSUME resets' = resets, \A i \in Resets : clear'[i] \in {clear[i], "done"} PROVE NotYet'
  BY <1>1
<1>2. ASSUME NEW A, Reset(A) PROVE NotYet'
  <2>1. resets' = resets + 1 /\ clear' = [clear EXCEPT ![resets + 1] = "flush"]
    BY <1>2 DEF Reset
  <2> QED
    BY <2>1, <1>n, <1>t
<1>3. ASSUME NEW i \in Resets, ClearDrops(i) \/ Drops(i) PROVE NotYet'
  <2>1. clear[i] \in {"flush", "drop"} /\ resets' = resets
        /\ \A j \in Resets : j # i => clear'[j] = clear[j]
    BY <1>3, <1>t DEF ClearDrops, Drops, DropLands, DropFails
  <2> QED
    BY <2>1, <1>n
<1>4. CASE Detach \/ Attach
  BY <1>2, <1>4 DEF Detach, Attach
<1>5. CASE Ready
  BY <1>1, <1>2, <1>5 DEF Ready, resetVars
<1>6. CASE AppendFails \/ Crash
  BY <1>1, <1>6 DEF AppendFails, Crash, LoseFlight
<1>7. ASSUME NEW c \in Callers, Open(c) \/ TimesOut(c) \/ Throw(c) \/ Flushes(c) \/ Return(c)
      PROVE  NotYet'
  BY <1>1, <1>7 DEF Open, TimesOut, Throw, Flushes, Flush, Return, CallUnchanged, resetVars
<1>8. CASE Record \/ Snapshot \/ Event \/ Reconnect \/ StreamEnds \/ Fly \/ AppendLands
             \/ Read \/ Ensure \/ TailAnswered \/ UNCHANGED vars
  BY <1>1, <1>8
  DEF Record, Snapshot, Event, Reconnect, StreamEnds, Fly, AppendLands, Read, Ensure,
      TailAnswered, CallUnchanged, resetVars, vars
<1> QED
  BY <1>3, <1>4, <1>5, <1>6, <1>7, <1>8 DEF Next, Continue, Happens, Answers

LEMMA JournalInit == Init => JournalInv
<1> SUFFICES ASSUME Init PROVE JournalInv
  OBVIOUS
<1>1. Pending = <<>> /\ History = <<>>
  BY EmptySeqs DEF Init, Pending, History
<1>2. baseline = 0 /\ Between(0, 0) = <<>> /\ Covered /\ Calm
  BY <1>1, EmptyCovered, EmptyBetween DEF Init, Calm
<1>3. \E f \in 0..baseline : History = Between(f, baseline) /\ Whole(f)
  <2>1. 0 \in 0..0 /\ Whole(0)
    BY DEF Whole
  <2> QED
    BY <1>1, <1>2, <2>1
<1> QED
  BY <1>1, <1>2, <1>3 DEF Init, JournalInv, Backed

LEMMA JournalNext ==
  ASSUME TypeInv, TypeInv', JournalInv, [Next]_vars
  PROVE  JournalInv'
<1>1. journal' \in Seq(1..log')
  BY JournalTyped
<1>2. live' => seen' <= baseline'
  BY SeenNext DEF JournalInv
<1>3. \A i \in Resets : i > resets' => clear'[i] \in {"none", "done"}
  BY NotYetNext DEF JournalInv
<1>4. ~doubt' => Backed'
  BY BackedNext
<1> QED
  BY <1>1, <1>2, <1>3, <1>4 DEF JournalInv

LEMMA Journaled == Spec => [](TypeInv /\ JournalInv)
<1>1. TypeInv /\ JournalInv /\ [Next]_vars => TypeInv' /\ JournalInv'
  BY TypeNext, JournalNext
<1> QED
  BY <1>1, TypeInit, JournalInit, PTL DEF Spec

(* Unless a call to nd-core failed since, an open() went past a reset, or  *)
(* a snapshot no longer had all that came after the baseline, the journal  *)
(* with what is under way to it is the session up to the baseline, or at   *)
(* least the newest of it that the windows let through: no reset, end of a *)
(* stream, reconnect or restart of nd-core leaves a gap or repeats an      *)
(* event.                                                                  *)
THEOREM HistoryKeepsUp == Spec => []JournalInStep
<1>1. ASSUME TypeInv, JournalInv, Calm, ~doubt
      PROVE  \E m \in 0..baseline :
               journal \o Seqs(Pending) = Between(m, baseline) /\ Complete(m, baseline, Kept)
  <2>1. PICK m \in 0..baseline : History = Between(m, baseline) /\ Whole(m)
    BY <1>1 DEF JournalInv, Backed
  <2>2. First \in Nat /\ First <= Len(History)
    BY <1>1, FirstIs DEF JournalInv
  <2>3. Len(History) = baseline - m
    <3>1. m \in Nat /\ baseline \in Nat /\ m <= baseline
      BY <1>1, NumbersAre
    <3> QED
      BY <2>1, <3>1, BetweenType
  <2>4. m = 0 \/ baseline - m >= Kept
    <3>1. m = 0 \/ Kept <= First
      BY <2>1 DEF Whole
    <3>2. Kept \in Nat /\ baseline - m \in Int
      BY <1>1, WindowsAre, NumbersAre
    <3> QED
      BY <2>2, <2>3, <3>1, <3>2
  <2> QED
    BY <2>1, <2>4 DEF Complete, History
<1>2. TypeInv /\ JournalInv => JournalInStep
  BY <1>1 DEF JournalInStep
<1> QED
  BY <1>2, Journaled, PTL

-----------------------------------------------------------------------------
(* The turn that is prompted after an ensure.                              *)

(* A turn stands only between an ensure that is over and the next one; an  *)
(* ensure that is about to succeed, and a turn, have a stream that has     *)
(* sent its snapshot, unless ensure found or lost one that had not.        *)
TurnInv ==
  /\ adopted => At("ensure", "idle")
  /\ ~adopted => promised = {}
  /\ pc["ensure"] \in {"opened", "flush", "done"} /\ ~hasty => live \/ ~source
  /\ adopted /\ ~hasty => live
  /\ TurnIsLive

LEMMA SameTurn ==
  ASSUME TurnInv, pc'["ensure"] = pc["ensure"],
         UNCHANGED <<live, source, baseline, emitted, adopted, promised, hasty>>
  PROVE  TurnInv'
BY DEF TurnInv, TurnIsLive, At

(* A stream that is lost takes the turn with it. *)
LEMMA LostTurn ==
  ASSUME LoseTurn,
         pc'["ensure"] \in {"opened", "flush", "done"} => pc'["ensure"] = pc["ensure"]
  PROVE  TurnInv'
BY DEF TurnInv, TurnIsLive, LoseTurn

(* What comes with the next event of a stream is emitted. *)
LEMMA LiveEmits ==
  ASSUME TypeInv, EmissionInv, seen <= baseline, live, Event
  PROVE  \A n : n \in 1..baseline' /\ ~(n <= baseline) => n \in ToSet(emitted')
<1>1. Ingest(seen, seen + 1, FALSE) /\ seen < log
  BY DEF Event
<1>2. seen \in Nat /\ seen + 1 \in 0..log /\ seen < seen + 1 /\ baseline \in Nat /\ log \in Nat
  BY <1>1, NumbersAre
<1>3. emitted' = emitted \o Accepted(seen, seen + 1)
      /\ baseline' = IF Accepted(seen, seen + 1) = <<>> THEN baseline
                     ELSE Last(Accepted(seen, seen + 1))
  BY <1>1 DEF Ingest, Emits
<1>4. CASE seen + 1 <= baseline
  <2>1. Accepted(seen, seen + 1) = <<>>
    BY <1>4 DEF Accepted
  <2> QED
    BY <1>2, <1>3, <2>1
<1>5. CASE seen + 1 > baseline
  <2>1. baseline = seen
    BY <1>2, <1>5
  <2>2. Accepted(seen, seen + 1) = [i \in 1..1 |-> seen + i]
    BY <1>2, <1>5, <2>1 DEF Accepted, Between
  <2>3. Accepted(seen, seen + 1) = <<seen + 1>>
    BY <2>2
  <2>4. emitted' = emitted \o <<seen + 1>> /\ emitted \in Seq(1..log)
    BY <1>3, <2>3 DEF EmissionInv
  <2>5. emitted' = Append(emitted, seen + 1) /\ Len(emitted) \in Nat
    BY <1>2, <2>4
  <2>6. emitted'[Len(emitted) + 1] = seen + 1 /\ Len(emitted) + 1 \in DOMAIN emitted'
    BY <2>4, <2>5
  <2>7. baseline' = seen + 1
    BY <1>3, <2>3 DEF Last
  <2>8. seen + 1 \in ToSet(emitted')
    BY <2>6 DEF ToSet
  <2> QED
    BY <1>2, <2>1, <2>7, <2>8
<1> QED
  BY <1>2, <1>4, <1>5

(* What was emitted stays emitted. *)
LEMMA EmittedStays ==
  ASSUME EmissionInv, NEW s \in Seq(Nat), emitted' = emitted \o s, log \in Nat
  PROVE  \A n \in ToSet(emitted) : n \in ToSet(emitted')
<1>1. emitted \in Seq(Nat)
  <2>1. 1..log \subseteq Nat /\ emitted \in Seq(1..log)
    BY DEF EmissionInv
  <2> QED
    BY <2>1, SeqMonotonic
<1>2. ToSet(emitted \o s) = {emitted[i] : i \in DOMAIN emitted} \cup {s[i] : i \in DOMAIN s}
  BY <1>1, PendingOnes
<1> QED
  BY <1>2 DEF ToSet

LEMMA EventTurn ==
  ASSUME TypeInv, TypeInv', EmissionInv, TurnInv, live => seen <= baseline, Event
  PROVE  TurnInv'
<1>1. live /\ UNCHANGED <<live, source, pc, adopted, promised, hasty>>
  BY DEF Event, callVars, turnVars
<1>2. Ingest(seen, seen + 1, FALSE) /\ seen < log
  BY DEF Event
<1>3. seen \in Nat /\ seen + 1 \in Nat /\ log \in Nat /\ baseline \in Nat /\ seen < seen + 1
  BY <1>2, NumbersAre
<1>4. Accepted(seen, seen + 1) \in Seq(Nat)
  <2>1. Accepted(seen, seen + 1) \in Seq(1..seen + 1) /\ 1..seen + 1 \subseteq Nat
    BY <1>3, AcceptedIs
  <2> QED
    BY <2>1, SeqMonotonic
<1>5. emitted' = emitted \o Accepted(seen, seen + 1)
  BY <1>2 DEF Ingest, Emits
<1>6. \A n \in ToSet(emitted) : n \in ToSet(emitted')
  BY <1>3, <1>4, <1>5, EmittedStays
<1>7. \A n : n \in 1..baseline' /\ ~(n <= baseline) => n \in ToSet(emitted')
  BY <1>1, LiveEmits
<1>8. TurnIsLive'
  <2>1. \A n \in promised : n \in 1..log
    BY DEF TypeInv, NumbersOK
  <2>2. baseline' \in Nat
    BY HubAssumption DEF TypeInv, NumbersOK
  <2>3. ASSUME ~hasty, NEW n \in promised, n <= baseline' PROVE n \in ToSet(emitted')
    <3>1. n \in 1..baseline'
      BY <1>3, <2>1, <2>2, <2>3
    <3>2. CASE n <= baseline
      BY <1>6, <2>3, <3>2 DEF TurnInv, TurnIsLive
    <3>3. CASE ~(n <= baseline)
      BY <1>7, <3>1, <3>3
    <3> QED
      BY <3>2, <3>3
  <2> QED
    BY <1>1, <2>3 DEF TurnIsLive
<1> QED
  BY <1>1, <1>8 DEF TurnInv, At

LEMMA OpenTurn ==
  ASSUME TypeInv, TurnInv, NEW c \in Callers, Open(c)
  PROVE  TurnInv'
<1>1. /\ At(c, "reset") /\ UNCHANGED <<source, baseline, emitted, adopted, promised>>
      /\ pc \in [Callers -> Steps] /\ "ensure" \in Callers
      /\ (live => handle)
  BY DEF Open, hubVars, TypeInv, CallsOK, FlagsOK, Callers
<1>2. c = "ensure" => ~adopted /\ promised = {}
  BY <1>1 DEF TurnInv, At
<1>3. CASE /\ handle /\ Goto(c, IF settled THEN "opened" ELSE "ready")
           /\ hasty' = IF c = "ensure" THEN settled /\ ~live ELSE hasty
           /\ UNCHANGED live
  <2>1. CASE c = "ensure"
    BY <1>1, <1>2, <1>3, <2>1 DEF TurnInv, TurnIsLive, Goto
  <2>2. CASE c # "ensure"
    BY <1>1, <1>3, <2>2, SameTurn DEF Goto
  <2> QED
    BY <2>1, <2>2
<1>4. CASE ~handle /\ source /\ live' = FALSE /\ Goto(c, "ready") /\ UNCHANGED hasty
  BY <1>1, <1>2, <1>4 DEF TurnInv, TurnIsLive, Goto, At
<1>5. CASE ~handle /\ Goto(c, "failed") /\ UNCHANGED <<live, hasty>>
  BY <1>1, <1>2, <1>5 DEF TurnInv, TurnIsLive, Goto, At
<1> QED
  BY <1>3, <1>4, <1>5 DEF Open, Followed, streamVars

LEMMA TurnNext ==
  ASSUME TypeInv, TypeInv', EmissionInv, WaitersFlush, TurnInv, live => seen <= baseline, [Next]_vars
  PROVE  TurnInv'
<1>t. pc \in [Callers -> Steps] /\ "ensure" \in Callers
  BY DEF TypeInv, CallsOK, Callers
<1>1. Refusing \in [Callers -> Steps]
      /\ (Refusing["ensure"] \in {"opened", "flush", "done"} => Refusing["ensure"] = pc["ensure"])
  BY <1>t, RefusingType DEF Refusing
<1>2. CASE Record
  <2>1. \A n \in promised' \ promised : n = log + 1 /\ adopted
    BY <1>2 DEF Record
  <2>2. log + 1 > baseline /\ log \in Nat /\ baseline \in Nat
    BY NumbersAre DEF TypeInv, NumbersOK
  <2>3. UNCHANGED <<live, source, baseline, emitted, adopted, hasty, pc>>
    BY <1>2 DEF Record, streamVars, hubVars, callVars
  <2>4. ~(log + 1 <= baseline)
    BY <2>2
  <2>5. TurnIsLive'
    BY <2>1, <2>3, <2>4 DEF TurnInv, TurnIsLive
  <2>6. ~adopted => promised' = promised
    BY <1>2 DEF Record
  <2> QED
    BY <2>3, <2>5, <2>6 DEF TurnInv, At
<1>3. CASE Snapshot
  <2>1. /\ ~live /\ live' = TRUE /\ UNCHANGED <<source, adopted, promised, hasty>>
        /\ pc' = [c \in Callers |-> IF pc[c] = "ready" THEN "opened" ELSE pc[c]]
    BY <1>3 DEF Snapshot, turnVars
  <2>2. ~hasty => promised = {}
    BY <2>1 DEF TurnInv
  <2>3. TurnIsLive'
    BY <2>1, <2>2 DEF TurnIsLive
  <2> QED
    BY <1>t, <2>1, <2>3 DEF TurnInv, At
<1>4. CASE Reconnect
  BY <1>4, LostTurn DEF Reconnect, callVars
<1>5. CASE StreamEnds \/ Detach \/ Attach
  BY <1>1, <1>5, LostTurn DEF StreamEnds, Detach, Attach, Reset, CloseHandle
<1>6. CASE Ready
  <2>1. ASSUME NEW A, Reset(A), pc' = Refusing \/ pc' = [Refusing EXCEPT !["rehydrate"] = "reset"]
        PROVE  TurnInv'
    <3>1. LoseTurn
      BY <2>1 DEF Reset, CloseHandle
    <3>2. pc'["ensure"] = Refusing["ensure"]
      BY <1>1, <2>1 DEF Callers
    <3> QED
      BY <1>1, <3>1, <3>2, LostTurn
  <2>2. CASE UNCHANGED <<streamVars, source, baseline, callVars, emitted, turnVars>>
    BY <2>2, SameTurn DEF streamVars, callVars, turnVars
  <2> QED
    BY <1>6, <2>1, <2>2 DEF Ready
<1>7. CASE AppendLands
  <2>1. UNCHANGED <<live, source, baseline, emitted, adopted, promised, hasty>>
    BY <1>7 DEF AppendLands, streamVars, hubVars, turnVars
  <2>2. pc'["ensure"] = pc["ensure"] \/ (Waits("ensure") /\ pc'["ensure"] = After("ensure"))
    BY <1>t, <1>7 DEF AppendLands, Wake
  <2>3. CASE Waits("ensure") /\ pc'["ensure"] = After("ensure")
    <3>1. pc["ensure"] \in {"flush", "drain flush"}
      BY <1>t, <2>3 DEF WaitersFlush
    <3>2. pc["ensure"] = "drain flush" => pc'["ensure"] = "tail"
      BY <2>3 DEF After, At
    <3> QED
      BY <2>1, <3>1, <3>2 DEF TurnInv, TurnIsLive, At
  <2> QED
    BY <2>1, <2>2, <2>3, SameTurn
<1>8. ASSUME NEW S, NEW T, LoseFlight(S, T), \A c \in S : pc[c] = "tail" PROVE TurnInv'
  <2>1. UNCHANGED <<live, source, baseline, emitted, adopted, promised, hasty>>
    BY <1>8 DEF LoseFlight, streamVars, hubVars, turnVars
  <2>2. pc'["ensure"] = pc["ensure"]
          \/ ("ensure" \in Struck \cup S /\ pc'["ensure"] \in {"refused", "failed"})
    BY <1>t, <1>8 DEF LoseFlight, Struck
  <2>3. CASE "ensure" \in Struck \cup S /\ pc'["ensure"] \in {"refused", "failed"}
    <3>1. pc["ensure"] # "idle"
      BY <1>t, <1>8, <2>3, StruckWait DEF WaitersFlush
    <3> QED
      BY <2>1, <2>3, <3>1 DEF TurnInv, TurnIsLive, At
  <2> QED
    BY <2>1, <2>2, <2>3, SameTurn
<1>9. CASE AppendFails \/ Crash
  BY <1>8, <1>9 DEF AppendFails, Crash
<1>10. CASE Ensure
  <2>1. /\ adopted' = FALSE /\ promised' = {} /\ UNCHANGED <<live, source>>
        /\ \/ (~source \/ handle) /\ hasty' = (handle /\ ~live)
           \/ Goto("ensure", "reset")
    BY <1>10 DEF Ensure, streamVars, hubVars
  <2> QED
    BY <1>t, <2>1 DEF TurnInv, TurnIsLive, Goto
<1>11. ASSUME NEW c \in Callers, TimesOut(c) PROVE TurnInv'
  BY <1>1, <1>11, LostTurn DEF TimesOut, GiveUp, CloseHandle
<1>12. ASSUME NEW c \in Callers, Throw(c) PROVE TurnInv'
  <2>1. CASE GiveUp(c)
    BY <1>1, <2>1, LostTurn DEF GiveUp, CloseHandle
  <2>2. CASE Goto(c, "failed") /\ UNCHANGED <<streamVars, turnVars>>
    <3>1. At(c, "refused") /\ UNCHANGED <<live, source, baseline, emitted, adopted, promised, hasty>>
      BY <1>12, <2>2 DEF Throw, streamVars, turnVars, CallUnchanged
    <3> QED
      BY <1>t, <2>2, <3>1 DEF TurnInv, TurnIsLive, At, Goto
  <2> QED
    BY <1>12, <2>1, <2>2 DEF Throw
<1>13. ASSUME NEW c \in Callers, Flushes(c) PROVE TurnInv'
  <2>1. UNCHANGED <<live, source, baseline, emitted, adopted, promised, hasty>>
    BY <1>13 DEF Flushes, Flush, streamVars, hubVars, turnVars, CallUnchanged
  <2>2. \/ At(c, "opened") /\ (Goto(c, "flush") \/ Goto(c, "drain") \/ Goto(c, "done"))
        \/ At(c, "drain") /\ (Goto(c, "drain flush") \/ Goto(c, "tail"))
    BY <1>13 DEF Flushes, Flush
  <2> QED
    BY <1>t, <2>1, <2>2 DEF TurnInv, TurnIsLive, At, Goto
<1>14. ASSUME NEW c \in Callers, Return(c) PROVE TurnInv'
  <2>1. UNCHANGED <<live, source, baseline, emitted, promised, hasty>> /\ Goto(c, "idle")
        /\ pc[c] # "idle"
    BY <1>14 DEF Return, streamVars, hubVars, CallUnchanged, Over
  <2>2. CASE c = "ensure"
    <3>1. adopted' = (At("ensure", "done") /\ handle) /\ ~adopted /\ promised = {}
      BY <1>14, <2>1, <2>2 DEF Return, TurnInv, At
    <3>2. handle => source
      BY DEF TypeInv, FlagsOK
    <3> QED
      BY <1>t, <2>1, <2>2, <3>1, <3>2 DEF TurnInv, TurnIsLive, At, Goto
  <2>3. CASE c # "ensure"
    BY <1>14, <2>1, <2>3, SameTurn DEF Return, Goto
  <2> QED
    BY <2>2, <2>3
<1>15. CASE Read \/ TailAnswered
  BY <1>t, <1>15, SameTurn DEF Read, TailAnswered, CallUnchanged, streamVars, hubVars, turnVars, Goto
<1>16. CASE Fly \/ UNCHANGED vars
  BY <1>16, SameTurn DEF Fly, vars, streamVars, hubVars, callVars, turnVars
<1>17. ASSUME NEW i \in Resets, ClearDrops(i) \/ Drops(i) PROVE TurnInv'
  BY <1>17, SameTurn DEF ClearDrops, Drops, DropLands, DropFails, streamVars, hubVars, callVars, turnVars
<1> QED
  BY <1>2, <1>3, <1>4, <1>5, <1>6, <1>7, <1>9, <1>10, <1>11, <1>12, <1>13, <1>14, <1>15, <1>16,
     <1>17, EventTurn, OpenTurn
  DEF Next, Continue, Happens, Answers

LEMMA WaitersInit == Init => WaitersFlush
<1> SUFFICES ASSUME Init PROVE WaitersFlush
  OBVIOUS
<1>1. Writes = {}
  BY DEF Init, Writes, Pending, ToSet
<1> QED
  BY <1>1 DEF Init, WaitersFlush, Waits

(* While its stream stands, no event of a turn that the hub takes in is    *)
(* swallowed by a snapshot, if ensure opened the stream, waited for it, or *)
(* found one that had sent its snapshot.                                   *)
THEOREM TurnArrivesLive == Spec => []TurnIsLive
<1>1. Init => EmissionInv /\ TurnInv
  <2>1. Init => EmissionInv
    BY DEF Init, EmissionInv, EmittedOnce, EmittedBehind
  <2>2. Init => TurnInv
    BY DEF Init, TurnInv, TurnIsLive, At, Callers
  <2> QED
    BY <2>1, <2>2
<1>2. TypeInv /\ JournalInv /\ EmissionInv /\ WaitersFlush /\ TurnInv /\ TypeInv' /\ [Next]_vars
        => EmissionInv' /\ WaitersFlush' /\ TurnInv'
  BY EmissionNext, WaitersNext, TurnNext DEF JournalInv
<1>3. TurnInv => TurnIsLive
  BY DEF TurnInv
<1> QED
  BY <1>1, <1>2, <1>3, WaitersInit, Journaled, PTL DEF Spec

-----------------------------------------------------------------------------
(* What a read returns.                                                    *)

(* A read that has passed the resets it met. *)
Following == {"ready", "opened", "flush", "drain", "drain flush", "tail", "answered"}

(* It has drained the store.                                               *)
Drained == {"drain flush", "tail"}

(* As long as no reset and no failed call comes in its way: from its       *)
(* open() on no clear is under way; when a read drains the store, it waits *)
(* for all that is pending of what was seen, and nd-core has some of that  *)
(* if there is any, or gets it; when it asks nd-core for the tail, nothing *)
(* of that is pending any more.                                            *)
ReadInv ==
  /\ pc["read"] \in Drained /\ ~spoiled => asked <= baseline
  /\ pc["read"] \in Following /\ ~doubt /\ ~spoiled => Calm
  /\ At("read", "drain flush") /\ ~spoiled =>
       \A e \in Writes : e.seq <= asked => "read" \in e.awaited
  /\ At("read", "tail") /\ ~spoiled => \A e \in Writes : e.seq > asked
  /\ pc["read"] \in Drained /\ ~doubt /\ ~spoiled /\ asked > 0 =>
       journal # <<>> \/ \E e \in Writes : e.seq <= asked
  /\ HistoryIsRead

LEMMA ReadTyped ==
  ASSUME TypeInv
  PROVE  /\ asked \in Nat /\ baseline \in Nat /\ log \in Nat
         /\ \A e \in Writes : e.seq \in Nat
         /\ pc \in [Callers -> Steps] /\ "read" \in Callers
         /\ clear \in [Resets -> {"none", "flush", "drop", "done"}]
<1>1. asked \in Nat /\ baseline \in Nat /\ log \in Nat
  BY HubAssumption DEF TypeInv, NumbersOK
<1>2. \A e \in Writes : e.seq \in 1..log
  BY <1>1, PendingTyped DEF TypeInv, SeqsOK, Writes, Pending
<1> QED
  BY <1>1, <1>2 DEF TypeInv, CallsOK, Callers

(* A read that is refused, or still before its drain, owes nothing yet. *)
ReadGoesOn ==
  \/ pc'["read"] = pc["read"]
  \/ pc["read"] # "idle" /\ pc'["read"] \in {"refused", "failed"}
  \/ pc["read"] \in Following /\ pc'["read"] \in {"opened", "flush", "drain"}

(* A write after this step is one of before, or new. *)
WritesGoOn ==
  \A e \in Writes' :
    \/ e.seq > baseline
    \/ \E d \in Writes : e.seq = d.seq /\ ("read" \in d.awaited => "read" \in e.awaited)

(* nd-core does not lose what it has or is about to get. *)
WritesStay == \A d \in Writes : \E e \in Writes' : e.seq = d.seq
HasStill == journal' # <<>> \/ (UNCHANGED journal /\ WritesStay) \/ ~Calm

LEMMA ReadOn ==
  ASSUME TypeInv, TypeInv', ReadInv, ReadGoesOn, WritesGoOn, HasStill,
         UNCHANGED <<asked, spoiled, answer>>, baseline' >= baseline, log' >= log,
         ~doubt' => ~doubt, Calm => Calm'
  PROVE  ReadInv'
<1>0. asked' = asked /\ spoiled' = spoiled /\ answer' = answer
  OBVIOUS
<1>n. asked \in Nat /\ baseline \in Nat /\ log \in Nat
  BY ReadTyped
<1>1. \A e \in Writes : e.seq \in Nat
  BY ReadTyped
<1>2. baseline' \in Nat /\ log' \in Nat
  BY HubAssumption DEF TypeInv, NumbersOK
<1>3. \A e \in Writes' : e.seq \in Nat
  <2>0. flying' \in Seq(Entries(log')) /\ batch' \in Seq(Entries(log'))
    BY DEF TypeInv, SeqsOK
  <2>1. \A e \in ToSet(flying' \o batch') : e.seq \in 1..log'
    BY <1>2, <2>0, PendingTyped
  <2>2. Writes' = ToSet(flying' \o batch')
    BY DEF Writes, Pending, ToSet
  <2> QED
    BY <1>2, <2>1, <2>2
<1>d. pc'["read"] \in Drained => pc["read"] \in Drained
  BY DEF ReadGoesOn, Drained
<1>4. pc'["read"] \in Drained /\ ~spoiled' => asked' <= baseline'
  <2>1. pc'["read"] \in Drained => pc["read"] \in Drained
    BY <1>d
  <2>2. pc["read"] \in Drained /\ ~spoiled => asked <= baseline
    BY DEF ReadInv
  <2>3. asked <= baseline => asked' <= baseline'
    BY <1>0, <1>n, <1>2
  <2> QED
    BY <1>0, <2>1, <2>2, <2>3
<1>5. pc'["read"] \in Following /\ ~doubt' /\ ~spoiled' => Calm'
  <2>1. pc'["read"] \in Following => pc["read"] \in Following
    BY DEF ReadGoesOn, Following
  <2> QED
    BY <2>1 DEF ReadInv
<1>6. pc'["read"] = "drain flush" /\ ~spoiled' =>
        \A e \in Writes' : e.seq <= asked' => "read" \in e.awaited
  <2>0. \A e \in Writes' : e.seq <= asked /\ asked <= baseline => ~(e.seq > baseline)
    BY <1>n, <1>3
  <2> SUFFICES ASSUME pc'["read"] = "drain flush", ~spoiled', NEW e \in Writes', e.seq <= asked'
               PROVE  "read" \in e.awaited
    OBVIOUS
  <2>1. At("read", "drain flush") /\ asked <= baseline
    <3>1. pc["read"] = "drain flush"
      BY DEF ReadGoesOn, At
    <3> QED
      BY <3>1 DEF At, ReadInv, Drained
  <2>2. ~(e.seq > baseline)
    <3>1. e.seq <= asked /\ asked <= baseline
      BY <1>0, <2>1
    <3> QED
      BY <2>0, <3>1, Zenon
  <2>3. PICK d \in Writes : e.seq = d.seq /\ ("read" \in d.awaited => "read" \in e.awaited)
    BY <2>2, Zenon DEF WritesGoOn
  <2>4. d.seq <= asked
    BY <1>0, <2>3
  <2>5. "read" \in d.awaited
    BY <2>1, <2>4 DEF ReadInv
  <2> QED
    BY <2>3, <2>5
<1>7. pc'["read"] = "tail" /\ ~spoiled' => \A e \in Writes' : e.seq > asked'
  <2> SUFFICES ASSUME pc'["read"] = "tail", ~spoiled', NEW e \in Writes' PROVE e.seq > asked
    OBVIOUS
  <2>1. At("read", "tail") /\ asked <= baseline /\ \A d \in Writes : d.seq > asked
    BY DEF ReadGoesOn, At, ReadInv, Drained
  <2>2. e.seq > baseline \/ \E d \in Writes : e.seq = d.seq
    BY DEF WritesGoOn
  <2> QED
    BY <1>n, <1>1, <1>3, <2>1, <2>2 DEF At
<1>8. HistoryIsRead'
  <2>1. asked..log \subseteq asked'..log'
    BY <1>0, <1>n, <1>2
  <2>2. pc'["read"] = "answered" => At("read", "answered")
    BY DEF ReadGoesOn, At
  <2> QED
    BY <2>1, <2>2 DEF ReadInv, HistoryIsRead, At
<1>9. pc'["read"] \in Drained /\ ~doubt' /\ ~spoiled' /\ asked' > 0 =>
        journal' # <<>> \/ \E e \in Writes' : e.seq <= asked'
  <2> SUFFICES ASSUME pc'["read"] \in Drained, ~doubt', ~spoiled', asked > 0, journal' = <<>>
               PROVE  \E e \in Writes' : e.seq <= asked
    BY <1>0
  <2>1. pc["read"] \in Drained /\ ~doubt /\ ~spoiled
    BY <1>0, <1>d
  <2>2. Calm
    BY <2>1 DEF ReadInv, Drained, Following
  <2>3. UNCHANGED journal /\ WritesStay
    BY <2>2 DEF HasStill
  <2>4. PICK d \in Writes : d.seq <= asked
    BY <2>1, <2>3 DEF ReadInv
  <2>5. PICK e \in Writes' : e.seq = d.seq
    BY <2>3 DEF WritesStay
  <2> QED
    BY <2>4, <2>5
<1> QED
  BY <1>4, <1>5, <1>6, <1>7, <1>8, <1>9 DEF ReadInv, At

LEMMA SameWritesGoOn ==
  /\ Writes' \subseteq Writes => WritesGoOn
  /\ Writes \subseteq Writes' => WritesStay
BY DEF WritesGoOn, WritesStay

LEMMA SamePending == UNCHANGED <<batch, flying>> => Writes' = Writes
BY DEF Writes, Pending

(* Nothing happens to the read, its writes and the clears. *)
LEMMA SameRead ==
  ASSUME TypeInv, TypeInv', ReadInv, ReadGoesOn,
         UNCHANGED <<log, baseline, batch, flying, journal, asked, spoiled, answer, clear>>,
         ~doubt' => ~doubt
  PROVE  ReadInv'
<1>1. WritesGoOn /\ HasStill
  BY SamePending, SameWritesGoOn DEF HasStill
<1>2. Calm => Calm'
  BY DEF Calm
<1>3. baseline' >= baseline /\ log' >= log
  BY ReadTyped
<1> QED
  BY <1>1, <1>2, <1>3, ReadOn

(* A reset or a failed call comes in the way. *)
LEMMA SpoiledRead ==
  ASSUME spoiled' = ~At("read", "idle"), At("read", "idle") => pc'["read"] = "idle"
  PROVE  ReadInv'
BY DEF ReadInv, HistoryIsRead, At, Following, Drained

(* What a frame brings in is behind the baseline. *)
LEMMA IngestWrites ==
  ASSUME TypeInv, NEW n \in Nat, NEW m \in 0..log, n < m \/ n = 0, NEW snapshot,
         Ingest(n, m, snapshot)
  PROVE  WritesGoOn /\ WritesStay
<1> DEFINE new == Accepted(n, m)
           F == [i \in DOMAIN new |->
                  [seq |-> new[i], tracked |-> TRUE, awaited |-> {}, clears |-> {}]]
<1>1. log \in Nat /\ m \in Nat /\ baseline \in Nat
  BY NumbersAre
<1>2. new \in Seq(1..m) /\ (m <= baseline => new = <<>>)
  BY <1>1, AcceptedIs
<1>3. \A i \in DOMAIN new : new[i] > baseline
  <2>1. CASE m <= baseline
    BY <1>2, <2>1
  <2>2. CASE baseline < m
    <3>1. new = Between(IF n < baseline THEN baseline ELSE n, m)
      BY <1>1, <2>2 DEF Accepted
    <3>2. new = [i \in 1..m - (IF n < baseline THEN baseline ELSE n) |->
                   (IF n < baseline THEN baseline ELSE n) + i]
      BY <3>1 DEF Between
    <3> HIDE DEF new
    <3> QED
      BY <1>1, <3>2
  <2> QED
    BY <1>1, <2>1, <2>2
<1>4. batch' = batch \o F /\ flying' = flying
  BY DEF Ingest
<1> HIDE DEF new
<1>5. F \in Seq(Entries(log))
  <2>1. ASSUME NEW i \in DOMAIN new
        PROVE  [seq |-> new[i], tracked |-> TRUE, awaited |-> {}, clears |-> {}] \in Entries(log)
    <3>1. new[i] \in 1..log
      BY <1>1, <1>2
    <3> QED
      BY <3>1 DEF Entries
  <2>2. F \in [DOMAIN new -> Entries(log)]
    BY <2>1
  <2> HIDE DEF F
  <2> QED
    BY <1>2, <2>2, MappedSeq
<1>6. \A i \in DOMAIN F : F[i].seq > baseline
  BY <1>3
<1> HIDE DEF F
<1>7. flying \in Seq(Entries(log)) /\ batch \in Seq(Entries(log))
  BY DEF TypeInv, SeqsOK
<1>8. Pending' = Pending \o F /\ Pending \in Seq(Entries(log))
  <2>1. flying \o (batch \o F) = (flying \o batch) \o F
    <3> DEFINE E == Entries(log)
    <3>1. flying \in Seq(E) /\ batch \in Seq(E) /\ F \in Seq(E)
      BY <1>5, <1>7
    <3> HIDE DEF E
    <3>2. InOrder(flying, batch, F)
      BY <3>1, InThree
    <3> QED
      BY <3>2, Zenon DEF InOrder
  <2>2. flying \o batch \in Seq(Entries(log))
    BY <1>7
  <2> QED
    BY <1>4, <2>1, <2>2 DEF Pending
<1>9. Writes' = {Pending[i] : i \in DOMAIN Pending} \cup {F[i] : i \in DOMAIN F}
  <2>1. ToSet(Pending \o F) = {Pending[i] : i \in DOMAIN Pending} \cup {F[i] : i \in DOMAIN F}
    BY <1>5, <1>8, PendingOnes
  <2> QED
    BY <1>8, <2>1 DEF Writes
<1>10. Writes = {Pending[i] : i \in DOMAIN Pending}
  BY DEF Writes, ToSet
<1> QED
  BY <1>6, <1>9, <1>10 DEF WritesGoOn, WritesStay

(* The writes that caller c waits for from now on. *)
LEMMA AwaitGoesOn ==
  ASSUME TypeInv, NEW c \in Callers, NEW S, AwaitWrites(c, S)
  PROVE  /\ WritesGoOn /\ WritesStay
         /\ c = "read" /\ S = Writes => \A e \in Writes' : "read" \in e.awaited
         /\ Writes = {} => Writes' = {}
<1> DEFINE await(w) == [i \in DOMAIN w |->
             IF w[i] \in S THEN [w[i] EXCEPT !.awaited = @ \cup {c}] ELSE w[i]]
<1>1. batch' = await(batch) /\ flying' = await(flying)
  BY DEF AwaitWrites
<1>2. ASSUME NEW w \in Seq(Entries(log))
      PROVE  /\ DOMAIN await(w) = DOMAIN w
             /\ \A k \in DOMAIN w : /\ await(w)[k].seq = w[k].seq
                                    /\ w[k].awaited \subseteq await(w)[k].awaited
                                    /\ w[k] \in S => c \in await(w)[k].awaited
  <2>1. \A k \in DOMAIN w : w[k] \in Entries(log)
    BY LenProperties, ElementOfSeq
  <2> QED
    BY <2>1 DEF Entries
<1>3. flying \in Seq(Entries(log)) /\ batch \in Seq(Entries(log))
  BY DEF TypeInv, SeqsOK
<1>4. flying' \in Seq(Entries(log)) /\ batch' \in Seq(Entries(log))
  BY AwaitType
<1> HIDE DEF await
<1>5. Writes = {flying[i] : i \in DOMAIN flying} \cup {batch[i] : i \in DOMAIN batch}
  BY <1>3, PendingOnes DEF Writes, Pending
<1>6. Writes' = {flying'[i] : i \in DOMAIN flying'} \cup {batch'[i] : i \in DOMAIN batch'}
  <2>1. ToSet(flying' \o batch')
          = {flying'[i] : i \in DOMAIN flying'} \cup {batch'[i] : i \in DOMAIN batch'}
    BY <1>4, PendingOnes
  <2> QED
    BY <2>1 DEF Writes, Pending
<1>7. \A e \in Writes' : \E d \in Writes :
        e.seq = d.seq /\ d.awaited \subseteq e.awaited /\ (d \in S => c \in e.awaited)
  BY <1>1, <1>2, <1>3, <1>5, <1>6
<1>8. \A d \in Writes : \E e \in Writes' : e.seq = d.seq
  BY <1>1, <1>2, <1>3, <1>5, <1>6
<1> QED
  BY <1>7, <1>8 DEF WritesGoOn, WritesStay

(* A piece of the session that what is pending follows, all of it later    *)
(* than n, goes up to n at least.                                          *)
PieceOf(f, m, n, j, w) ==
  j \o Seqs(w) = Between(f, m) /\ (\A e \in ToSet(w) : e.seq > n) =>
    \E p \in n..m : f + Len(j) = p /\ j = Between(f, p)

LEMMA PieceIs ==
  ASSUME NEW m \in Nat, NEW f \in 0..m, NEW n \in 0..m, NEW k \in Nat, NEW j \in Seq(1..k),
         NEW w \in Seq(Entries(k))
  PROVE  PieceOf(f, m, n, j, w)
<1> DEFINE s == Seqs(w)
<1>1. s \in Seq(1..k) /\ Len(s) = Len(w) /\ \A i \in DOMAIN w : s[i] = w[i].seq
  BY SeqsType
<1>2. j \in Seq(Nat) /\ s \in Seq(Nat) /\ Len(j) \in Nat
  <2>1. 1..k \subseteq Nat
    OBVIOUS
  <2> QED
    BY <1>1, <2>1, SeqMonotonic
<1>3. f \in Nat /\ f <= m /\ n \in Nat /\ n <= m
  OBVIOUS
<1> HIDE DEF s
<1>4. PartsOf(f, m, j, s)
  BY <1>2, <1>3, PartsAre
<1> SUFFICES j \o s = Between(f, m) /\ (\A e \in ToSet(w) : e.seq > n) =>
               \E p \in n..m : f + Len(j) = p /\ j = Between(f, p)
  BY DEF PieceOf, s
<1> HAVE j \o s = Between(f, m) /\ (\A e \in ToSet(w) : e.seq > n)
<1> DEFINE p == f + Len(j)
<1>5. p <= m /\ m - p = Len(s) /\ j = Between(f, p) /\ s = Between(p, m)
  BY <1>4, Zenon DEF PartsOf
<1>6. p \in Nat
  BY <1>2, <1>3
<1> HIDE DEF p
<1>7. n <= p
  <2>1. CASE p = m
    BY <1>3, <2>1
  <2>2. CASE p # m
    <3>1. 1 \in 1..m - p /\ Len(s) > 0
      BY <1>5, <1>6, <2>2
    <3>2. Between(p, m)[1] = p + 1
      BY <1>5, <1>6, <3>1, BetweenType
    <3>3. 1 \in DOMAIN w
      BY <1>1, <3>1
    <3>4. w[1] \in ToSet(w) /\ s[1] = w[1].seq
      BY <1>1, <3>3 DEF ToSet
    <3>5. p + 1 > n
      BY <1>5, <3>2, <3>4
    <3> QED
      BY <1>3, <1>6, <3>5
  <2> QED
    BY <2>1, <2>2
<1>8. p \in n..m
  BY <1>3, <1>5, <1>6, <1>7
<1> QED
  BY <1>5, <1>8 DEF p

(* nd-core has some of a session that has events, or gets it.              *)
LEMMA SomeOfIt ==
  ASSUME TypeInv, JournalInv, Calm, ~doubt, baseline > 0, journal = <<>>
  PROVE  \E e \in Writes : e.seq <= baseline
<1>1. PICK f \in 0..baseline : History = Between(f, baseline) /\ Whole(f)
  BY DEF JournalInv, Backed
<1>2. f \in Nat /\ baseline \in Nat /\ f <= baseline
  BY <1>1, NumbersAre
<1>3. Len(Between(f, baseline)) = baseline - f
      /\ \A i \in 1..baseline - f : Between(f, baseline)[i] = f + i
  BY <1>2, BetweenType
<1>4. Len(History) > 0
  <2>1. First \in Nat /\ First <= Len(History) /\ Len(History) \in Nat
    BY FirstIs DEF JournalInv
  <2>2. f = 0 \/ Kept <= First
    BY <1>1 DEF Whole
  <2>3. Kept \in Nat \ {0}
    BY WindowsAre
  <2>4. Len(History) = baseline - f
    BY <1>1, <1>3
  <2> QED
    BY <1>2, <2>1, <2>2, <2>3, <2>4
<1>5. 1 \in 1..baseline - f
  BY <1>1, <1>2, <1>3, <1>4
<1>6. Pending \in Seq(Entries(log)) /\ log \in Nat /\ Seqs(Pending) \in Seq(1..log)
  BY HistoryIs DEF JournalInv
<1>7. History = Seqs(Pending)
  BY <1>6 DEF History
<1>8. Len(Seqs(Pending)) = Len(Pending) /\ \A i \in DOMAIN Pending : Seqs(Pending)[i] = Pending[i].seq
  BY <1>6, SeqsType
<1>9. 1 \in DOMAIN Pending
  BY <1>4, <1>6, <1>7, <1>8
<1>10. Pending[1].seq = f + 1 /\ Pending[1] \in Writes
  BY <1>1, <1>3, <1>5, <1>7, <1>8, <1>9 DEF Writes, ToSet
<1>11. f + 1 <= baseline
  BY <1>2, <1>5
<1> QED
  BY <1>10, <1>11

(* The tail is answered. *)
LEMMA TailRead ==
  ASSUME TypeInv, JournalInv, ReadInv, TailAnswered
  PROVE  ReadInv'
<1>1. /\ At("read", "tail") /\ pc \in [Callers -> Steps] /\ "read" \in Callers
      /\ UNCHANGED <<log, baseline, asked, spoiled, doubt, clear>>
  BY ReadTyped DEF TailAnswered, CallUnchanged, hubVars, resetVars
<1>2. CASE Goto("read", "failed")
  BY <1>1, <1>2 DEF ReadInv, HistoryIsRead, At, Goto, Following, Drained
<1>3. CASE answer' = Newest(journal, MaxMessages) /\ Goto("read", "answered")
  <2>1. Calm' <=> Calm
    BY <1>1 DEF Calm
  <2>2. ASSUME ~doubt, ~spoiled
        PROVE  \E n \in asked..log : \E m \in 0..n :
                 /\ Newest(journal, MaxMessages) = Between(m, n)
                 /\ Complete(m, n, Least(MaxMessages, Kept))
    <3>1. /\ asked <= baseline /\ Calm /\ (\A e \in ToSet(Pending) : e.seq > asked)
          /\ (asked > 0 => journal # <<>> \/ \E e \in ToSet(Pending) : e.seq <= asked)
      BY <1>1, <2>2 DEF ReadInv, At, Following, Drained, Writes
    <3>2. PICK f \in 0..baseline : History = Between(f, baseline) /\ Whole(f)
      BY <2>2, <3>1 DEF JournalInv, Backed
    <3>3. baseline \in Nat /\ asked \in 0..baseline /\ log \in Nat /\ baseline <= log
      BY <3>1, ReadTyped DEF TypeInv, NumbersOK
    <3>4. journal \in Seq(1..log) /\ Pending \in Seq(Entries(log)) /\ Len(journal) \in Nat
          /\ (journal = <<>> => Len(journal) = 0)
      BY HistoryIs DEF JournalInv
    <3>5. PieceOf(f, baseline, asked, journal, Pending)
      BY <3>3, <3>4, PieceIs
    <3>6. PICK p \in asked..baseline : f + Len(journal) = p /\ journal = Between(f, p)
      BY <3>1, <3>2, <3>5, Zenon DEF PieceOf, History
    <3>w. /\ MaxMessages \in Nat \ {0} /\ Kept \in Nat \ {0} /\ Least(MaxMessages, Kept) \in Nat
          /\ Least(MaxMessages, Kept) <= MaxMessages /\ Least(MaxMessages, Kept) <= Kept
      BY WindowsAre DEF Least
    <3>7. CASE journal = <<>>
      <4>1. asked = 0
        <5>1. ~(asked > 0)
          <6>1. \A e \in ToSet(Pending) : e.seq \in Nat
            BY ReadTyped DEF Writes
          <6>2. \A e \in ToSet(Pending) : ~(e.seq <= asked)
            BY <3>1, <3>3, <6>1
          <6> QED
            BY <3>1, <3>7, <6>2
        <5> QED
          BY <3>3, <5>1
      <4>2. Newest(journal, MaxMessages) = Between(0, 0)
        <5>1. Newest(journal, MaxMessages) = <<>>
          BY <3>4, <3>7, <3>w DEF Newest
        <5> QED
          BY <5>1, EmptyBetween
      <4>3. 0 \in asked..log /\ 0 \in 0..0 /\ Complete(0, 0, Least(MaxMessages, Kept))
        BY <3>3, <4>1 DEF Complete
      <4> QED
        BY <4>2, <4>3
    <3>8. CASE journal # <<>>
      <4>1. f = 0 \/ Kept <= Len(journal)
        BY <3>2, <3>8 DEF Whole, First
      <4>2. f \in Nat /\ p \in Nat /\ f <= p /\ p - f = Len(journal) /\ p \in asked..log
        BY <3>3, <3>4, <3>6
      <4>3. CASE MaxMessages >= p - f
        <5>1. Newest(journal, MaxMessages) = Between(f, p)
          BY <3>6, <3>w, <4>2, <4>3, NewestOf
        <5>2. f = 0 \/ p - f >= Least(MaxMessages, Kept)
          BY <3>w, <3>4, <4>1, <4>2
        <5>3. f \in 0..p /\ Complete(f, p, Least(MaxMessages, Kept))
          BY <4>2, <5>2 DEF Complete
        <5> QED
          BY <4>2, <5>1, <5>3
      <4>4. CASE MaxMessages < p - f
        <5>1. p - MaxMessages \in f..p
              /\ Newest(journal, MaxMessages) = Between(p - MaxMessages, p)
          BY <3>6, <3>w, <4>2, <4>4, NewestOf
        <5>2. p - MaxMessages \in 0..p /\ p - (p - MaxMessages) >= Least(MaxMessages, Kept)
          BY <3>w, <4>2, <5>1
        <5>3. Complete(p - MaxMessages, p, Least(MaxMessages, Kept))
          BY <5>2 DEF Complete
        <5> QED
          BY <4>2, <5>1, <5>2, <5>3
      <4> QED
        BY <3>w, <4>2, <4>3, <4>4
    <3> QED
      BY <3>7, <3>8
  <2>3. HistoryIsRead'
    BY <1>1, <1>3, <2>2 DEF HistoryIsRead
  <2> QED
    BY <1>1, <1>3, <2>1, <2>3 DEF ReadInv, At, Goto, Following, Drained
<1> QED
  BY <1>2, <1>3 DEF TailAnswered

(* The read opens once the reset it waits for is over; unless it went past *)
(* another one, no clear is under way then.                                *)
LEMMA OpenRead ==
  ASSUME TypeInv, TypeInv', ReadInv, NEW c \in Callers, Open(c)
  PROVE  ReadInv'
<1>1. /\ At(c, "reset") /\ pc \in [Callers -> Steps] /\ "read" \in Callers
      /\ clear \in [Resets -> {"none", "flush", "drop", "done"}]
      /\ UNCHANGED <<log, baseline, batch, flying, journal, asked, spoiled, answer, clear>>
  BY ReadTyped DEF Open, hubVars, storeVars, resetVars
<1>2. ~doubt' => ~doubt /\ ~Resetting(c)
                   /\ \A i \in Resets \ {awaits[c]} : clear[i] \notin {"flush", "drop"}
  BY DEF Open
<1>3. Goto(c, "opened") \/ Goto(c, "ready") \/ Goto(c, "failed")
  BY DEF Open, Followed
<1>4. CASE c = "read"
  <2>1. ~doubt' => Calm'
    <3>1. 0 \notin Resets
      BY DEF Resets
    <3> QED
      BY <1>1, <1>2, <3>1 DEF Calm, Resetting
  <2>2. ~At("read", "idle") /\ pc'["read"] \in {"opened", "ready", "failed"}
    BY <1>1, <1>3, <1>4 DEF At, Goto
  <2> QED
    BY <1>1, <2>1, <2>2 DEF ReadInv, HistoryIsRead, At, Drained
<1>5. CASE c # "read"
  <2>1. pc'["read"] = pc["read"]
    BY <1>1, <1>3, <1>5 DEF Goto
  <2> QED
    BY <1>1, <1>2, <2>1, SameRead DEF ReadGoesOn
<1> QED
  BY <1>4, <1>5

LEMMA FlushesRead ==
  ASSUME TypeInv, TypeInv', JournalInv, ReadInv, NEW c \in Callers, Flushes(c)
  PROVE  ReadInv'
<1>1. PICK S : AwaitWrites(c, S)
  BY DEF Flushes, Flush
<1>2. WritesGoOn /\ WritesStay
  BY <1>1, AwaitGoesOn
<1>3. /\ UNCHANGED <<log, baseline, journal, spoiled, answer, clear, doubt>>
      /\ pc \in [Callers -> Steps] /\ "read" \in Callers
  BY ReadTyped DEF Flushes, Flush, CallUnchanged, hubVars, resetVars
<1>4. baseline' >= baseline /\ log' >= log /\ (Calm' <=> Calm) /\ HasStill
  BY <1>2, <1>3, ReadTyped DEF Calm, HasStill
<1>5. ASSUME ReadGoesOn, UNCHANGED asked PROVE ReadInv'
  BY <1>2, <1>3, <1>4, <1>5, ReadOn
<1>6. CASE c # "read"
  <2>1. pc'["read"] = pc["read"] /\ UNCHANGED asked
    BY <1>3, <1>6 DEF Flushes, Flush, Goto
  <2> QED
    BY <1>5, <2>1 DEF ReadGoesOn
<1>7. CASE c = "read" /\ At(c, "opened") /\ (Goto(c, "flush") \/ Goto(c, "drain")) /\ UNCHANGED asked
  BY <1>3, <1>5, <1>7 DEF ReadGoesOn, Following, Goto, At
<1>8. ASSUME c = "read", At(c, "drain"), AwaitWrites(c, Writes), asked' = baseline,
             Goto(c, IF Writes # {} THEN "drain flush" ELSE "tail")
      PROVE  ReadInv'
  <2>1. /\ \A e \in Writes' : "read" \in e.awaited
        /\ Writes = {} => Writes' = {}
    BY <1>8, AwaitGoesOn
  <2>2. /\ pc["read"] = "drain" /\ pc'["read"] \in Drained
        /\ (pc'["read"] = "tail" => Writes = {})
    BY <1>3, <1>8 DEF Goto, At, Drained
  <2>3. asked' <= baseline'
    <3>1. asked' = baseline /\ baseline' = baseline
      BY <1>3, <1>8
    <3>2. baseline <= baseline
      BY ReadTyped
    <3> QED
      BY <3>1, <3>2
  <2>4. pc'["read"] \in Drained /\ ~doubt' /\ ~spoiled' /\ asked' > 0 =>
          journal' # <<>> \/ \E e \in Writes' : e.seq <= asked'
    <3>1. asked' = baseline /\ journal' = journal /\ doubt' = doubt /\ spoiled' = spoiled
      BY <1>3, <1>8
    <3>2. ASSUME ~doubt, ~spoiled, baseline > 0, journal = <<>>
          PROVE  \E e \in Writes' : e.seq <= baseline
      <4>1. Calm
        BY <2>2, <3>2 DEF ReadInv, Following
      <4>2. PICK d \in Writes : d.seq <= baseline
        BY <3>2, <4>1, SomeOfIt
      <4>3. PICK e \in Writes' : e.seq = d.seq
        BY <1>2 DEF WritesStay
      <4> QED
        BY <4>2, <4>3
    <3> QED
      BY <3>1, <3>2
  <2>5. pc'["read"] \in Following /\ ~doubt' /\ ~spoiled' => Calm'
    BY <1>3, <1>4, <2>2 DEF ReadInv, Following
  <2>6. pc'["read"] # "answered"
    BY <2>2 DEF Drained
  <2> QED
    BY <2>1, <2>2, <2>3, <2>4, <2>5, <2>6 DEF ReadInv, HistoryIsRead, At
<1> QED
  BY <1>6, <1>7, <1>8 DEF Flushes, Flush

(* An append lands: those that wait for nothing else go on. *)
LEMMA AppendRead ==
  ASSUME TypeInv, TypeInv', JournalInv, WaitersFlush, ReadInv, AppendLands
  PROVE  ReadInv'
<1>1. /\ UNCHANGED <<log, baseline, asked, spoiled, answer, clear, doubt>>
      /\ flying' = <<>> /\ batch' \in Untracked(batch)
      /\ pc \in [Callers -> Steps] /\ "read" \in Callers
  BY ReadTyped DEF AppendLands, hubVars, resetVars
<1>2. /\ ToSet(batch) \subseteq Writes
      /\ \A e \in Writes' : \E d \in ToSet(batch) : e.seq = d.seq /\ e.awaited = d.awaited
  <2>1. batch \in Seq(Entries(log)) /\ flying \in Seq(Entries(log))
    BY DEF TypeInv, SeqsOK
  <2>2. /\ batch' \in Seq(Entries(log)) /\ DOMAIN batch' = DOMAIN batch
        /\ \A i \in DOMAIN batch : batch'[i].seq = batch[i].seq /\ batch'[i].awaited = batch[i].awaited
    BY <1>1, <2>1, UntrackedAre
  <2>3. Pending' = batch'
    BY <1>1, <2>2 DEF Pending
  <2>4. Writes' = {batch'[i] : i \in DOMAIN batch'}
    BY <2>3 DEF Writes, ToSet
  <2>5. Writes = {flying[i] : i \in DOMAIN flying} \cup {batch[i] : i \in DOMAIN batch}
    BY <2>1, PendingOnes DEF Writes, Pending
  <2>6. ToSet(batch) = {batch[i] : i \in DOMAIN batch}
    BY DEF ToSet
  <2> QED
    BY <2>2, <2>4, <2>5, <2>6
<1>3. baseline' >= baseline /\ log' >= log /\ (Calm' <=> Calm)
  BY <1>1, ReadTyped DEF Calm
<1>h. journal' # <<>>
  <2>1. flying # <<>> /\ Retain /\ journal \in Seq(1..log)
    BY DEF AppendLands, JournalInv
  <2> QED
    BY <2>1, RetainSome
<1>4. ASSUME ReadGoesOn PROVE ReadInv'
  <2>1. WritesGoOn /\ HasStill
    BY <1>2, <1>h DEF WritesGoOn, HasStill
  <2> QED
    BY <1>1, <1>3, <1>4, <2>1, ReadOn
<1>5. \/ pc'["read"] = pc["read"]
      \/ /\ Waits("read") /\ \A e \in ToSet(batch) : "read" \notin e.awaited
         /\ pc'["read"] = After("read")
  BY <1>1 DEF AppendLands, Wake
<1>6. CASE pc'["read"] = pc["read"]
  BY <1>4, <1>6 DEF ReadGoesOn
<1>7. CASE /\ Waits("read") /\ \A e \in ToSet(batch) : "read" \notin e.awaited
           /\ pc'["read"] = After("read")
  <2>1. pc["read"] \in {"flush", "drain flush"}
    BY <1>1, <1>7 DEF WaitersFlush
  <2>2. CASE pc["read"] = "flush"
    BY <1>4, <1>7, <2>2 DEF After, At, ReadGoesOn, Following
  <2>3. CASE pc["read"] = "drain flush"
    <3>1. pc'["read"] = "tail"
      BY <1>7, <2>3 DEF After, At
    <3>2. asked \in Nat /\ \A e \in Writes : e.seq \in Nat
      BY ReadTyped
    <3>3. \A e \in Writes : ~(e.seq <= asked) => e.seq > asked
      BY <3>2
    <3>4. ~spoiled => \A e \in Writes : e.seq <= asked => "read" \in e.awaited
      BY <2>3 DEF ReadInv, At
    <3>5. ~spoiled => \A e \in Writes' : e.seq > asked
      BY <1>2, <1>7, <3>3, <3>4
    <3>6. asked <= baseline \/ spoiled
      BY <2>3 DEF ReadInv, Drained
    <3> QED
      BY <1>1, <1>3, <1>h, <2>3, <3>1, <3>5, <3>6 DEF ReadInv, HistoryIsRead, At, Following, Drained
  <2> QED
    BY <2>1, <2>2, <2>3
<1> QED
  BY <1>5, <1>6, <1>7

LEMMA ReadNext ==
  ASSUME TypeInv, TypeInv', JournalInv, WaitersFlush, ReadInv, [Next]_vars
  PROVE  ReadInv'
<1>t. /\ pc \in [Callers -> Steps] /\ "read" \in Callers
      /\ clear \in [Resets -> {"none", "flush", "drop", "done"}]
  BY ReadTyped
<1>1. Refusing \in [Callers -> Steps]
      /\ (Refusing["read"] = pc["read"] \/ (pc["read"] # "idle" /\ Refusing["read"] = "refused"))
  BY <1>t, RefusingType DEF Refusing
<1>2. CASE Record
  <2>1. UNCHANGED <<batch, flying, journal, baseline, clear, doubt, asked, spoiled, answer, pc>>
        /\ log' = log + 1
    BY <1>2 DEF Record, storeVars, hubVars, resetVars, callVars
  <2>2. WritesGoOn /\ HasStill
    BY <2>1, SamePending, SameWritesGoOn DEF HasStill
  <2>3. baseline' >= baseline /\ log' >= log /\ (Calm => Calm')
    BY <2>1, ReadTyped DEF Calm
  <2> QED
    BY <2>1, <2>2, <2>3, ReadOn DEF ReadGoesOn
<1>3. ASSUME NEW n \in Nat, NEW m \in 0..log, n < m \/ n = 0, NEW snapshot,
             Ingest(n, m, snapshot), UNCHANGED <<log, journal, asked, spoiled, answer, clear>>,
             ~doubt' => ~doubt,
             pc'["read"] = pc["read"] \/ (pc["read"] = "ready" /\ pc'["read"] = "opened")
      PROVE  ReadInv'
  <2>1. WritesGoOn /\ HasStill
    BY <1>3, IngestWrites DEF HasStill
  <2>2. baseline' >= baseline
    BY <1>3, IngestType
  <2>3. log' >= log /\ (Calm => Calm')
    BY <1>3, ReadTyped DEF Calm
  <2>4. ReadGoesOn
    BY <1>3 DEF ReadGoesOn, Following
  <2> QED
    BY <1>3, <2>1, <2>2, <2>3, <2>4, ReadOn
<1>4. CASE Snapshot
  <2>1. PICK n \in 0..log :
          /\ WindowStart(n) \in Nat /\ (WindowStart(n) < n \/ WindowStart(n) = 0)
          /\ Ingest(WindowStart(n), n, TRUE)
          /\ doubt' = (doubt \/ (baseline > 0 /\ baseline < WindowStart(n)))
    BY <1>4, SnapshotFrame
  <2>2. ~doubt' => ~doubt
    BY <2>1
  <2>3. UNCHANGED <<log, journal, asked, spoiled, answer, clear>>
        /\ (pc'["read"] = pc["read"] \/ (pc["read"] = "ready" /\ pc'["read"] = "opened"))
    BY <1>t, <1>4 DEF Snapshot, resetVars
  <2> QED
    BY <1>3, <2>1, <2>2, <2>3
<1>5. CASE Event
  <2>1. Ingest(seen, seen + 1, FALSE) /\ seen < log
    BY <1>5 DEF Event
  <2>2. seen \in Nat /\ seen + 1 \in 0..log /\ seen < seen + 1
    BY <2>1, NumbersAre
  <2>3. UNCHANGED <<log, journal, asked, spoiled, answer, clear, doubt, pc>>
    BY <1>5 DEF Event, resetVars, callVars
  <2> QED
    BY <1>3, <2>1, <2>2, <2>3
<1>6. CASE StreamEnds
  BY <1>1, <1>6, SameRead DEF StreamEnds, storeVars, resetVars, ReadGoesOn
<1>7. CASE Reconnect \/ UNCHANGED vars
  BY <1>7, SameRead DEF Reconnect, vars, hubVars, storeVars, resetVars, callVars, ReadGoesOn
<1>8. CASE Fly
  <2>1. /\ flying = <<>> /\ flying' = batch /\ batch' = <<>>
        /\ UNCHANGED <<log, journal, baseline, asked, spoiled, answer, clear, doubt, pc>>
        /\ batch \in Seq(Entries(log))
    BY <1>8 DEF Fly, hubVars, resetVars, callVars, TypeInv, SeqsOK
  <2>2. Pending' = Pending
    BY <2>1 DEF Pending
  <2>3. Writes' = Writes
    BY <2>2 DEF Writes
  <2>4. WritesGoOn /\ HasStill
    BY <2>1, <2>3, SameWritesGoOn DEF HasStill
  <2>5. baseline' >= baseline /\ log' >= log /\ (Calm => Calm')
    BY <2>1, ReadTyped DEF Calm
  <2> QED
    BY <2>1, <2>4, <2>5, ReadOn DEF ReadGoesOn
<1>9. ASSUME NEW S, NEW T, LoseFlight(S, T), \A c \in S : pc[c] = "tail" PROVE ReadInv'
  <2>1. At("read", "idle") => pc'["read"] = "idle"
    <3>1. pc["read"] = "idle" => "read" \notin Struck \cup S
      BY <1>t, <1>9, StruckWait DEF WaitersFlush
    <3> QED
      BY <1>t, <1>9, <3>1 DEF LoseFlight, Struck, At
  <2> QED
    BY <1>9, <2>1, SpoiledRead DEF LoseFlight
<1>10. CASE AppendFails \/ Crash
  BY <1>9, <1>10 DEF AppendFails, Crash
<1>11. CASE Detach \/ Attach
  <2>1. (\E A : Reset(A)) /\ pc' = Refusing
    BY <1>11 DEF Detach, Attach
  <2>2. spoiled' = ~At("read", "idle")
    BY <2>1 DEF Reset
  <2> QED
    BY <1>1, <2>1, <2>2, SpoiledRead DEF At
<1>12. CASE Ready
  <2>1. ASSUME NEW A, Reset(A), pc' = Refusing \/ pc' = [Refusing EXCEPT !["rehydrate"] = "reset"]
        PROVE  ReadInv'
    <3>1. spoiled' = ~At("read", "idle")
      BY <2>1 DEF Reset
    <3>2. pc'["read"] = Refusing["read"]
      BY <1>1, <2>1 DEF Callers
    <3> QED
      BY <1>1, <3>1, <3>2, SpoiledRead DEF At
  <2>2. CASE UNCHANGED <<log, baseline, storeVars, journal, resetVars, callVars, doubt>>
    BY <2>2, SameRead DEF storeVars, resetVars, callVars, ReadGoesOn
  <2> QED
    BY <1>12, <2>1, <2>2 DEF Ready
<1>13. ASSUME NEW i \in Resets, ClearDrops(i) \/ Drops(i) PROVE ReadInv'
  <2>1. /\ UNCHANGED <<log, baseline, batch, flying, asked, spoiled, answer, pc>>
        /\ clear[i] \in {"flush", "drop"} /\ (~doubt' => ~doubt)
    BY <1>13 DEF ClearDrops, Drops, DropLands, DropFails, hubVars, storeVars, callVars
  <2>2. ~Calm
    BY <2>1 DEF Calm
  <2>3. WritesGoOn /\ HasStill
    BY <2>1, <2>2, SamePending, SameWritesGoOn DEF HasStill
  <2>4. baseline' >= baseline /\ log' >= log
    BY <2>1, ReadTyped
  <2> QED
    BY <2>1, <2>2, <2>3, <2>4, ReadOn DEF ReadGoesOn
<1>14. CASE Read
  <2>1. pc'["read"] = "reset"
    BY <1>t, <1>14 DEF Read, Goto
  <2> QED
    BY <2>1 DEF ReadInv, HistoryIsRead, At, Following, Drained
<1>15. CASE Ensure
  <2>1. UNCHANGED <<log, journal, baseline, asked, spoiled, answer, clear, doubt>>
        /\ pc'["read"] = pc["read"]
    BY <1>t, <1>15 DEF Ensure, CallUnchanged, hubVars, resetVars, Goto
  <2>2. CASE AwaitWrites("ensure", Tracked)
    <3>1. WritesGoOn /\ HasStill
      BY <2>1, <2>2, AwaitGoesOn DEF Callers, HasStill
    <3>2. baseline' >= baseline /\ log' >= log /\ (Calm => Calm')
      BY <2>1, ReadTyped DEF Calm
    <3> QED
      BY <2>1, <3>1, <3>2, ReadOn DEF ReadGoesOn
  <2>3. CASE UNCHANGED storeVars
    BY <2>1, <2>3, SameRead DEF storeVars, ReadGoesOn
  <2> QED
    BY <1>15, <2>2, <2>3 DEF Ensure
<1>16. ASSUME NEW c \in Callers, TimesOut(c) \/ Throw(c) PROVE ReadInv'
  <2>1. UNCHANGED <<log, journal, baseline, batch, flying, asked, spoiled, answer, clear, doubt>>
    BY <1>16 DEF TimesOut, Throw, CallUnchanged, storeVars, resetVars
  <2>2. ReadGoesOn
    <3>1. pc[c] # "idle" /\ (GiveUp(c) \/ Goto(c, "failed"))
      BY <1>16 DEF TimesOut, Throw, At
    <3> QED
      BY <1>t, <1>1, <3>1 DEF GiveUp, Goto, ReadGoesOn
  <2> QED
    BY <2>1, <2>2, SameRead
<1>17. ASSUME NEW c \in Callers, Return(c) PROVE ReadInv'
  <2>1. CASE c = "read"
    BY <1>t, <1>17, <2>1 DEF Return, Goto, ReadInv, HistoryIsRead, At, Following, Drained
  <2>2. CASE c # "read"
    BY <1>t, <1>17, <2>2, SameRead
    DEF Return, Goto, CallUnchanged, storeVars, resetVars, ReadGoesOn
  <2> QED
    BY <2>1, <2>2
<1> QED
  BY <1>2, <1>4, <1>5, <1>6, <1>7, <1>8, <1>10, <1>11, <1>12, <1>13, <1>14, <1>15, <1>16, <1>17,
     OpenRead, FlushesRead, AppendRead, TailRead
  DEF Next, Continue, Happens, Answers

(* A history that a read returns has no gap and no repetition, holds all   *)
(* that was seen when the read drained the store, and goes back to the     *)
(* beginning of the session or as far as the read asked and the windows    *)
(* let through, unless a reset or a failed call came in its way.           *)
THEOREM ReadsHistory == Spec => []HistoryIsRead
<1>1. Init => ReadInv
  BY DEF Init, ReadInv, HistoryIsRead, At, Callers, Following, Drained
<1>2. TypeInv /\ JournalInv /\ WaitersFlush /\ ReadInv /\ TypeInv' /\ [Next]_vars
        => WaitersFlush' /\ ReadInv'
  BY WaitersNext, ReadNext
<1>3. ReadInv => HistoryIsRead
  BY DEF ReadInv
<1> QED
  BY <1>1, <1>2, <1>3, WaitersInit, Journaled, PTL DEF Spec
=============================================================================
