---------------------------- MODULE EffectProofs ----------------------------
(***************************************************************************)
(* The effect journal for any keys, retention bound and file system        *)
(* faults: its invariants, its implementation of the ledger when the file  *)
(* system does not fail, and, of the desktop's integrations over it, that  *)
(* what is taken for integrated was merged and that a merge that may have  *)
(* happened is not repeated.                                               *)
(***************************************************************************)
EXTENDS EffectRecovery, TLAPS

Entry == Record \cup {Torn}

-----------------------------------------------------------------------------
(* What one more record changes in what is read from a sequence.           *)

LEMMA AppendFacts ==
  ASSUME NEW s \in Seq(Entry), NEW r \in Entry
  PROVE  /\ Append(s, r) \in Seq(Entry)
         /\ Len(Append(s, r)) = Len(s) + 1
         /\ \A i \in 1 .. Len(s) : Append(s, r)[i] = s[i]
         /\ Append(s, r)[Len(s) + 1] = r
         /\ Len(s) \in Nat
  OBVIOUS

LEMMA AppendIsLatest ==
  ASSUME NEW s \in Seq(Entry), NEW r \in Entry, NEW k, NEW i
  PROVE  IsLatest(Append(s, r), k, i) <=>
           IF r.key = k THEN i = Len(s) + 1 ELSE IsLatest(s, k, i)
<1> DEFINE t == Append(s, r)
<1>1. /\ Len(t) = Len(s) + 1 /\ Len(s) \in Nat
      /\ \A j \in 1 .. Len(s) : t[j] = s[j]
      /\ t[Len(s) + 1] = r
  BY AppendFacts
<1> HIDE DEF t
<1>2. CASE r.key = k
  BY <1>1, <1>2 DEF IsLatest
<1>3. CASE r.key # k
  BY <1>1, <1>3 DEF IsLatest
<1>4. QED
  BY <1>2, <1>3 DEF t

(* The last record of a key, if any, is unique. *)
LEMMA LatestUnique ==
  ASSUME NEW s \in Seq(Entry), NEW k, NEW i, NEW j,
         IsLatest(s, k, i), IsLatest(s, k, j)
  PROVE  i = j
<1>1. Len(s) \in Nat
  OBVIOUS
<1>2. ~(i < j) /\ ~(j < i)
  BY <1>1 DEF IsLatest
<1>3. QED
  BY <1>1, <1>2 DEF IsLatest

LEMMA AppendLatestIs ==
  ASSUME NEW s \in Seq(Entry), NEW r \in Entry, NEW k, NEW st
  PROVE  LatestIs(Append(s, r), k, st) <=>
           IF r.key = k THEN r.state = st ELSE LatestIs(s, k, st)
<1> DEFINE t == Append(s, r)
<1>1. /\ Len(t) = Len(s) + 1 /\ Len(s) \in Nat
      /\ \A j \in 1 .. Len(s) : t[j] = s[j]
      /\ t[Len(s) + 1] = r
  BY AppendFacts
<1>2. \A i : IsLatest(t, k, i) <=> IF r.key = k THEN i = Len(s) + 1
                                                ELSE IsLatest(s, k, i)
  BY AppendIsLatest
<1>3. \A i : IsLatest(s, k, i) => i \in 1 .. Len(s)
  BY DEF IsLatest
<1> HIDE DEF t
<1>4. CASE r.key = k
  <2>1. LatestIs(t, k, st) <=> r.state = st
    BY <1>1, <1>2, <1>4 DEF LatestIs
  <2>2. QED
    BY <2>1, <1>4 DEF t
<1>5. CASE r.key # k
  <2>1. LatestIs(t, k, st) <=> LatestIs(s, k, st)
    BY <1>1, <1>2, <1>3, <1>5 DEF LatestIs
  <2>2. QED
    BY <2>1, <1>5 DEF t
<1>6. QED
  BY <1>4, <1>5 DEF t

LEMMA AppendCompleted ==
  ASSUME NEW s \in Seq(Entry), NEW r \in Entry, NEW k
  PROVE  Completed(Append(s, r), k) <=>
           Completed(s, k) \/ (r.key = k /\ r.state = "Complete")
<1> DEFINE t == Append(s, r)
<1>1. /\ Len(t) = Len(s) + 1 /\ Len(s) \in Nat
      /\ \A j \in 1 .. Len(s) : t[j] = s[j]
      /\ t[Len(s) + 1] = r
  BY AppendFacts
<1> HIDE DEF t
<1>2. QED
  BY <1>1 DEF Completed, t

(* A key stays blocked by any further record but its own failure.          *)
LEMMA AppendBlocks ==
  ASSUME NEW s \in Seq(Entry), NEW r \in Entry, NEW k,
         \/ Blocks(s, k) /\ ~(r.key = k /\ r.state = "Failed")
         \/ r.key = k /\ r.state \in {"Intent", "Complete", "Uncertain"},
         r.key = k => r.state \in EffectStates
  PROVE  Blocks(Append(s, r), k)
  BY AppendLatestIs, AppendCompleted DEF Blocks, EffectStates

(* What can be read back with one more line could be read back without it. *)
LEMMA AppendLoadable ==
  ASSUME NEW s \in Seq(Entry), NEW r \in Entry, Loadable(Append(s, r))
  PROVE  Loadable(s)
<1> DEFINE t == Append(s, r)
<1>1. /\ Len(t) = Len(s) + 1 /\ Len(s) \in Nat
      /\ \A j \in 1 .. Len(s) : t[j] = s[j]
  BY AppendFacts
<1> HIDE DEF t
<1>2. Loadable(t)
  BY DEF t
<1>3. \A i \in 1 .. Len(s) : s[i] # Torn
  BY <1>1, <1>2 DEF Loadable
<1>4. Len(s) <= MaxRecords
  BY <1>1, <1>2, EffectJournalAssumption DEF Loadable
<1>5. ASSUME NEW i \in 1 .. Len(s) - 1 PROVE s[i].seq < s[i + 1].seq
  <2>1. i \in 1 .. Len(t) - 1 /\ i \in 1 .. Len(s) /\ i + 1 \in 1 .. Len(s)
    BY <1>1
  <2>2. t[i].seq < t[i + 1].seq
    BY <1>2, <2>1 DEF Loadable
  <2>3. QED
    BY <1>1, <2>1, <2>2
<1>6. QED
  BY <1>3, <1>4, <1>5 DEF Loadable

LEMMA TornIsNoRecord == Torn \notin Record /\ NoRecord \notin Record
  BY DEF Torn, NoRecord, Record, EffectStates

LEMMA NewRecordType ==
  ASSUME records \in Seq(Record), NEW k \in Keys, NEW st \in EffectStates
  PROVE  NewRecord(k, st) \in Record
<1>1. CASE records = <<>>
  BY <1>1 DEF NewRecord, NextSeq, Record
<1>2. CASE records # <<>>
  <2>1. Len(records) \in 1 .. Len(records)
    BY <1>2
  <2>2. records[Len(records)] \in Record
    BY <2>1
  <2>3. QED
    BY <1>2, <2>2 DEF NewRecord, NextSeq, Record
<1>3. QED
  BY <1>1, <1>2

(* A file that loads holds records only. *)
LEMMA LoadableIsRecords ==
  ASSUME NEW s \in Seq(Entry), Loadable(s)
  PROVE  s \in Seq(Record)
<1>1. \A i \in 1 .. Len(s) : s[i] \in Record
  BY DEF Loadable, Entry
<1>2. QED
  BY <1>1

-----------------------------------------------------------------------------
(* Typing.                                                                 *)

LEMMA EmptySeq ==
  <<>> \in Seq(Record) /\ <<>> \in Seq(Record \cup {Torn}) /\ Len(<<>>) = 0
  OBVIOUS

LEMMA TypeInit == Init => TypeOK
<1> SUFFICES ASSUME Init PROVE TypeOK
  OBVIOUS
<1>1. recovered \in SUBSET {k \in Keys : LatestIs(records, k, "Intent")}
  BY DEF Init
<1>2. file \in Seq(Record \cup {Torn}) /\ records \in Seq(Record)
  BY EmptySeq DEF Init
<1>3. boot \in 0 .. Len(file)
  BY EmptySeq DEF Init
<1>4. spent \in SUBSET Keys /\ serving \in BOOLEAN
  BY DEF Init
<1>5. writing \in Record \cup {NoRecord}
  BY DEF Init
<1>6. QED
  BY <1>1, <1>2, <1>3, <1>4, <1>5 DEF Init, TypeOK

LEMMA TypeConfigure == TypeOK /\ Configure => TypeOK'
<1> SUFFICES ASSUME TypeOK, Configure PROVE TypeOK'
  OBVIOUS
<1>1. file \in Seq(Record)
  BY LoadableIsRecords DEF TypeOK, Configure, Entry
<1>2. QED
  BY <1>1 DEF TypeOK, Configure, RecoveredUncertain

LEMMA TypeWrite ==
  ASSUME TypeOK, NEW k \in Keys, NEW st \in EffectStates,
         Write(k, st) \/ WriteFails(k, st)
  PROVE  TypeOK'
<1>1. NewRecord(k, st) \in Record
  BY NewRecordType DEF TypeOK
<1>2. file' \in Seq(Entry) /\ Len(file') = Len(file) + 1 /\ Len(file) \in Nat
  BY <1>1 DEF TypeOK, Write, WriteFails, Entry
<1>3. /\ serving /\ serving' = serving /\ records' = records
      /\ recovered' = recovered /\ boot' = boot
  BY DEF Write, WriteFails, Admits
<1>4. writing' \in Record \cup {NoRecord} /\ spent' \in SUBSET Keys
  BY <1>1 DEF TypeOK, Write, WriteFails
<1>5. boot' \in 0 .. Len(file')
  BY <1>2, <1>3 DEF TypeOK
<1>6. recovered' \in SUBSET {j \in Keys : LatestIs(records, j, "Intent")'}
  BY <1>3 DEF TypeOK, LatestIs, IsLatest
<1>7. QED
  BY <1>2, <1>3, <1>4, <1>5, <1>6 DEF TypeOK, Entry

LEMMA TypeCommit == TypeOK /\ Commit => TypeOK'
<1> SUFFICES ASSUME TypeOK, Commit PROVE TypeOK'
  OBVIOUS
<1>1. writing \in Record /\ serving
  BY DEF TypeOK, Commit, Idle
<1>2. records' \in Seq(Record) /\ records \in Seq(Entry) /\ writing \in Entry
  BY <1>1 DEF TypeOK, Commit, Entry
<1>3. recovered' \in SUBSET {k \in Keys : LatestIs(records', k, "Intent")}
  <2> SUFFICES ASSUME NEW k \in recovered'
               PROVE  k \in Keys /\ LatestIs(records', k, "Intent")
    OBVIOUS
  <2>1. k \in recovered /\ (k = writing.key => writing.state = "Intent")
    BY DEF Commit
  <2>2. k \in Keys /\ LatestIs(records, k, "Intent")
    BY <2>1 DEF TypeOK
  <2>3. LatestIs(Append(records, writing), k, "Intent")
    BY <1>2, <2>1, <2>2, AppendLatestIs
  <2>4. QED
    BY <2>2, <2>3 DEF Commit
<1>4. spent' \in SUBSET Keys
  BY <1>1 DEF TypeOK, Commit, Record
<1>5. QED
  BY <1>1, <1>2, <1>3, <1>4 DEF TypeOK, Commit

LEMMA TypeStep == TypeOK /\ [Next]_vars => TypeOK'
<1> SUFFICES ASSUME TypeOK, [Next]_vars PROVE TypeOK'
  OBVIOUS
<1>1. CASE Configure
  BY <1>1, TypeConfigure
<1>2. ASSUME NEW k \in Keys, NEW st \in EffectStates, Decline(k, st)
      PROVE  TypeOK'
  BY <1>2 DEF TypeOK, Decline, LatestIs, IsLatest
<1>3. ASSUME NEW k \in Keys, NEW st \in EffectStates,
             Write(k, st) \/ WriteFails(k, st)
      PROVE  TypeOK'
  BY <1>3, TypeWrite
<1>4. CASE Commit
  BY <1>4, TypeCommit
<1>5. ASSUME NEW k \in Keys, Query(k) PROVE TypeOK'
  BY <1>5 DEF TypeOK, Query, LatestIs, IsLatest
<1>6. CASE Crash
  <2>1. Len(file) \in 0 .. Len(file)
    BY DEF TypeOK
  <2>2. recovered' \in SUBSET {k \in Keys : LatestIs(records, k, "Intent")'}
    BY <1>6 DEF Crash
  <2>3. QED
    BY <1>6, <2>1, <2>2, EmptySeq DEF TypeOK, Crash
<1>7. CASE UNCHANGED vars
  BY <1>7 DEF TypeOK, vars, LatestIs, IsLatest
<1>8. QED
  BY <1>1, <1>2, <1>3, <1>4, <1>5, <1>6, <1>7 DEF Next

(* The journal's variables keep their types, recovered keys are keys whose *)
(* last record is an intent, and a process that has not configured the     *)
(* journal holds nothing, whatever fails and whenever it dies.             *)
THEOREM JournalTypeOK == Spec => []TypeOK
  BY TypeInit, TypeStep, PTL DEF Spec

-----------------------------------------------------------------------------
(* No effect is started twice on the strength of a forgotten record.       *)

(* A record on its way to the image is the last line of the file, and the  *)
(* key of a failure on its way is not spent.                               *)
WritingIsLast ==
  writing # NoRecord => /\ Len(file) > 0
                        /\ file[Len(file)] = writing
                        /\ writing.state = "Failed" => writing.key \notin spent

(* SpentIsRecorded is inductive with it: Commit makes the key of writing   *)
(* spent, and it is the file's last line that blocks that key.             *)
SpentInv == TypeOK /\ WritingIsLast /\ SpentIsRecorded

LEMMA LastBlocks ==
  ASSUME NEW s \in Seq(Entry), Len(s) > 0, NEW r \in Record, s[Len(s)] = r,
         r.state # "Failed"
  PROVE  Blocks(s, r.key)
<1>1. Len(s) \in 1 .. Len(s)
  OBVIOUS
<1>2. r.state \in {"Intent", "Complete", "Uncertain"}
  BY DEF Record, EffectStates
<1>3. IsLatest(s, r.key, Len(s))
  BY <1>1 DEF IsLatest
<1>4. LatestIs(s, r.key, r.state)
  BY <1>1, <1>3 DEF LatestIs
<1>5. r.state = "Complete" => Completed(s, r.key)
  BY <1>1 DEF Completed
<1>6. QED
  BY <1>2, <1>4, <1>5 DEF Blocks

LEMMA SpentWrite ==
  ASSUME SpentInv, NEW k \in Keys, NEW st \in EffectStates,
         Write(k, st) \/ WriteFails(k, st)
  PROVE  SpentInv'
<1>1. TypeOK'
  BY TypeWrite DEF SpentInv
<1>2. NewRecord(k, st) \in Record
  BY NewRecordType DEF SpentInv, TypeOK
<1>a. /\ spent' = IF st = "Failed" THEN spent \ {k} ELSE spent
      /\ records' = records /\ serving' = serving
  BY DEF Write, WriteFails
<1>3. PICK r \in Entry : /\ file' = Append(file, r)
                          /\ (r = NewRecord(k, st) \/ r = Torn)
                          /\ (writing' = NoRecord \/ writing' = r)
  BY <1>2 DEF Write, WriteFails, Entry, Admits, Idle
<1>4. file \in Seq(Entry)
  BY DEF SpentInv, TypeOK, Entry
<1>d. /\ Len(Append(file, r)) = Len(file) + 1 /\ Len(file) \in Nat
      /\ Append(file, r)[Len(file) + 1] = r
  BY <1>4, AppendFacts
<1>b. /\ Len(file') = Len(file) + 1 /\ Len(file) \in Nat
      /\ file'[Len(file) + 1] = r
  BY <1>3, <1>d, Zenon
<1>c. NewRecord(k, st).key = k /\ NewRecord(k, st).state = st
  BY DEF NewRecord
<1>5. WritingIsLast'
  <2>1. writing' # NoRecord => writing' = r /\ r = NewRecord(k, st)
    BY <1>2, <1>3, TornIsNoRecord DEF Write, WriteFails, Admits, Idle
  <2>2. QED
    BY <2>1, <1>a, <1>b, <1>c DEF WritingIsLast
<1>6. ASSUME NEW j \in spent', serving' PROVE Blocks(records', j)
  BY <1>6, <1>a DEF SpentInv, SpentIsRecorded
<1>7. ASSUME NEW j \in spent', Loadable(file') PROVE Blocks(file', j)
  <2>0. Loadable(Append(file, r))
    BY <1>3, <1>7, Zenon
  <2>1. Loadable(file)
    BY <1>4, <2>0, AppendLoadable, Zenon
  <2>2. j \in spent /\ (j = k => st # "Failed")
    BY <1>a
  <2>3. Blocks(file, j)
    BY <2>1, <2>2 DEF SpentInv, SpentIsRecorded
  <2>4. r # Torn
    BY <1>b, <1>7 DEF Loadable
  <2>5. r.key = k /\ r.state = st
    BY <1>3, <1>c, <2>4, Zenon
  <2>6. Blocks(Append(file, r), j)
    BY <1>4, <2>2, <2>3, <2>5, AppendBlocks
  <2>7. QED
    BY <1>3, <2>6, Zenon
<1>8. QED
  BY <1>1, <1>5, <1>6, <1>7 DEF SpentInv, SpentIsRecorded

LEMMA SpentCommit == SpentInv /\ Commit => SpentInv'
<1> SUFFICES ASSUME SpentInv, Commit PROVE SpentInv'
  OBVIOUS
<1>1. TypeOK'
  BY TypeCommit DEF SpentInv
<1>2. writing \in Record /\ records \in Seq(Entry) /\ file \in Seq(Entry)
  BY DEF SpentInv, TypeOK, Commit, Idle, Entry
<1>3. writing \in Entry /\ writing.state \in EffectStates
  BY <1>2 DEF Entry, Record
<1>4. WritingIsLast'
  BY DEF WritingIsLast, Commit
<1>5. ASSUME NEW j \in spent' PROVE Blocks(records', j)
  <2>1. CASE j = writing.key /\ writing.state # "Failed"
    <3>1. Blocks(Append(records, writing), j)
      BY <1>2, <1>3, <2>1, AppendBlocks DEF EffectStates
    <3>2. QED
      BY <3>1 DEF Commit
  <2>2. CASE j \in spent /\ j # writing.key
    <3>1. Blocks(records, j)
      BY <2>2 DEF SpentInv, SpentIsRecorded, TypeOK, Commit, Idle
    <3>2. Blocks(Append(records, writing), j)
      BY <1>2, <1>3, <2>2, <3>1, AppendBlocks
    <3>3. QED
      BY <3>2 DEF Commit
  <2>3. ~(j \in spent /\ j = writing.key /\ writing.state = "Failed")
    BY DEF SpentInv, WritingIsLast, Commit, Idle
  <2>4. QED
    BY <2>1, <2>2, <2>3 DEF Commit
<1>6. ASSUME NEW j \in spent', Loadable(file') PROVE Blocks(file', j)
  <2>1. file' = file
    BY DEF Commit
  <2>2. CASE j \in spent
    BY <1>6, <2>1, <2>2 DEF SpentInv, SpentIsRecorded
  <2>3. CASE j \notin spent
    <3>1. j = writing.key /\ writing.state # "Failed"
      BY <2>3 DEF Commit
    <3>2. QED
      BY <1>2, <2>1, <3>1, LastBlocks DEF SpentInv, WritingIsLast, Commit, Idle
  <2>4. QED
    BY <2>2, <2>3
<1>7. QED
  BY <1>1, <1>4, <1>5, <1>6 DEF SpentInv, SpentIsRecorded

LEMMA SpentStep == SpentInv /\ [Next]_vars => SpentInv'
<1> SUFFICES ASSUME SpentInv, [Next]_vars PROVE SpentInv'
  OBVIOUS
<1>0. TypeOK'
  <2>1. TypeOK
    BY DEF SpentInv
  <2>2. QED
    BY <2>1, TypeStep
<1>1. CASE Configure
  BY <1>0, <1>1 DEF SpentInv, WritingIsLast, SpentIsRecorded, Configure
<1>2. ASSUME NEW k \in Keys, NEW st \in EffectStates, Decline(k, st)
      PROVE  SpentInv'
  BY <1>0, <1>2 DEF SpentInv, WritingIsLast, SpentIsRecorded, Decline,
                    Blocks, Completed, LatestIs, IsLatest
<1>3. ASSUME NEW k \in Keys, NEW st \in EffectStates,
             Write(k, st) \/ WriteFails(k, st)
      PROVE  SpentInv'
  BY <1>3, SpentWrite
<1>4. CASE Commit
  BY <1>4, SpentCommit
<1>5. ASSUME NEW k \in Keys, Query(k) PROVE SpentInv'
  BY <1>0, <1>5 DEF SpentInv, WritingIsLast, SpentIsRecorded, Query,
                    Blocks, Completed, LatestIs, IsLatest
<1>6. CASE Crash
  BY <1>0, <1>6 DEF SpentInv, WritingIsLast, SpentIsRecorded, Crash
<1>7. CASE UNCHANGED vars
  BY <1>0, <1>7 DEF SpentInv, WritingIsLast, SpentIsRecorded, vars,
                    Blocks, Completed, LatestIs, IsLatest
<1>8. QED
  BY <1>1, <1>2, <1>3, <1>4, <1>5, <1>6, <1>7 DEF Next

(* The journal knows of every effect that may have happened: the image, as *)
(* long as the process lives, and the file, if it can be read back, after  *)
(* any crash and any failing write.                                        *)
THEOREM JournalSpentInv == Spec => []SpentInv
<1>1. Init => SpentInv
  BY TypeInit DEF Init, SpentInv, WritingIsLast, SpentIsRecorded
<1>2. QED
  BY <1>1, SpentStep, PTL DEF Spec

(* The invariant of the runs, without its strengthening.                   *)
THEOREM JournalSpentIsRecorded == Spec => []SpentIsRecorded
<1>1. SpentInv => SpentIsRecorded
  BY DEF SpentInv
<1>2. QED
  BY JournalSpentInv, <1>1, PTL

(* Of a key it knows, append accepts no intent. *)
LEMMA SpentNotFresh == SpentInv => \A k \in spent : ~Write(k, "Intent")
<1> SUFFICES ASSUME SpentInv, NEW k \in spent, Write(k, "Intent")
             PROVE  FALSE
  OBVIOUS
<1>1. Blocks(records, k)
  BY DEF SpentInv, SpentIsRecorded, Write, Admits
<1>2. Refused(k, "Intent") \/ Duplicate(k, "Intent")
  BY <1>1 DEF Blocks, Refused, Duplicate
<1>3. QED
  BY <1>2 DEF Write, Admits

(* append never lets an effect start again that was allowed to start and   *)
(* was not reported failed, whatever crashes and write failures came in    *)
(* between.                                                                *)
THEOREM JournalNoBlindRetry == Spec => NoBlindRetry
  BY JournalSpentInv, SpentNotFresh, PTL DEF NoBlindRetry

-----------------------------------------------------------------------------
(* A file system that does not fail.                                       *)

(* The image is the file, give or take the record being committed, and     *)
(* both are numbered upwards within the retention bound.                   *)
ImageIsFile ==
  serving => IF writing = NoRecord THEN records = file
             ELSE file = Append(records, writing)

ReadableInv == TypeOK /\ Loadable(file) /\ ImageIsFile

LEMMA ReadableWrite ==
  ASSUME ReadableInv, NEW k \in Keys, NEW st \in EffectStates, Write(k, st)
  PROVE  ReadableInv'
<1> DEFINE r == NewRecord(k, st)
           t == Append(file, r)
<1>1. TypeOK'
  BY TypeWrite DEF ReadableInv
<1>2. r \in Record /\ r \in Entry /\ r # NoRecord
  BY NewRecordType, TornIsNoRecord DEF ReadableInv, TypeOK, Entry
<1>3. file = records /\ file \in Seq(Entry) /\ Len(file) < MaxRecords
  BY DEF ReadableInv, ImageIsFile, TypeOK, Entry, Write, Admits, Idle
<1>4. /\ Len(t) = Len(file) + 1 /\ Len(file) \in Nat
      /\ \A i \in 1 .. Len(file) : t[i] = file[i]
      /\ t[Len(file) + 1] = r
  BY <1>2, <1>3, AppendFacts
<1>5. r.seq = NextSeq(file)
  BY <1>3 DEF NewRecord
<1>6. Len(file) > 0 => file[Len(file)].seq < r.seq
  <2> SUFFICES ASSUME Len(file) > 0 PROVE file[Len(file)].seq < r.seq
    OBVIOUS
  <2>1. file # <<>> /\ Len(file) \in 1 .. Len(file)
    BY <1>4
  <2>2. file[Len(file)] \in Record
    BY <2>1, <1>3 DEF ReadableInv, TypeOK
  <2>3. file[Len(file)].seq \in Nat
    BY <2>2 DEF Record
  <2>4. r.seq = file[Len(file)].seq + 1
    BY <1>5, <2>1 DEF NextSeq
  <2>5. QED
    BY <2>3, <2>4
<1> HIDE DEF r, t
<1>7. Loadable(t)
  <2>1. Loadable(file)
    BY DEF ReadableInv
  <2>2. \A i \in 1 .. Len(t) : t[i] # Torn
    BY <1>2, <1>4, <2>1, TornIsNoRecord DEF Loadable
  <2>3. ASSUME NEW i \in 1 .. Len(t) - 1 PROVE t[i].seq < t[i + 1].seq
    <3>1. CASE i = Len(file)
      BY <1>4, <1>6, <3>1
    <3>2. CASE i # Len(file)
      <4>1. i \in 1 .. Len(file) - 1 /\ i \in 1 .. Len(file) /\ i + 1 \in 1 .. Len(file)
        BY <1>4, <3>2
      <4>2. file[i].seq < file[i + 1].seq
        BY <2>1, <4>1 DEF Loadable
      <4>3. QED
        BY <1>4, <4>1, <4>2
    <3>3. QED
      BY <3>1, <3>2
  <2>4. Len(t) <= MaxRecords
    BY <1>3, <1>4, EffectJournalAssumption
  <2>5. QED
    BY <2>2, <2>3, <2>4 DEF Loadable
<1>8. file' = t /\ writing' = r /\ records' = records
  BY DEF Write, t, r
<1>9. ImageIsFile'
  BY <1>2, <1>3, <1>8 DEF ImageIsFile, t
<1>10. QED
  BY <1>1, <1>7, <1>8, <1>9 DEF ReadableInv

LEMMA ReadableStep ==
  ASSUME Faults = {}, ReadableInv, [Next]_vars
  PROVE  ReadableInv'
<1>0. TypeOK'
  <2>1. TypeOK
    BY DEF ReadableInv
  <2>2. QED
    BY <2>1, TypeStep
<1>1. CASE Configure
  BY <1>0, <1>1 DEF ReadableInv, ImageIsFile, TypeOK, Configure
<1>2. ASSUME NEW k \in Keys, NEW st \in EffectStates,
             Decline(k, st) \/ WriteFails(k, st)
      PROVE  ReadableInv'
  BY <1>0, <1>2 DEF ReadableInv, ImageIsFile, Decline, WriteFails, Loadable
<1>3. ASSUME NEW k \in Keys, NEW st \in EffectStates, Write(k, st)
      PROVE  ReadableInv'
  BY <1>3, ReadableWrite
<1>4. CASE Commit
  BY <1>0, <1>4 DEF ReadableInv, ImageIsFile, TypeOK, Commit, Idle, Loadable
<1>5. ASSUME NEW k \in Keys, Query(k) PROVE ReadableInv'
  BY <1>0, <1>5 DEF ReadableInv, ImageIsFile, Query, Loadable
<1>6. CASE Crash
  BY <1>0, <1>6 DEF ReadableInv, ImageIsFile, Crash, Loadable
<1>7. CASE UNCHANGED vars
  BY <1>0, <1>7 DEF ReadableInv, ImageIsFile, vars, Loadable
<1>8. QED
  BY <1>1, <1>2, <1>3, <1>4, <1>5, <1>6, <1>7 DEF Next

LEMMA JournalReadableInv ==
  ASSUME Faults = {}
  PROVE  Spec => []ReadableInv
<1>1. Init => ReadableInv
  <2>1. ASSUME Init PROVE Loadable(file)
    BY <2>1, EmptySeq, EffectJournalAssumption DEF Init, Loadable
  <2>2. QED
    BY <2>1, TypeInit DEF Init, ReadableInv, ImageIsFile
<1>2. ReadableInv /\ [Next]_vars => ReadableInv'
  BY ReadableStep
<1>3. QED
  BY <1>1, <1>2, PTL DEF Spec

(* Without file system failures the next process can always read the file  *)
(* back, wherever in append the last one died.                             *)
THEOREM JournalReadableAfterCrash ==
  ASSUME Faults = {}
  PROVE  Spec => []ReadableAfterCrash
<1>1. ReadableInv => ReadableAfterCrash
  BY DEF ReadableInv, ReadableAfterCrash
<1>2. QED
  BY JournalReadableInv, <1>1, PTL

-----------------------------------------------------------------------------
(* The ledger.                                                             *)

(* Keys whose last record is an intent of an earlier process.              *)
Orphans(s, b) ==
  {k \in Keys : \E i \in 1 .. Len(s) :
                   IsLatest(s, k, i) /\ s[i].state = "Intent" /\ i <= b}

LEMMA StatusLatest ==
  ASSUME NEW s \in Seq(Entry), NEW k, NEW b, NEW i \in 1 .. Len(s),
         IsLatest(s, k, i), ~Completed(s, k)
  PROVE  StatusIn(s, k, b) = MeaningAt(s, i, b)
<1> DEFINE c == CHOOSE j \in 1 .. Len(s) : IsLatest(s, k, j)
<1>1. c \in 1 .. Len(s) /\ IsLatest(s, k, c)
  OBVIOUS
<1>2. c = i
  BY <1>1, LatestUnique
<1>3. QED
  BY <1>2 DEF StatusIn

LEMMA StatusAppend ==
  ASSUME NEW s \in Seq(Entry), NEW r \in Record, NEW k, NEW b \in 0 .. Len(s),
         ~Completed(s, r.key)
  PROVE  StatusIn(Append(s, r), k, b) =
           IF r.key = k THEN Meaning[r.state] ELSE StatusIn(s, k, b)
<1> DEFINE t == Append(s, r)
<1>1. r \in Entry
  BY DEF Entry
<1>2. /\ t \in Seq(Entry) /\ Len(t) = Len(s) + 1 /\ Len(s) \in Nat
      /\ \A j \in 1 .. Len(s) : t[j] = s[j]
      /\ t[Len(s) + 1] = r
  BY <1>1, AppendFacts
<1>3. Completed(t, k) <=> Completed(s, k) \/ (r.key = k /\ r.state = "Complete")
  BY <1>1, AppendCompleted
<1>4. \A i : IsLatest(t, k, i) <=> IF r.key = k THEN i = Len(s) + 1
                                                ELSE IsLatest(s, k, i)
  BY <1>1, AppendIsLatest
<1> HIDE DEF t
<1>5. CASE r.key = k
  <2>1. CASE r.state = "Complete"
    BY <1>3, <1>5, <2>1 DEF StatusIn, Meaning, t
  <2>2. CASE r.state # "Complete"
    <3>1. ~Completed(t, k) /\ IsLatest(t, k, Len(s) + 1) /\ Len(s) + 1 \in 1 .. Len(t)
      BY <1>2, <1>3, <1>4, <1>5, <2>2
    <3>2. StatusIn(t, k, b) = MeaningAt(t, Len(s) + 1, b)
      BY <1>2, <3>1, StatusLatest
    <3>3. ~(Len(s) + 1 <= b) /\ t[Len(s) + 1] = r
      BY <1>2
    <3>4. StatusIn(t, k, b) = Meaning[r.state]
      BY <3>2, <3>3 DEF MeaningAt
    <3>5. QED
      BY <1>5, <3>4 DEF t
  <2>3. QED
    BY <2>1, <2>2
<1>6. CASE r.key # k
  <2>1. CASE Completed(s, k)
    BY <1>3, <1>6, <2>1 DEF StatusIn, t
  <2>2. CASE ~Completed(s, k) /\ \E i \in 1 .. Len(s) : IsLatest(s, k, i)
    <3>1. PICK i \in 1 .. Len(s) : IsLatest(s, k, i)
      BY <2>2
    <3>2. i \in 1 .. Len(t) /\ IsLatest(t, k, i) /\ ~Completed(t, k) /\ t[i] = s[i]
      BY <1>2, <1>3, <1>4, <1>6, <2>2, <3>1
    <3>3. StatusIn(t, k, b) = MeaningAt(t, i, b)
      BY <1>2, <3>2, StatusLatest
    <3>4. StatusIn(s, k, b) = MeaningAt(s, i, b)
      BY <2>2, <3>1, StatusLatest
    <3>5. MeaningAt(t, i, b) = MeaningAt(s, i, b)
      BY <3>2 DEF MeaningAt
    <3>6. QED
      BY <1>6, <3>3, <3>4, <3>5 DEF t
  <2>3. CASE ~Completed(s, k) /\ ~\E i \in 1 .. Len(s) : IsLatest(s, k, i)
    <3>1. ~\E i \in 1 .. Len(t) : IsLatest(t, k, i)
      BY <1>4, <1>6, <2>3 DEF IsLatest
    <3>2. ~Completed(t, k)
      BY <1>3, <1>6, <2>3
    <3>3. QED
      BY <1>6, <2>3, <3>1, <3>2 DEF StatusIn, t
  <2>4. QED
    BY <2>1, <2>2, <2>3
<1>7. QED
  BY <1>5, <1>6

LEMMA OrphansAppend ==
  ASSUME NEW s \in Seq(Entry), NEW r \in Entry, NEW b \in 0 .. Len(s)
  PROVE  Orphans(Append(s, r), b) = Orphans(s, b) \ {r.key}
<1> DEFINE t == Append(s, r)
<1>1. /\ Len(t) = Len(s) + 1 /\ Len(s) \in Nat
      /\ \A j \in 1 .. Len(s) : t[j] = s[j]
  BY AppendFacts
<1>2. \A k, i : IsLatest(t, k, i) <=> IF r.key = k THEN i = Len(s) + 1
                                                   ELSE IsLatest(s, k, i)
  BY AppendIsLatest
<1>3. \A k, i : IsLatest(s, k, i) => i \in 1 .. Len(s)
  BY DEF IsLatest
<1> HIDE DEF t
<1>4. ASSUME NEW k \in Keys PROVE k \in Orphans(t, b) <=> k \in Orphans(s, b) \ {r.key}
  <2>1. CASE r.key = k
    BY <1>1, <1>2, <2>1 DEF Orphans
  <2>2. CASE r.key # k
    BY <1>1, <1>2, <1>3, <2>2 DEF Orphans
  <2>3. QED
    BY <2>1, <2>2
<1>5. Orphans(t, b) \subseteq Keys /\ Orphans(s, b) \subseteq Keys
  BY DEF Orphans
<1>6. QED
  BY <1>4, <1>5 DEF t

(* Nothing follows a completion in the file; recovered_uncertain_keys, with*)
(* the record being committed, are the orphaned intents.                   *)
CompleteIsLast == \A k \in Keys : Completed(file, k) => LatestIs(file, k, "Complete")

RecoveredIsOrphans ==
  IF ~serving THEN boot = Len(file)
  ELSE IF writing = NoRecord \/ writing.state = "Intent"
       THEN recovered = Orphans(file, boot)
       ELSE recovered \ {writing.key} = Orphans(file, boot)

LedgerInv == ReadableInv /\ CompleteIsLast /\ RecoveredIsOrphans

LEMMA LedgerInit == Init => LedgerInv
<1> SUFFICES ASSUME Init PROVE LedgerInv
  OBVIOUS
<1>1. ReadableInv
  BY EmptySeq, EffectJournalAssumption, TypeInit
     DEF Init, ReadableInv, ImageIsFile, Loadable
<1>2. CompleteIsLast
  BY EmptySeq DEF Init, CompleteIsLast, Completed
<1>3. RecoveredIsOrphans
  BY EmptySeq DEF Init, RecoveredIsOrphans
<1>4. QED
  BY <1>1, <1>2, <1>3 DEF LedgerInv

(* What append decides from the image is what the file says.               *)
LEMMA Decisions ==
  ASSUME LedgerInv, serving, Idle, NEW k \in Keys, NEW st \in EffectStates
  PROVE  /\ Refused(k, st) <=> (st = "Intent" /\ known[k] = "OutcomeUncertain")
         /\ ~Refused(k, st) =>
              (Duplicate(k, st) <=>
                 known[k] = "KnownComplete" \/ (st = "Intent" /\ known[k] = "InProgress"))
<1>1. records = file /\ file \in Seq(Entry) /\ file \in Seq(Record)
  BY DEF LedgerInv, ReadableInv, ImageIsFile, TypeOK, Entry, Idle
<1>2. recovered = Orphans(file, boot)
  BY DEF LedgerInv, RecoveredIsOrphans, Idle
<1>3. known[k] = StatusIn(file, k, boot)
  BY DEF known
<1>4. CASE Completed(file, k)
  <2>1. known[k] = "KnownComplete"
    BY <1>3, <1>4 DEF StatusIn
  <2>2. LatestIs(file, k, "Complete")
    BY <1>4 DEF LedgerInv, CompleteIsLast
  <2>3. ~LatestIs(file, k, "Intent")
    <3>1. PICK i \in 1 .. Len(file) : IsLatest(file, k, i) /\ file[i].state = "Complete"
      BY <2>2 DEF LatestIs
    <3>2. \A j : IsLatest(file, k, j) => j = i
      BY <1>1, <3>1, LatestUnique
    <3>3. QED
      BY <3>1, <3>2 DEF LatestIs
  <2>4. k \notin recovered
    BY <1>2, <2>3 DEF Orphans, LatestIs
  <2>5. QED
    BY <1>1, <1>4, <2>1, <2>4 DEF Refused, Duplicate
<1>5. CASE ~Completed(file, k) /\ \E i \in 1 .. Len(file) : IsLatest(file, k, i)
  <2>1. PICK i \in 1 .. Len(file) : IsLatest(file, k, i)
    BY <1>5
  <2>2. \A j : IsLatest(file, k, j) => j = i
    BY <1>1, <2>1, LatestUnique
  <2>a. StatusIn(file, k, boot) = MeaningAt(file, i, boot)
    BY <1>1, <1>5, <2>1, StatusLatest
  <2>3. known[k] = IF file[i].state = "Intent" /\ i <= boot
                   THEN "OutcomeUncertain" ELSE Meaning[file[i].state]
    BY <1>3, <2>a DEF MeaningAt
  <2>b. file[i] \in Record
    BY <1>1, <2>1
  <2>4. file[i].state \in EffectStates
    BY <2>b DEF Record
  <2>5. file[i].state # "Complete"
    BY <1>5, <2>1 DEF Completed, IsLatest
  <2>6. \A x : LatestIs(file, k, x) <=> x = file[i].state
    BY <2>1, <2>2 DEF LatestIs
  <2>7. k \in recovered <=> file[i].state = "Intent" /\ i <= boot
    BY <1>2, <2>1, <2>2 DEF Orphans
  <2>8. CASE file[i].state = "Intent"
    <3>1. known[k] = IF i <= boot THEN "OutcomeUncertain" ELSE "InProgress"
      BY <2>3, <2>8 DEF Meaning
    <3>2. QED
      BY <1>1, <1>5, <2>6, <2>7, <2>8, <3>1 DEF Refused, Duplicate
  <2>9. CASE file[i].state = "Uncertain"
    <3>1. known[k] = "OutcomeUncertain"
      BY <2>3, <2>9 DEF Meaning
    <3>2. QED
      BY <1>1, <1>5, <2>6, <2>7, <2>9, <3>1 DEF Refused, Duplicate
  <2>10. CASE file[i].state = "Failed"
    <3>1. known[k] = "KnownFailed"
      BY <2>3, <2>10 DEF Meaning
    <3>2. QED
      BY <1>1, <1>5, <2>6, <2>7, <2>10, <3>1 DEF Refused, Duplicate
  <2>11. QED
    BY <2>4, <2>5, <2>8, <2>9, <2>10 DEF EffectStates
<1>6. CASE ~Completed(file, k) /\ ~\E i \in 1 .. Len(file) : IsLatest(file, k, i)
  <2>1. known[k] = "NotStarted"
    BY <1>3, <1>6 DEF StatusIn
  <2>2. \A x : ~LatestIs(file, k, x)
    BY <1>6 DEF LatestIs
  <2>3. k \notin recovered
    BY <1>2, <1>6 DEF Orphans
  <2>4. QED
    BY <1>1, <1>6, <2>1, <2>2, <2>3 DEF Refused, Duplicate
<1>7. QED
  BY <1>4, <1>5, <1>6

LEMMA LedgerInvWrite ==
  ASSUME LedgerInv, NEW k \in Keys, NEW st \in EffectStates, Write(k, st)
  PROVE  LedgerInv' /\ ~Completed(file, k)
<1> DEFINE r == NewRecord(k, st)
<1>1. ReadableInv'
  BY ReadableWrite DEF LedgerInv
<1>2. /\ r \in Record /\ r \in Entry /\ r # NoRecord
      /\ r.key = k /\ r.state = st
  <2>1. r \in Record
    BY NewRecordType DEF LedgerInv, ReadableInv, TypeOK
  <2>2. QED
    BY <2>1, TornIsNoRecord DEF Entry, NewRecord
<1>3. /\ file \in Seq(Entry) /\ records = file /\ boot \in 0 .. Len(file)
      /\ serving
  BY DEF LedgerInv, ReadableInv, ImageIsFile, TypeOK, Entry, Write, Admits, Idle
<1>4. /\ file' = Append(file, r) /\ writing' = r
      /\ recovered' = recovered /\ boot' = boot /\ serving' = serving
  BY DEF Write
<1>5. ~Refused(k, st) /\ ~Duplicate(k, st)
  BY DEF Write, Admits
<1>6. ~Completed(file, k)
  BY <1>3, <1>5 DEF Duplicate
<1>7. recovered = Orphans(file, boot)
  BY <1>3 DEF LedgerInv, RecoveredIsOrphans, Write, Admits, Idle
<1> HIDE DEF r
<1>8. ASSUME NEW j \in Keys, Completed(file', j) PROVE LatestIs(file', j, "Complete")
  <2>1. Completed(Append(file, r), j)
    BY <1>4, <1>8
  <2>2. Completed(file, j) \/ (r.key = j /\ r.state = "Complete")
    BY <1>2, <1>3, <2>1, AppendCompleted
  <2>3. LatestIs(Append(file, r), j, "Complete")
    <3>1. CASE j = k
      BY <1>2, <1>3, <1>6, <2>2, <3>1, AppendLatestIs
    <3>2. CASE j # k
      <4>1. LatestIs(file, j, "Complete")
        BY <1>2, <2>2, <3>2 DEF LedgerInv, CompleteIsLast
      <4>2. QED
        BY <1>2, <1>3, <3>2, <4>1, AppendLatestIs
    <3>3. QED
      BY <3>1, <3>2
  <2>4. QED
    BY <1>4, <2>3
<1>9. Orphans(file', boot') = recovered \ {k}
  <2>1. Orphans(Append(file, r), boot) = Orphans(file, boot) \ {r.key}
    BY <1>2, <1>3, OrphansAppend
  <2>2. QED
    BY <1>2, <1>4, <1>7, <2>1
<1>10. RecoveredIsOrphans'
  <2>1. st = "Intent" => k \notin recovered
    BY <1>5 DEF Refused
  <2>2. QED
    BY <1>2, <1>3, <1>4, <1>9, <2>1 DEF RecoveredIsOrphans
<1>11. QED
  BY <1>1, <1>6, <1>8, <1>10 DEF LedgerInv, CompleteIsLast

LEMMA LedgerInvStep ==
  ASSUME Faults = {}, LedgerInv, [Next]_vars
  PROVE  LedgerInv'
<1>0. ReadableInv'
  <2>1. ReadableInv
    BY DEF LedgerInv
  <2>2. QED
    BY <2>1, ReadableStep
<1>1. CASE Configure
  <2>1. /\ boot = Len(file) /\ Len(file) \in Nat /\ writing = NoRecord
        /\ file' = file /\ boot' = boot /\ writing' = writing /\ serving'
        /\ recovered' = RecoveredUncertain(file)
    BY <1>1 DEF Configure, LedgerInv, RecoveredIsOrphans, ReadableInv, TypeOK
  <2>2. RecoveredUncertain(file) = Orphans(file, Len(file))
    BY <2>1 DEF RecoveredUncertain, Orphans, LatestIs
  <2>3. RecoveredIsOrphans'
    BY <2>1, <2>2 DEF RecoveredIsOrphans
  <2>4. QED
    BY <1>0, <2>1, <2>3 DEF LedgerInv, CompleteIsLast
<1>2. ASSUME NEW k \in Keys, NEW st \in EffectStates,
             Decline(k, st) \/ WriteFails(k, st)
      PROVE  LedgerInv'
  <2>1. UNCHANGED <<file, serving, recovered, writing, boot>>
    BY <1>2 DEF Decline, WriteFails
  <2>2. QED
    BY <1>0, <2>1 DEF LedgerInv, CompleteIsLast, RecoveredIsOrphans
<1>3. ASSUME NEW k \in Keys, NEW st \in EffectStates, Write(k, st)
      PROVE  LedgerInv'
  BY <1>3, LedgerInvWrite
<1>4. CASE Commit
  <2>1. /\ file' = file /\ boot' = boot /\ serving' = serving /\ serving
        /\ writing # NoRecord /\ writing' = NoRecord
        /\ recovered' = IF writing.state = "Intent" THEN recovered
                        ELSE recovered \ {writing.key}
    BY <1>4 DEF Commit, Idle, LedgerInv, ReadableInv, TypeOK
  <2>2. RecoveredIsOrphans'
    BY <2>1 DEF LedgerInv, RecoveredIsOrphans
  <2>3. QED
    BY <1>0, <2>1, <2>2 DEF LedgerInv, CompleteIsLast
<1>5. ASSUME NEW k \in Keys, Query(k) PROVE LedgerInv'
  BY <1>0, <1>5 DEF LedgerInv, CompleteIsLast, RecoveredIsOrphans, Query
<1>6. CASE Crash
  BY <1>0, <1>6 DEF LedgerInv, CompleteIsLast, RecoveredIsOrphans, Crash
<1>7. CASE UNCHANGED vars
  BY <1>0, <1>7 DEF LedgerInv, CompleteIsLast, RecoveredIsOrphans, vars
<1>8. QED
  BY <1>1, <1>2, <1>3, <1>4, <1>5, <1>6, <1>7 DEF Next

(* A record that reaches the file is a record of the ledger.               *)
LEMMA WriteIsRecord ==
  ASSUME LedgerInv, NEW k \in Keys, NEW st \in EffectStates, Write(k, st)
  PROVE  Ledger!Record(k, st)
<1> DEFINE r == NewRecord(k, st)
<1>1. r \in Record /\ r.key = k /\ r.state = st
  BY NewRecordType DEF LedgerInv, ReadableInv, TypeOK, NewRecord
<1>2. file \in Seq(Entry) /\ boot \in 0 .. Len(file) /\ serving /\ Idle
  BY DEF LedgerInv, ReadableInv, TypeOK, Entry, Write, Admits
<1>3. ~Ledger!Refused(k, st) /\ ~Ledger!Known(k, st)
  <2>1. ~Refused(k, st) /\ ~Duplicate(k, st)
    BY DEF Write, Admits
  <2>2. QED
    BY <1>2, <2>1, Decisions DEF Ledger!Refused, Ledger!Known
<1>4. ~Completed(file, k)
  BY LedgerInvWrite
<1> HIDE DEF r
<1>5. ASSUME NEW j \in Keys
      PROVE  StatusIn(Append(file, r), j, boot) =
               IF j = k THEN Meaning[st] ELSE StatusIn(file, j, boot)
  BY <1>1, <1>2, <1>4, StatusAppend
<1>6. file' = Append(file, r) /\ boot' = boot
  BY DEF Write, r
<1>7. known' = [j \in Keys |-> IF j = k THEN Meaning[st] ELSE known[j]]
  <2>1. known' = [j \in Keys |-> StatusIn(Append(file, r), j, boot)]
    BY <1>6 DEF known
  <2>2. QED
    BY <1>5, <2>1 DEF known
<1>8. known' = [known EXCEPT ![k] = Ledger!Meaning[st]]
  BY <1>7 DEF known, Meaning, Ledger!Meaning
<1>9. QED
  BY <1>2, <1>3, <1>8 DEF Ledger!Record, Write, Answer, Ledger!Answer

LEMMA DeclineIsDecline ==
  ASSUME LedgerInv, NEW k \in Keys, NEW st \in EffectStates, Decline(k, st)
  PROVE  Ledger!Decline(k, st)
<1>1. known' = known
  BY DEF Decline, known
<1>2. serving => /\ Refused(k, st) <=> Ledger!Refused(k, st)
                 /\ ~Refused(k, st) => (Duplicate(k, st) <=> Ledger!Known(k, st))
  BY Decisions DEF Decline, Ledger!Refused, Ledger!Known
<1>3. Duplicate(k, st) => ~Refused(k, st)
  BY DEF Duplicate
<1>4. QED
  BY <1>1, <1>2, <1>3 DEF Decline, Ledger!Decline, Answer, Ledger!Answer

(* effect_state answers what the file says, if the journal is configured.  *)
LEMMA QueryIsQuery ==
  ASSUME LedgerInv, NEW k \in Keys, Query(k)
  PROVE  Ledger!Query(k)
<1>1. known' = known /\ serving' = serving
  BY DEF Query, known
<1>2. CASE ~serving
  <2>1. records = <<>> /\ recovered \in SUBSET {j \in Keys : LatestIs(records, j, "Intent")}
    BY <1>2 DEF LedgerInv, ReadableInv, TypeOK
  <2>2. \A st : ~LatestIs(records, k, st)
    BY <2>1, EmptySeq DEF LatestIs
  <2>3. EffectState(k) = "NotStarted"
    BY <2>1, <2>2 DEF EffectState
  <2>4. QED
    BY <1>1, <1>2, <2>3 DEF Query, Ledger!Query, Answer, Ledger!Answer
<1>3. CASE serving
  <2>1. records = file /\ file \in Seq(Entry) /\ file \in Seq(Record)
    BY <1>3 DEF LedgerInv, ReadableInv, ImageIsFile, TypeOK, Entry, Query, Idle
  <2>2. recovered = Orphans(file, boot)
    BY <1>3 DEF LedgerInv, RecoveredIsOrphans, Query, Idle
  <2>3. known[k] = StatusIn(file, k, boot)
    BY DEF known
  <2>4. EffectState(k) = known[k]
    <3>1. CASE \E i \in 1 .. Len(file) : IsLatest(file, k, i)
      <4>1. PICK i \in 1 .. Len(file) : IsLatest(file, k, i)
        BY <3>1
      <4>2. \A j : IsLatest(file, k, j) => j = i
        BY <2>1, <4>1, LatestUnique
      <4>3. file[i] \in Record
        BY <2>1, <4>1
      <4>4. file[i].state \in EffectStates
        BY <4>3 DEF Record
      <4>5. \A x : LatestIs(file, k, x) <=> x = file[i].state
        BY <4>1, <4>2 DEF LatestIs
      <4>6. k \in recovered <=> file[i].state = "Intent" /\ i <= boot
        BY <2>2, <4>1, <4>2 DEF Orphans
      <4>7. EffectState(k) = MeaningAt(file, i, boot)
        <5>1. (CHOOSE st \in EffectStates : LatestIs(records, k, st)) = file[i].state
          BY <2>1, <4>4, <4>5
        <5>2. \E st \in EffectStates : LatestIs(records, k, st)
          BY <2>1, <4>4, <4>5
        <5>3. QED
          BY <4>6, <5>1, <5>2 DEF EffectState, MeaningAt
      <4>8. CASE Completed(file, k)
        <5>1. file[i].state = "Complete"
          BY <4>5, <4>8 DEF LedgerInv, CompleteIsLast
        <5>2. QED
          BY <2>3, <4>7, <4>8, <5>1 DEF MeaningAt, Meaning, StatusIn
      <4>9. CASE ~Completed(file, k)
        <5>1. StatusIn(file, k, boot) = MeaningAt(file, i, boot)
          BY <2>1, <4>1, <4>9, StatusLatest
        <5>2. QED
          BY <2>3, <4>7, <5>1
      <4>10. QED
        BY <4>8, <4>9
    <3>2. CASE ~\E i \in 1 .. Len(file) : IsLatest(file, k, i)
      <4>1. \A x : ~LatestIs(file, k, x)
        BY <3>2 DEF LatestIs
      <4>2. ~Completed(file, k) /\ k \notin recovered
        BY <2>2, <3>2, <4>1 DEF LedgerInv, CompleteIsLast, Orphans
      <4>3. QED
        BY <2>1, <2>3, <3>2, <4>1, <4>2 DEF EffectState, StatusIn
    <3>3. QED
      BY <3>1, <3>2
  <2>5. QED
    BY <1>1, <1>3, <2>4 DEF Query, Ledger!Query, Answer, Ledger!Answer
<1>4. QED
  BY <1>2, <1>3

LEMMA CrashIsCrash ==
  ASSUME LedgerInv, Crash
  PROVE  Ledger!Crash
<1>1. file \in Seq(Entry) /\ Len(file) \in Nat /\ boot \in 0 .. Len(file)
  BY DEF LedgerInv, ReadableInv, TypeOK, Entry
<1>2. ASSUME NEW k \in Keys
      PROVE  StatusIn(file, k, Len(file)) =
               IF known[k] = "InProgress" THEN "OutcomeUncertain" ELSE known[k]
  <2>1. known[k] = StatusIn(file, k, boot)
    BY DEF known
  <2>2. CASE Completed(file, k)
    BY <2>1, <2>2 DEF StatusIn
  <2>3. CASE ~Completed(file, k) /\ \E i \in 1 .. Len(file) : IsLatest(file, k, i)
    <3>1. PICK i \in 1 .. Len(file) : IsLatest(file, k, i)
      BY <2>3
    <3>2. StatusIn(file, k, boot) = MeaningAt(file, i, boot)
      BY <1>1, <2>3, <3>1, StatusLatest
    <3>3. StatusIn(file, k, Len(file)) = MeaningAt(file, i, Len(file))
      BY <1>1, <2>3, <3>1, StatusLatest
    <3>4. i <= Len(file) /\ file[i] \in Record
      BY <1>1, <3>1 DEF LedgerInv, ReadableInv, Loadable, Entry
    <3>5. file[i].state \in EffectStates
      BY <3>4 DEF Record
    <3>6. QED
      BY <2>1, <3>2, <3>3, <3>4, <3>5 DEF MeaningAt, Meaning, EffectStates
  <2>4. CASE ~Completed(file, k) /\ ~\E i \in 1 .. Len(file) : IsLatest(file, k, i)
    BY <2>1, <2>4 DEF StatusIn
  <2>5. QED
    BY <2>2, <2>3, <2>4
<1>3. known' = [k \in Keys |-> StatusIn(file, k, Len(file))]
  BY DEF known, Crash
<1>4. known' = [k \in Keys |-> IF known[k] = "InProgress" THEN "OutcomeUncertain"
                                ELSE known[k]]
  BY <1>2, <1>3
<1>5. QED
  BY <1>4 DEF Crash, Ledger!Crash, NoAnswer, Ledger!NoAnswer

(* The journal is the ledger: whatever the order of calls and crashes,     *)
(* every answer and every record is one the ledger allows.                 *)
THEOREM JournalImplementsLedger ==
  ASSUME Faults = {}
  PROVE  Spec => ImplementsLedger
<1>1. Init => Ledger!Init
  <2> SUFFICES ASSUME Init PROVE Ledger!Init
    OBVIOUS
  <2>1. ASSUME NEW k \in Keys PROVE StatusIn(file, k, boot) = "NotStarted"
    BY EmptySeq DEF Init, StatusIn, Completed
  <2>2. QED
    BY <2>1 DEF Init, Ledger!Init, known, NoAnswer, Ledger!NoAnswer
<1>2. LedgerInv /\ [Next]_vars => [Ledger!Next]_(Ledger!ledgerVars)
  <2> SUFFICES ASSUME LedgerInv, [Next]_vars
               PROVE  [Ledger!Next]_(Ledger!ledgerVars)
    OBVIOUS
  <2>1. CASE Configure
    BY <2>1 DEF Configure, known, Ledger!Next, Ledger!Open
  <2>2. ASSUME NEW k \in Keys, NEW st \in EffectStates, Decline(k, st)
        PROVE  Ledger!Next
    BY <2>2, DeclineIsDecline DEF Ledger!Next, EffectStates, Ledger!EffectStates
  <2>3. ASSUME NEW k \in Keys, NEW st \in EffectStates, Write(k, st)
        PROVE  Ledger!Next
    BY <2>3, WriteIsRecord DEF Ledger!Next, EffectStates, Ledger!EffectStates
  <2>4. ASSUME NEW k \in Keys, NEW st \in EffectStates, WriteFails(k, st)
        PROVE  FALSE
    BY <2>4 DEF WriteFails
  <2>5. CASE Commit
    BY <2>5 DEF Commit, known, Ledger!ledgerVars
  <2>6. ASSUME NEW k \in Keys, Query(k) PROVE Ledger!Next
    BY <2>6, QueryIsQuery DEF Ledger!Next
  <2>7. CASE Crash
    BY <2>7, CrashIsCrash DEF Ledger!Next
  <2>8. CASE UNCHANGED vars
    BY <2>8 DEF vars, known, Ledger!ledgerVars
  <2>9. QED
    BY <2>1, <2>2, <2>3, <2>4, <2>5, <2>6, <2>7, <2>8 DEF Next
<1>3. LedgerInv /\ [Next]_vars => LedgerInv'
  BY LedgerInvStep
<1>4. QED
  BY <1>1, <1>2, <1>3, LedgerInit, PTL DEF Spec, Ledger!Spec, ImplementsLedger

-----------------------------------------------------------------------------
(* The desktop's integrations over the journal.                            *)

(* What a completion on record says of the project.                        *)
RecordsMerged ==
  /\ \A k \in Keys : Completed(file, k) \/ Completed(records, k) => k \in merged
  /\ writing.state = "Complete" => writing.key \in merged

(* What the place of a handler says of the project.                        *)
PlacesMerged ==
  \A k \in Keys :
    /\ pc[k] \in {"complete", "completing", "integrated"} => k \in merged
    /\ pc[k] = "failed" => outcome[k] = "conflict"

Lasts(s, k) ==
  Completed(s, k) =>
    \E st \in {"Intent", "Complete", "Uncertain"} : LatestIs(s, k, st)

(* No failure is recorded after a completion: effect_state, which looks at *)
(* the last record only, does not lose one.                                *)
CompletionLasts ==
  /\ \A k \in Keys : /\ Lasts(records, k)
                     /\ Loadable(file) => Lasts(file, k)
  /\ writing.state = "Failed" => ~Completed(records, writing.key)

(* An attempt that may have merged is one the journal knows of, and the    *)
(* intent on its way to a waiting handler follows no such attempt.         *)
AttemptSpent ==
  \A k \in Keys :
    /\ outcome[k] = "started" \/ pc[k] = "merge" => k \in spent
    /\ pc[k] = "granted" => /\ writing.key = k /\ writing.state = "Intent"
                            /\ outcome[k] # "started"

(* What effect_state answered still holds when the intent is appended.     *)
FreshAsked ==
  \A k \in Keys : pc[k] = "intent" =>
    /\ ~Completed(records, k) /\ ~LatestIs(records, k, "Intent")
    /\ writing = NoRecord \/ writing.key # k

(* An attempt is only made when no completion is on file, and an image     *)
(* that lacks a completion of the file stops a fresh attempt all the same. *)
AttemptFresh ==
  /\ serving => \A k \in Keys : Completed(file, k) =>
       Blocks(records, k) \/ (writing.key = k /\ writing.state = "Complete")
  /\ writing.state = "Failed" => ~Completed(file, writing.key)
  /\ \A k \in Keys :
       /\ pc[k] \in {"granted", "merge", "failed"} => ~Completed(file, k)
       /\ pc[k] = "complete" => outcome[k] = "started"

RecordInv == RecordsMerged /\ CompletionLasts

HandlerInv == PlacesMerged /\ AttemptSpent /\ FreshAsked /\ AttemptFresh

RecoveryInv == SpentInv /\ ClientTypeOK /\ RecordInv /\ HandlerInv

-----------------------------------------------------------------------------
(* The desktop only uses the journal's operations.                         *)

LEMMA JournalStep == [RNext]_allVars => [Next]_vars
<1> SUFFICES ASSUME [RNext]_allVars PROVE [Next]_vars
  OBVIOUS
<1>1. CASE StartDesktop
  BY <1>1 DEF StartDesktop, Next
<1>2. ASSUME NEW k \in Keys, Begin(k) \/ Merge(k) \/ CallFails(k)
      PROVE  UNCHANGED vars
  BY <1>2 DEF Begin, Merge, CallFails
<1>3. ASSUME NEW k \in Keys, Ask(k) PROVE Next
  BY <1>3 DEF Ask, Next
<1>4. ASSUME NEW k \in Keys, AppendIntent(k) \/ AppendComplete(k) \/ Report(k)
      PROVE  Next
  <2>1. PICK st \in EffectStates :
           Write(k, st) \/ WriteFails(k, st) \/ Decline(k, st)
    BY <1>4 DEF AppendIntent, AppendComplete, Report, EffectStates
  <2>2. QED
    BY <2>1 DEF Next
<1>5. CASE Answered
  BY <1>5 DEF Answered, Next
<1>6. CASE CoreRestart \/ DesktopRestart
  BY <1>6 DEF CoreRestart, DesktopRestart, Next
<1>7. CASE UNCHANGED allVars
  BY <1>7 DEF allVars
<1>8. QED
  BY <1>1, <1>2, <1>3, <1>4, <1>5, <1>6, <1>7 DEF RNext

(* Every behaviour of the desktop is one of the journal: what is proved of *)
(* the journal for any client holds for this one.                          *)
THEOREM DesktopUsesJournal == RSpec => Spec
<1>1. RInit => Init
  BY DEF RInit
<1>2. QED
  BY <1>1, JournalStep, PTL DEF RSpec, Spec

-----------------------------------------------------------------------------
(* Typing.                                                                 *)

LEMMA ClientTypeStep == ClientTypeOK /\ [RNext]_allVars => ClientTypeOK'
<1> SUFFICES ASSUME ClientTypeOK, [RNext]_allVars PROVE ClientTypeOK'
  OBVIOUS
<1> USE DEF ClientTypeOK, Places
<1>1. CASE StartDesktop
  BY <1>1 DEF StartDesktop
<1>2. ASSUME NEW k \in Keys, Begin(k) PROVE ClientTypeOK'
  BY <1>2 DEF Begin, Move
<1>3. ASSUME NEW k \in Keys, Ask(k) PROVE ClientTypeOK'
  BY <1>3 DEF Ask, Move, AnsweredState
<1>4. ASSUME NEW k \in Keys, AppendIntent(k) PROVE ClientTypeOK'
  BY <1>4 DEF AppendIntent, Move
<1>5. ASSUME NEW k \in Keys, Merge(k) PROVE ClientTypeOK'
  BY <1>5 DEF Merge, Move
<1>6. ASSUME NEW k \in Keys, AppendComplete(k) PROVE ClientTypeOK'
  BY <1>6 DEF AppendComplete, Move
<1>7. ASSUME NEW k \in Keys, Report(k) PROVE ClientTypeOK'
  BY <1>7 DEF Report
<1>8. ASSUME NEW k \in Keys, CallFails(k) PROVE ClientTypeOK'
  BY <1>8 DEF CallFails, AfterError
<1>9. CASE Answered
  BY <1>9 DEF Answered
<1>10. CASE CoreRestart \/ DesktopRestart
  BY <1>10 DEF CoreRestart, DesktopRestart
<1>11. CASE UNCHANGED allVars
  BY <1>11 DEF allVars, clientVars
<1>12. QED
  BY <1>1, <1>2, <1>3, <1>4, <1>5, <1>6, <1>7, <1>8, <1>9, <1>10, <1>11 DEF RNext

LEMMA ClientTypeInit == RInit => ClientTypeOK
  BY DEF RInit, ClientTypeOK, Places

-----------------------------------------------------------------------------
(* The records.                                                            *)

LEMMA EmptyKnowsNothing ==
  ASSUME NEW k
  PROVE  ~Completed(<<>>, k) /\ \A st : ~LatestIs(<<>>, k, st)
  BY DEF Completed, LatestIs

LEMMA AppendLasts ==
  ASSUME NEW s \in Seq(Entry), NEW r \in Entry, NEW k, Lasts(s, k),
         r.key = k => \/ r.state \in {"Intent", "Complete", "Uncertain"}
                      \/ r.state = "Failed" /\ ~Completed(s, k)
  PROVE  Lasts(Append(s, r), k)
<1>1. CASE r.key = k /\ r.state \in {"Intent", "Complete", "Uncertain"}
  BY <1>1, AppendLatestIs DEF Lasts
<1>2. CASE r.key = k /\ r.state = "Failed" /\ ~Completed(s, k)
  BY <1>2, AppendCompleted DEF Lasts
<1>3. CASE r.key # k
  <2>1. Completed(Append(s, r), k) <=> Completed(s, k)
    BY <1>3, AppendCompleted
  <2>2. \A st : LatestIs(Append(s, r), k, st) <=> LatestIs(s, k, st)
    BY <1>3, AppendLatestIs
  <2>3. QED
    BY <2>1, <2>2 DEF Lasts
<1>4. QED
  BY <1>1, <1>2, <1>3

LEMMA RecordWrite ==
  ASSUME TypeOK, RecordInv, merged' = merged,
         NEW k \in Keys, NEW st \in EffectStates,
         Write(k, st) \/ WriteFails(k, st),
         st = "Complete" => k \in merged,
         st = "Failed" => ~Completed(file, k)
  PROVE  RecordInv'
<1>1. NewRecord(k, st) \in Record
  BY NewRecordType DEF TypeOK
<1>2. NewRecord(k, st).key = k /\ NewRecord(k, st).state = st
  BY DEF NewRecord
<1>3. PICK r \in Entry : /\ file' = Append(file, r)
                          /\ (r = NewRecord(k, st) \/ r = Torn)
                          /\ (writing' = NoRecord \/ writing' = NewRecord(k, st))
  BY <1>1 DEF Write, WriteFails, Entry, Admits, Idle
<1>4. /\ records' = records /\ file \in Seq(Entry)
      /\ ~Duplicate(k, st)
  BY DEF Write, WriteFails, Admits, TypeOK, Entry
<1>5. r = Torn \/ (r.key = k /\ r.state = st)
  BY <1>2, <1>3
<1>6. r.state = "Complete" => r.key \in merged
  BY <1>5 DEF Torn
<1>7. writing' = NoRecord \/ (writing'.key = k /\ writing'.state = st)
  BY <1>2, <1>3
<1>8. RecordsMerged'
  <2>1. ASSUME NEW j \in Keys, Completed(file', j) PROVE j \in merged
    <3>1. Completed(Append(file, r), j)
      BY <1>3, <2>1, Zenon
    <3>2. Completed(file, j) \/ (r.key = j /\ r.state = "Complete")
      BY <1>4, <3>1, AppendCompleted
    <3>3. QED
      BY <1>6, <3>2 DEF RecordInv, RecordsMerged
  <2>2. ASSUME NEW j \in Keys, Completed(records', j) PROVE j \in merged
    BY <1>4, <2>2 DEF RecordInv, RecordsMerged
  <2>3. writing'.state = "Complete" => writing'.key \in merged
    BY <1>7 DEF NoRecord
  <2>4. QED
    BY <2>1, <2>2, <2>3 DEF RecordsMerged
<1>9. CompletionLasts'
  <2>1. ASSUME NEW j \in Keys PROVE Lasts(records', j)
    BY <1>4 DEF RecordInv, CompletionLasts
  <2>2. ASSUME NEW j \in Keys, Loadable(file') PROVE Lasts(file', j)
    <3>1. Loadable(Append(file, r))
      BY <1>3, <2>2, Zenon
    <3>2. Loadable(file)
      BY <1>4, <3>1, AppendLoadable, Zenon
    <3>3. r # Torn
      <4>1. Append(file, r)[Len(file) + 1] = r /\ Len(file) + 1 \in 1 .. Len(Append(file, r))
        BY <1>4, AppendFacts
      <4>2. QED
        BY <3>1, <4>1 DEF Loadable
    <3>4. r.key = k /\ r.state = st
      BY <1>5, <3>3
    <3>5. st = "Failed" => ~Completed(file, k)
      OBVIOUS
    <3>6. Lasts(file, j)
      BY <3>2 DEF RecordInv, CompletionLasts
    <3>7. Lasts(Append(file, r), j)
      BY <1>4, <3>4, <3>5, <3>6, AppendLasts DEF EffectStates
    <3>8. QED
      BY <1>3, <3>7, Zenon
  <2>3. writing'.state = "Failed" => ~Completed(records', writing'.key)
    BY <1>4, <1>7 DEF Duplicate, Refused, NoRecord
  <2>4. QED
    BY <2>1, <2>2, <2>3 DEF CompletionLasts
<1>10. QED
  BY <1>8, <1>9 DEF RecordInv

LEMMA RecordCommit ==
  ASSUME TypeOK, RecordInv, merged' = merged, Commit
  PROVE  RecordInv'
<1>1. writing \in Record /\ records \in Seq(Entry) /\ writing \in Entry
  BY DEF TypeOK, Commit, Idle, Entry
<1>2. writing.state \in EffectStates
  BY <1>1 DEF Record
<1>3. file' = file /\ records' = Append(records, writing) /\ writing' = NoRecord
  BY DEF Commit
<1>4. RecordsMerged'
  <2>1. ASSUME NEW j \in Keys, Completed(records', j) PROVE j \in merged
    <3>1. Completed(records, j) \/ (writing.key = j /\ writing.state = "Complete")
      BY <1>1, <1>3, <2>1, AppendCompleted
    <3>2. QED
      BY <3>1 DEF RecordInv, RecordsMerged
  <2>2. QED
    BY <1>3, <2>1 DEF RecordInv, RecordsMerged, NoRecord
<1>5. CompletionLasts'
  <2>1. ASSUME NEW j \in Keys PROVE Lasts(records', j)
    BY <1>1, <1>2, <1>3, AppendLasts DEF RecordInv, CompletionLasts, EffectStates
  <2>2. QED
    BY <1>3, <2>1 DEF RecordInv, CompletionLasts, NoRecord
<1>6. QED
  BY <1>4, <1>5 DEF RecordInv

LEMMA RecordConfigure ==
  ASSUME TypeOK, RecordInv, merged' = merged, Configure
  PROVE  RecordInv'
<1>1. writing = NoRecord
  BY DEF TypeOK, Configure
<1>2. QED
  BY <1>1 DEF RecordInv, RecordsMerged, CompletionLasts, Configure, NoRecord

LEMMA RecordSame ==
  ASSUME RecordInv, UNCHANGED <<file, records, writing>>, merged \subseteq merged'
  PROVE  RecordInv'
  BY DEF RecordInv, RecordsMerged, CompletionLasts

LEMMA RecordCrash ==
  ASSUME RecordInv, merged' = merged, Crash
  PROVE  RecordInv'
  BY EmptyKnowsNothing
     DEF RecordInv, RecordsMerged, CompletionLasts, Crash, NoRecord, Lasts

LEMMA RecordStep ==
  ASSUME SpentInv, RecordInv, PlacesMerged, AttemptFresh, ClientTypeOK,
         [RNext]_allVars
  PROVE  RecordInv'
<1>0. TypeOK
  BY DEF SpentInv
<1>1. CASE StartDesktop
  BY <1>0, <1>1, RecordConfigure DEF StartDesktop
<1>2. ASSUME NEW k \in Keys, Begin(k) \/ Merge(k) \/ CallFails(k)
      PROVE  RecordInv'
  <2>1. merged \subseteq merged' /\ UNCHANGED <<file, records, writing>>
    BY <1>2 DEF Begin, Merge, CallFails, vars
  <2>2. QED
    BY <2>1, RecordSame
<1>3. ASSUME NEW k \in Keys, Ask(k) PROVE RecordInv'
  BY <1>3, RecordSame DEF Ask, Query
<1>4. ASSUME NEW k \in Keys, AppendIntent(k) \/ AppendComplete(k) \/ Report(k)
      PROVE  RecordInv'
  <2>1. PICK st \in EffectStates :
           /\ Write(k, st) \/ WriteFails(k, st) \/ Decline(k, st)
           /\ st = "Complete" => pc[k] = "complete"
           /\ st = "Failed" => pc[k] = "failed"
    BY <1>4 DEF AppendIntent, AppendComplete, Report, EffectStates, Move
  <2>2. merged' = merged
    BY <1>4 DEF AppendIntent, AppendComplete, Report
  <2>3. CASE Decline(k, st)
    BY <2>2, <2>3, RecordSame DEF Decline
  <2>4. CASE Write(k, st) \/ WriteFails(k, st)
    <3>1. (st = "Complete" => k \in merged) /\ (st = "Failed" => ~Completed(file, k))
      BY <2>1 DEF PlacesMerged, AttemptFresh
    <3>2. QED
      BY <1>0, <2>2, <2>4, <3>1, RecordWrite
  <2>5. QED
    BY <2>1, <2>3, <2>4
<1>5. CASE Answered
  BY <1>0, <1>5, RecordCommit DEF Answered
<1>6. CASE CoreRestart \/ DesktopRestart
  BY <1>6, RecordCrash DEF CoreRestart, DesktopRestart
<1>7. CASE UNCHANGED allVars
  BY <1>7, RecordSame DEF allVars, vars, clientVars
<1>8. QED
  BY <1>1, <1>2, <1>3, <1>4, <1>5, <1>6, <1>7 DEF RNext

-----------------------------------------------------------------------------
(* The handlers.                                                           *)

LEMMA PlacesStep ==
  ASSUME RecordInv, PlacesMerged, ClientTypeOK, [RNext]_allVars
  PROVE  PlacesMerged'
<1> USE DEF ClientTypeOK, Places, PlacesMerged
<1>1. CASE StartDesktop
  BY <1>1 DEF StartDesktop
<1>2. ASSUME NEW k \in Keys, Begin(k) PROVE PlacesMerged'
  BY <1>2 DEF Begin, Move
<1>3. ASSUME NEW k \in Keys, Ask(k) PROVE PlacesMerged'
  <2>1. EffectState(k) = "KnownComplete" => k \in merged
    <3> SUFFICES ASSUME EffectState(k) = "KnownComplete" PROVE k \in merged
      OBVIOUS
    <3> DEFINE c == CHOOSE st \in EffectStates : LatestIs(records, k, st)
    <3>1. \E st \in EffectStates : LatestIs(records, k, st)
      BY DEF EffectState
    <3>2. c \in EffectStates /\ LatestIs(records, k, c)
      BY <3>1
    <3>3. Meaning[c] = "KnownComplete"
      BY <3>1 DEF EffectState
    <3>4. c = "Complete"
      BY <3>2, <3>3 DEF Meaning, EffectStates
    <3>5. Completed(records, k)
      BY <3>2, <3>4 DEF LatestIs, IsLatest, Completed
    <3>6. QED
      BY <3>5 DEF RecordInv, RecordsMerged
  <2>2. QED
    BY <1>3, <2>1 DEF Ask, Move, AnsweredState
<1>4. ASSUME NEW k \in Keys, AppendIntent(k) PROVE PlacesMerged'
  BY <1>4 DEF AppendIntent, Move
<1>5. ASSUME NEW k \in Keys, Merge(k) PROVE PlacesMerged'
  BY <1>5 DEF Merge, Move
<1>6. ASSUME NEW k \in Keys, AppendComplete(k) PROVE PlacesMerged'
  BY <1>6 DEF AppendComplete, Move
<1>7. ASSUME NEW k \in Keys, Report(k) PROVE PlacesMerged'
  BY <1>7 DEF Report
<1>8. ASSUME NEW k \in Keys, CallFails(k) PROVE PlacesMerged'
  BY <1>8 DEF CallFails, AfterError
<1>9. CASE Answered
  BY <1>9 DEF Answered
<1>10. CASE CoreRestart \/ DesktopRestart
  BY <1>10 DEF CoreRestart, DesktopRestart
<1>11. CASE UNCHANGED allVars
  BY <1>11 DEF allVars, clientVars
<1>12. QED
  BY <1>1, <1>2, <1>3, <1>4, <1>5, <1>6, <1>7, <1>8, <1>9, <1>10, <1>11 DEF RNext

(* A key that an intent may be recorded for is one append still accepts.   *)
LEMMA IntentNotDuplicate ==
  ASSUME FreshAsked, NEW k \in Keys, pc[k] = "intent"
  PROVE  ~Duplicate(k, "Intent")
  BY DEF FreshAsked, Duplicate

LEMMA DeclinedAppend ==
  ASSUME FreshAsked, NEW k \in Keys, pc[k] = "intent", Decline(k, "Intent")
  PROVE  answer'.result # "duplicate"
  BY IntentNotDuplicate DEF Decline, Answer

LEMMA AttemptStep ==
  ASSUME SpentInv, PlacesMerged, FreshAsked, AttemptSpent, ClientTypeOK,
         [RNext]_allVars
  PROVE  AttemptSpent'
<1> USE DEF ClientTypeOK, Places, AttemptSpent
<1>1. CASE StartDesktop
  BY <1>1 DEF StartDesktop, Configure
<1>2. ASSUME NEW k \in Keys, Begin(k) PROVE AttemptSpent'
  BY <1>2 DEF Begin, Move, vars
<1>3. ASSUME NEW k \in Keys, Ask(k) PROVE AttemptSpent'
  BY <1>3 DEF Ask, Query, Move, AnsweredState
<1>4. ASSUME NEW k \in Keys, AppendIntent(k) PROVE AttemptSpent'
  <2>1. CASE Write(k, "Intent") /\ Move(k, "intent", "granted")
    <3>1. k \notin spent
      BY <2>1, SpentNotFresh
    <3>2. writing = NoRecord /\ writing' = NewRecord(k, "Intent") /\ spent' = spent
      BY <2>1 DEF Write, Admits, Idle
    <3>3. outcome' = outcome
      BY <1>4 DEF AppendIntent
    <3>4. QED
      BY <2>1, <3>1, <3>2, <3>3 DEF Move, NewRecord, NoRecord
  <2>2. CASE WriteFails(k, "Intent") /\ Move(k, "intent", "uncertain")
    BY <1>4, <2>2 DEF AppendIntent, WriteFails, Move
  <2>3. CASE Decline(k, "Intent") /\ pc[k] = "intent"
    <3>1. answer'.result # "duplicate"
      BY <2>3, DeclinedAppend
    <3>2. spent' = spent /\ writing' = writing
      BY <2>3 DEF Decline
    <3>3. outcome' = outcome
      BY <1>4 DEF AppendIntent
    <3>4. pc' = [pc EXCEPT ![k] = "uncertain"] \/ pc' = [pc EXCEPT ![k] = "granted"]
      BY <1>4, <3>1 DEF AppendIntent, Move
    <3>5. QED
      BY <1>4, <2>3, <3>1, <3>2, <3>3, <3>4
         DEF AppendIntent, Move, Decline, Write, Admits
  <2>4. QED
    BY <1>4, <2>1, <2>2, <2>3 DEF AppendIntent, Move
<1>5. ASSUME NEW k \in Keys, Merge(k) PROVE AttemptSpent'
  BY <1>5 DEF Merge, Move, vars
<1>6. ASSUME NEW k \in Keys, AppendComplete(k) PROVE AttemptSpent'
  <2>1. spent' = spent /\ outcome' = outcome
    BY <1>6 DEF AppendComplete, Write, WriteFails, Decline
  <2>2. writing = NoRecord
    BY <1>6 DEF AppendComplete, Write, WriteFails, Decline, Admits, Idle
  <2>3. /\ pc[k] = "complete"
        /\ \E p \in {"completing", "uncertain", "integrated"} :
              pc' = [pc EXCEPT ![k] = p]
    BY <1>6 DEF AppendComplete, Move
  <2>4. QED
    BY <2>1, <2>2, <2>3 DEF NoRecord
<1>7. ASSUME NEW k \in Keys, Report(k) PROVE AttemptSpent'
  <2>1. writing = NoRecord /\ outcome' = outcome /\ pc' = [pc EXCEPT ![k] = "idle"]
    BY <1>7 DEF Report, Write, WriteFails, Decline, Admits, Idle
  <2>2. pc[k] = "failed" => outcome[k] = "conflict"
    BY DEF PlacesMerged
  <2>3. spent' = spent \/ (pc[k] = "failed" /\ spent' = spent \ {k})
    BY <1>7 DEF Report, Write, WriteFails, Decline
  <2>4. QED
    BY <1>7, <2>1, <2>2, <2>3 DEF Report, NoRecord
<1>8. ASSUME NEW k \in Keys, CallFails(k) PROVE AttemptSpent'
  BY <1>8 DEF CallFails, AfterError, vars
<1>9. CASE Answered
  <2>1. /\ outcome' = outcome /\ spent \subseteq spent'
        /\ writing.state = "Intent" => writing.key \in spent'
        /\ writing.state # "Failed" => spent' = spent \cup {writing.key}
    <3>1. writing.state = "Failed" => writing.key \notin spent
      BY <1>9 DEF SpentInv, WritingIsLast, Answered, Commit, Idle
    <3>2. QED
      BY <1>9 DEF Answered, Commit
  <2>2. pc' = [k \in Keys |-> IF pc[k] = "granted" THEN "merge"
                              ELSE IF pc[k] = "completing" THEN "integrated"
                              ELSE pc[k]]
    BY <1>9 DEF Answered
  <2>3. QED
    BY <2>1, <2>2
<1>10. CASE CoreRestart \/ DesktopRestart
  BY <1>10 DEF CoreRestart, DesktopRestart, Crash
<1>11. CASE UNCHANGED allVars
  BY <1>11 DEF allVars, vars, clientVars
<1>12. QED
  BY <1>1, <1>2, <1>3, <1>4, <1>5, <1>6, <1>7, <1>8, <1>9, <1>10, <1>11 DEF RNext

LEMMA FreshStep ==
  ASSUME SpentInv, RecordInv, FreshAsked, ClientTypeOK, [RNext]_allVars
  PROVE  FreshAsked'
<1> USE DEF ClientTypeOK, Places, FreshAsked
<1>0. TypeOK
  BY DEF SpentInv
<1>1. CASE StartDesktop
  BY <1>1 DEF StartDesktop
<1>2. ASSUME NEW k \in Keys, Begin(k) \/ Merge(k) \/ CallFails(k)
      PROVE  FreshAsked'
  BY <1>2 DEF Begin, Merge, CallFails, Move, AfterError, vars
<1>3. ASSUME NEW k \in Keys, Ask(k) PROVE FreshAsked'
  <2>1. ASSUME EffectState(k) \notin {"KnownComplete", "InProgress", "OutcomeUncertain"}
        PROVE  ~Completed(records, k) /\ ~LatestIs(records, k, "Intent")
    <3>1. ASSUME NEW st \in {"Intent", "Complete", "Uncertain"},
                 LatestIs(records, k, st)
          PROVE  FALSE
      <4> DEFINE c == CHOOSE s \in EffectStates : LatestIs(records, k, s)
      <4>1. st \in EffectStates
        BY DEF EffectStates
      <4>2. c \in EffectStates /\ LatestIs(records, k, c)
        BY <3>1, <4>1
      <4>3. records \in Seq(Entry)
        BY <1>0 DEF TypeOK, Entry
      <4>4. c = st
        <5>1. PICK i \in 1 .. Len(records) :
                     IsLatest(records, k, i) /\ records[i].state = c
          BY <4>2 DEF LatestIs
        <5>2. PICK j \in 1 .. Len(records) :
                     IsLatest(records, k, j) /\ records[j].state = st
          BY <3>1 DEF LatestIs
        <5>3. i = j
          BY <4>3, <5>1, <5>2, LatestUnique
        <5>4. QED
          BY <5>1, <5>2, <5>3
      <4>5. EffectState(k) = "OutcomeUncertain" \/ EffectState(k) = Meaning[c]
        BY <3>1, <4>1 DEF EffectState
      <4>6. Meaning[st] \in {"KnownComplete", "InProgress", "OutcomeUncertain"}
        BY DEF Meaning
      <4>7. QED
        BY <2>1, <4>4, <4>5, <4>6, Zenon
    <3>2. Lasts(records, k)
      BY DEF RecordInv, CompletionLasts
    <3>3. QED
      BY <3>1, <3>2 DEF Lasts
  <2>2. QED
    BY <1>3, <2>1 DEF Ask, Query, Idle, Move, AnsweredState
<1>4. ASSUME NEW k \in Keys, AppendIntent(k) \/ AppendComplete(k) \/ Report(k)
      PROVE  FreshAsked'
  <2>1. records' = records /\ pc'[k] # "intent"
    BY <1>4 DEF AppendIntent, AppendComplete, Report, Move, Write, WriteFails, Decline
  <2>2. \A j \in Keys : j # k => pc'[j] = pc[j]
    BY <1>4 DEF AppendIntent, AppendComplete, Report, Move
  <2>3. writing' = writing \/ writing'.key = k
    BY <1>4 DEF AppendIntent, AppendComplete, Report, Write, WriteFails, Decline,
                NewRecord
  <2>4. QED
    BY <2>1, <2>2, <2>3
<1>5. CASE Answered
  <2>1. ASSUME NEW k \in Keys, pc'[k] = "intent"
        PROVE  ~Completed(records', k) /\ ~LatestIs(records', k, "Intent")
    <3>1. pc[k] = "intent"
      BY <1>5, <2>1 DEF Answered
    <3>2. writing # NoRecord /\ records' = Append(records, writing)
      BY <1>5 DEF Answered, Commit, Idle
    <3>3. writing \in Entry /\ records \in Seq(Entry)
      BY <1>0, <3>2 DEF TypeOK, Entry
    <3>4. writing.key # k
      BY <3>1, <3>2
    <3>5. QED
      BY <3>1, <3>2, <3>3, <3>4, AppendCompleted, AppendLatestIs
  <2>2. writing' = NoRecord
    BY <1>5 DEF Answered, Commit
  <2>3. QED
    BY <2>1, <2>2
<1>6. CASE CoreRestart \/ DesktopRestart
  BY <1>6, EmptyKnowsNothing DEF CoreRestart, DesktopRestart, Crash
<1>7. CASE UNCHANGED allVars
  BY <1>7 DEF allVars, vars, clientVars
<1>8. QED
  BY <1>1, <1>2, <1>3, <1>4, <1>5, <1>6, <1>7 DEF RNext

(* What appending one entry to the file does to the completions in it. *)
LEMMA FileCompleted ==
  ASSUME TypeOK, NEW k, NEW j, NEW st \in EffectStates,
         k \in Keys, Write(k, st) \/ WriteFails(k, st), Completed(file', j)
  PROVE  Completed(file, j) \/ (j = k /\ st = "Complete")
<1>1. NewRecord(k, st) \in Record
  BY NewRecordType DEF TypeOK
<1>2. NewRecord(k, st).key = k /\ NewRecord(k, st).state = st
  BY DEF NewRecord
<1>3. PICK r \in Entry : file' = Append(file, r) /\ (r = NewRecord(k, st) \/ r = Torn)
  BY <1>1 DEF Write, WriteFails, Entry
<1>4. file \in Seq(Entry)
  BY DEF TypeOK, Entry
<1>5. Completed(Append(file, r), j)
  BY <1>3, Zenon
<1>6. Completed(file, j) \/ (r.key = j /\ r.state = "Complete")
  BY <1>4, <1>5, AppendCompleted
<1>7. QED
  BY <1>2, <1>3, <1>6 DEF Torn

LEMMA AttemptFreshStep ==
  ASSUME SpentInv, AttemptFresh, AttemptSpent, FreshAsked, ClientTypeOK,
         [RNext]_allVars
  PROVE  AttemptFresh'
<1> USE DEF ClientTypeOK, Places, AttemptFresh
<1>0. TypeOK
  BY DEF SpentInv
<1>1. CASE StartDesktop
  <2>1. records' = file /\ file' = file /\ writing' = writing /\ UNCHANGED <<pc, outcome>>
    BY <1>1 DEF StartDesktop, Configure
  <2>2. \A k \in Keys : Completed(file, k) => Completed(records', k)
    BY <2>1, Zenon
  <2>3. QED
    BY <2>1, <2>2 DEF Blocks
<1>2. ASSUME NEW k \in Keys, Begin(k) \/ Merge(k) \/ CallFails(k)
      PROVE  AttemptFresh'
  BY <1>2 DEF Begin, Merge, CallFails, Move, AfterError, vars
<1>3. ASSUME NEW k \in Keys, Ask(k) PROVE AttemptFresh'
  BY <1>3 DEF Ask, Query, Move, AnsweredState
<1>4. ASSUME NEW k \in Keys, AppendIntent(k) PROVE AttemptFresh'
  <2>1. pc[k] = "intent" /\ ~Duplicate(k, "Intent") /\ outcome' = outcome
    BY <1>4, IntentNotDuplicate DEF AppendIntent, Move
  <2>2. CASE Write(k, "Intent") \/ WriteFails(k, "Intent")
    <3>1. \A j \in Keys : Completed(file', j) => Completed(file, j)
      BY <1>0, <2>2, FileCompleted DEF EffectStates
    <3>2. /\ writing = NoRecord /\ serving' = serving /\ serving /\ records' = records
          /\ writing'.state # "Failed" /\ ~Refused(k, "Intent")
      BY <2>2 DEF Write, WriteFails, Admits, Idle, NewRecord, NoRecord
    <3>3. ~Completed(file, k)
      <4>1. ~Blocks(records, k)
        BY <2>1, <3>2 DEF Blocks, Refused, FreshAsked
      <4>2. QED
        BY <3>2, <4>1 DEF NoRecord
    <3>4. pc' = [pc EXCEPT ![k] = "granted"] \/ pc' = [pc EXCEPT ![k] = "uncertain"]
      <4>1. Decline(k, "Intent") => answer'.result # "duplicate"
        BY <2>1, DeclinedAppend
      <4>2. QED
        BY <1>4, <2>1, <4>1 DEF AppendIntent, Move
    <3>5. QED
      BY <2>1, <3>1, <3>2, <3>3, <3>4 DEF NoRecord
  <2>3. CASE Decline(k, "Intent")
    <3>1. pc' = [pc EXCEPT ![k] = "uncertain"]
      BY <1>4, <2>1, <2>3, DeclinedAppend
      DEF AppendIntent, Move, Decline, Write, WriteFails, Admits
    <3>2. QED
      BY <2>1, <2>3, <3>1 DEF Decline
  <2>4. QED
    BY <1>4, <2>2, <2>3 DEF AppendIntent
<1>5. ASSUME NEW k \in Keys, AppendComplete(k) PROVE AttemptFresh'
  <2>1. /\ pc[k] = "complete" /\ outcome' = outcome
        /\ \E p \in {"completing", "uncertain", "integrated"} :
              pc' = [pc EXCEPT ![k] = p]
    BY <1>5 DEF AppendComplete, Move
  <2>2. CASE Write(k, "Complete") \/ WriteFails(k, "Complete")
    <3>1. \A j \in Keys : Completed(file', j) => Completed(file, j) \/ j = k
      BY <1>0, <2>2, FileCompleted DEF EffectStates
    <3>2. /\ writing = NoRecord /\ serving' = serving /\ serving /\ records' = records
          /\ writing'.state # "Failed"
      BY <2>2 DEF Write, WriteFails, Admits, Idle, NewRecord, NoRecord
    <3>3. Blocks(records, k)
      BY <2>1, <3>2 DEF AttemptSpent, SpentInv, SpentIsRecorded
    <3>4. \A j \in Keys : Blocks(records, j) => Blocks(records', j)
      BY <3>2
    <3>5. QED
      BY <2>1, <3>1, <3>2, <3>3, <3>4 DEF NoRecord
  <2>3. CASE Decline(k, "Complete")
    BY <2>1, <2>3 DEF Decline
  <2>4. QED
    BY <1>5, <2>2, <2>3 DEF AppendComplete
<1>6. ASSUME NEW k \in Keys, Report(k) PROVE AttemptFresh'
  <2>1. pc' = [pc EXCEPT ![k] = "idle"] /\ outcome' = outcome
    BY <1>6 DEF Report
  <2>2. PICK st \in {"Failed", "Uncertain"} :
          /\ Write(k, st) \/ WriteFails(k, st) \/ Decline(k, st)
          /\ st = "Failed" => pc[k] = "failed"
    BY <1>6 DEF Report
  <2>3. CASE Write(k, st) \/ WriteFails(k, st)
    <3>1. \A j \in Keys : Completed(file', j) => Completed(file, j)
      BY <1>0, <2>2, <2>3, FileCompleted DEF EffectStates
    <3>2. /\ writing = NoRecord /\ serving' = serving /\ serving /\ records' = records
          /\ writing' = NoRecord \/ (writing'.key = k /\ writing'.state = st)
      BY <2>3 DEF Write, WriteFails, Admits, Idle, NewRecord
    <3>3. writing'.state = "Failed" => ~Completed(file', writing'.key)
      BY <2>2, <3>1, <3>2 DEF NoRecord
    <3>4. QED
      BY <2>1, <2>2, <3>1, <3>2, <3>3 DEF NoRecord
  <2>4. CASE Decline(k, st)
    BY <2>1, <2>4 DEF Decline
  <2>5. QED
    BY <2>2, <2>3, <2>4
<1>7. CASE Answered
  <2>1. /\ writing # NoRecord /\ records' = Append(records, writing)
        /\ writing' = NoRecord /\ file' = file /\ serving' = serving
    BY <1>7 DEF Answered, Commit, Idle
  <2>2. writing \in Record /\ writing \in Entry /\ records \in Seq(Entry)
    BY <1>0, <2>1 DEF TypeOK, Entry
  <2>3. ASSUME NEW j \in Keys, Completed(file, j), serving PROVE Blocks(Append(records, writing), j)
    <3>1. CASE writing.key = j
      <4>1. writing.state # "Failed"
        BY <2>3, <3>1
      <4>2. QED
        BY <2>2, <3>1, <4>1, AppendLatestIs, AppendCompleted DEF Blocks, Record, EffectStates
    <3>2. CASE writing.key # j
      BY <2>2, <2>3, <3>2, AppendLatestIs, AppendCompleted DEF Blocks
    <3>3. QED
      BY <3>1, <3>2
  <2>4. ASSUME NEW j \in Keys, Completed(file', j), serving' PROVE Blocks(records', j)
    <3>1. Completed(file, j) /\ serving
      BY <2>1, <2>4, Zenon
    <3>2. QED
      BY <2>1, <2>3, <3>1
  <2>5. /\ outcome' = outcome
        /\ pc' = [k \in Keys |-> IF pc[k] = "granted" THEN "merge"
                                 ELSE IF pc[k] = "completing" THEN "integrated"
                                 ELSE pc[k]]
    BY <1>7 DEF Answered
  <2>6. QED
    BY <2>1, <2>4, <2>5 DEF NoRecord
<1>8. CASE CoreRestart \/ DesktopRestart
  BY <1>8 DEF CoreRestart, DesktopRestart, Crash, NoRecord
<1>9. CASE UNCHANGED allVars
  BY <1>9 DEF allVars, vars, clientVars
<1>10. QED
  BY <1>1, <1>2, <1>3, <1>4, <1>5, <1>6, <1>7, <1>8, <1>9 DEF RNext

-----------------------------------------------------------------------------

LEMMA RecoveryInvInit == RInit => RecoveryInv
<1> SUFFICES ASSUME RInit PROVE RecoveryInv
  OBVIOUS
<1>1. Init
  BY DEF RInit
<1>2. SpentInv
  BY <1>1, TypeInit DEF Init, SpentInv, WritingIsLast, SpentIsRecorded
<1>3. RecordInv
  BY <1>1, EmptyKnowsNothing
     DEF Init, RecordInv, RecordsMerged, CompletionLasts, Lasts, NoRecord
<1>4. HandlerInv
  BY <1>1 DEF RInit, Init, NoRecord, HandlerInv, PlacesMerged, AttemptSpent,
              FreshAsked, AttemptFresh
<1>5. QED
  BY <1>2, <1>3, <1>4, ClientTypeInit DEF RecoveryInv

LEMMA RecoveryInvStep == RecoveryInv /\ [RNext]_allVars => RecoveryInv'
  BY JournalStep, SpentStep, ClientTypeStep, RecordStep, PlacesStep, AttemptStep,
     FreshStep, AttemptFreshStep
     DEF RecoveryInv, HandlerInv

THEOREM RecoveryInvariant == RSpec => []RecoveryInv
  BY RecoveryInvInit, RecoveryInvStep, PTL DEF RSpec

(* The handlers and the histories keep their types, and no handler is at   *)
(* work before the desktop has configured the journal.                     *)
THEOREM RecoveryTypeOK == RSpec => []ClientTypeOK
<1>1. RecoveryInv => ClientTypeOK
  BY DEF RecoveryInv
<1>2. QED
  BY RecoveryInvariant, <1>1, PTL

(* A task that is taken for integrated has been merged, whatever process   *)
(* died and whatever write failed before.                                  *)
THEOREM RecoveryIntegratedIsMerged == RSpec => []IntegratedIsMerged
<1>1. RecoveryInv => IntegratedIsMerged
  BY DEF RecoveryInv, HandlerInv, PlacesMerged, IntegratedIsMerged
<1>2. QED
  BY RecoveryInvariant, <1>1, PTL

(* A merge that may have happened is not started again.                    *)
THEOREM RecoveryNoBlindMerge == RSpec => NoBlindMerge
<1>1. ASSUME RecoveryInv, [RNext]_allVars, NEW k \in Keys,
             pc[k] # "merge", pc'[k] = "merge"
      PROVE  outcome[k] \in {"none", "conflict"}
  <2> USE <1>1 DEF RecoveryInv, ClientTypeOK, Places
  <2>1. pc[k] = "granted"
    <3>1. ASSUME NEW j \in Keys, AppendIntent(j) PROVE pc'[k] # "merge"
      <4>1. pc[j] = "intent"
        BY <3>1 DEF AppendIntent, Move
      <4>2. Decline(j, "Intent") => answer'.result # "duplicate"
        BY <4>1, DeclinedAppend DEF HandlerInv
      <4>3. QED
        BY <3>1, <4>2 DEF AppendIntent, Move
    <3>2. ASSUME NEW j \in Keys,
                 \/ Begin(j) \/ Ask(j) \/ Merge(j) \/ AppendComplete(j)
                 \/ Report(j) \/ CallFails(j)
          PROVE  pc'[k] # "merge"
      BY <3>2 DEF Begin, Ask, Merge, AppendComplete, Report, CallFails, Move,
                  AnsweredState, AfterError
    <3>3. CASE Answered
      BY <3>3 DEF Answered
    <3>4. CASE StartDesktop \/ CoreRestart \/ DesktopRestart
      BY <3>4 DEF StartDesktop, CoreRestart, DesktopRestart
    <3>5. CASE UNCHANGED allVars
      BY <3>5 DEF allVars, clientVars
    <3>6. QED
      BY <3>1, <3>2, <3>3, <3>4, <3>5 DEF RNext
  <2>2. outcome[k] # "started"
    BY <2>1 DEF HandlerInv, AttemptSpent
  <2>3. QED
    BY <2>2
<1>2. RecoveryInv /\ [RNext]_allVars
        => [\A k \in Keys : pc[k] # "merge" /\ pc'[k] = "merge"
                               => outcome[k] \in {"none", "conflict"}]_allVars
  BY <1>1
<1>3. QED
  BY RecoveryInvariant, <1>2, PTL DEF RSpec, NoBlindMerge
=============================================================================
