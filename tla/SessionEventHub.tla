-------------------------- MODULE SessionEventHub ---------------------------
(***************************************************************************)
(* How the events of one session reach the desktop and its history:        *)
(* SessionEventHub (harness/session-event-hub.ts) follows the runtime's    *)
(* log over a stream of GatewayClient, emits what is new and hands         *)
(* everything to CoreSessionJournalStore (core/core-session-journal.ts),   *)
(* which batches it into appends to the journal nd-core keeps in memory.   *)
(* Reads, the ensure before a prompt and the rehydration after a restart   *)
(* of nd-core wait for one another and are overtaken by resets.            *)
(*                                                                         *)
(* An event is its sequence number. A snapshot brings the newest events    *)
(* only, nd-core retains the newest only and a read asks for the newest:   *)
(* the three windows are parameters.                                       *)
(***************************************************************************)
EXTENDS Naturals, Sequences, FiniteSets, SequencesExt

CONSTANTS
  Window,      \* FOLLOW_WINDOW: what a snapshot brings at most
  Retained,    \* what nd-core retains at least: its limits are 10,000 events
               \* and 8 MiB, so that events of any size are trimmed earlier
  MaxMessages, \* what read asks for
  MaxSeq,      \* bound: events of the session
  MaxResets    \* bound: detach, attach and rehydrate

ASSUME HubAssumption ==
  /\ {Window, Retained, MaxMessages, MaxSeq} \subseteq Nat \ {0}
  /\ MaxResets \in Nat

Callers == {"read", "ensure", "rehydrate"}
Resets == 1..MaxResets
Nobody == "nobody"

VARIABLES
  log,       \* the runtime has recorded the events 1..log
  source,    \* the hub is attached
  handle,    \* a follow handle is held
  settled,   \* its ready is resolved
  opener,    \* the open() that waits for this handle, or Nobody
  live,      \* the stream has sent its snapshot
  from,      \* log when the stream was opened
  seen,      \* the last event the stream has brought
  baseline,  \* of the hub
  batch,     \* events of the store that wait for the next append
  flying,    \* the append under way
  known,     \* knownSessions holds the session
  core,      \* nd-core is up
  journal,   \* what nd-core retains of the session
  resets,    \* resets so far; the last one is resetPromise
  clear,     \* store.clear() of each reset
  pc,        \* callers of the hub
  awaits,    \* the reset an open() waits for
  answer,    \* what the last read returned
  emitted,   \* history: events emitted live, in order
  spoiled,   \* history: a reset or a failed call came in the way of the read
  asked,     \* history: baseline when the read drained the store
  doubt,     \* history: since a reset that left the journal to its own writes a
             \* call failed, an open() went past another reset, or a snapshot
             \* no longer had all that came after the baseline
  adopted,   \* history: ensure has returned and the stream was not lost since
  promised,  \* history: events of a turn prompted after such an ensure
  hasty      \* history: ensure found a handle without a snapshot, or lost it

streamVars == <<live, from, seen>>
hubVars == <<source, handle, settled, opener, baseline>>
storeVars == <<batch, flying, known>>
resetVars == <<resets, clear>>
callVars == <<pc, awaits, answer, spoiled, asked>>
turnVars == <<adopted, promised, hasty>>
vars == <<log, streamVars, hubVars, storeVars, core, journal, resetVars,
          callVars, emitted, doubt, turnVars>>

Init ==
  /\ log \in 0..1 /\ source = TRUE
  /\ handle = FALSE /\ settled = FALSE /\ opener = Nobody
  /\ live = FALSE /\ from = 0 /\ seen = 0 /\ baseline = 0
  /\ batch = <<>> /\ flying = <<>> /\ known = FALSE
  /\ core = TRUE /\ journal = <<>>
  /\ resets = 0 /\ clear = [i \in Resets |-> "none"]
  /\ pc = [c \in Callers |-> "idle"] /\ awaits = [c \in Callers |-> 0]
  /\ answer = <<>> /\ emitted = <<>> /\ spoiled = FALSE /\ asked = 0
  /\ doubt = FALSE /\ adopted = FALSE /\ promised = {} /\ hasty = FALSE

Seqs(s) == [i \in DOMAIN s |-> s[i].seq]
Pending == flying \o batch
Between(n, m) == [i \in 1..m - n |-> n + i]

(* The last k of s, or all of it.                                          *)
Newest(s, k) == IF k >= Len(s) THEN s ELSE SubSeq(s, Len(s) - k + 1, Len(s))

(* The stream of a turn is lost, or must be opened anew during ensure.     *)
LoseTurn ==
  adopted' = FALSE /\ promised' = {} /\ hasty' = (pc["ensure"] # "idle")

-----------------------------------------------------------------------------
(* Awaiting.                                                               *)

(* The writes that the hub, or the store, has under way.                   *)
Writes == ToSet(Pending)
Tracked == {e \in Writes : e.tracked}

(* Caller c waits for some of them.                                        *)
AwaitWrites(c, writes) ==
  LET await(s) == [i \in DOMAIN s |->
        IF s[i] \in writes THEN [s[i] EXCEPT !.awaited = @ \cup {c}] ELSE s[i]]
  IN batch' = await(batch) /\ flying' = await(flying) /\ UNCHANGED known

Waits(c) == \E e \in Writes : c \in e.awaited
Flushing(i) == \E e \in Writes : i \in e.clears

At(c, place) == pc[c] = place
Goto(c, place) == pc' = [pc EXCEPT ![c] = place]

(* Closing a handle; its ready is rejected if it is not settled.           *)
CloseHandle ==
  /\ handle' = FALSE /\ settled' = FALSE /\ opener' = Nobody
  /\ live' = FALSE /\ from' = 0 /\ seen' = 0
  /\ LoseTurn

Refusing == [c \in Callers |-> IF pc[c] = "ready" THEN "refused" ELSE pc[c]]

-----------------------------------------------------------------------------
(* The runtime and its stream.                                             *)

Record ==
  /\ log < MaxSeq
  /\ log' = log + 1
  /\ promised' = IF adopted THEN promised \cup {log + 1} ELSE promised
  /\ UNCHANGED <<streamVars, hubVars, storeVars, core, journal, resetVars,
                 callVars, emitted, doubt, adopted, hasty>>

(* Mutant: what the baseline covers is appended again.                     *)
AcceptedAll(n, m) == Between(n, m)

(* Those of the events after n, up to m, that the baseline does not cover. *)
Accepted(n, m) ==
  IF m <= baseline THEN <<>> ELSE Between(IF n < baseline THEN baseline ELSE n, m)

(* Mutant: the records of a snapshot are emitted like live events.         *)
EmitsAll(n, m, isSnapshot) == emitted \o Accepted(n, m)

Emits(n, m, isSnapshot) ==
  IF isSnapshot THEN emitted ELSE emitted \o Accepted(n, m)

(* ingest of a snapshot or an event frame, which has the events after n,   *)
(* up to m: baseline, emission and append.                                 *)
Ingest(n, m, isSnapshot) ==
  LET new == Accepted(n, m) IN
  /\ emitted' = Emits(n, m, isSnapshot)
  /\ baseline' = IF new = <<>> THEN baseline ELSE Last(new)
  /\ batch' = batch \o [i \in DOMAIN new |->
                          [seq |-> new[i], tracked |-> TRUE, awaited |-> {}, clears |-> {}]]
  /\ known' = (known \/ new # <<>>)
  /\ UNCHANGED flying

(* Before the newest events that a snapshot at n brings.                   *)
WindowStart(n) == IF n <= Window THEN 0 ELSE n - Window

(* The stream was asked for when the log had from events; its snapshot     *)
(* holds the newest when it is taken. ready is resolved first.             *)
Snapshot ==
  /\ handle /\ ~live
  /\ \E n \in from..log :
       /\ seen' = n
       /\ Ingest(WindowStart(n), n, TRUE)
       /\ doubt' = (doubt \/ (baseline > 0 /\ baseline < WindowStart(n)))
  /\ live' = TRUE /\ from' = 0 /\ settled' = TRUE
  /\ pc' = [c \in Callers |-> IF pc[c] = "ready" THEN "opened" ELSE pc[c]]
  /\ UNCHANGED <<log, source, handle, opener, core, journal, resetVars,
                 awaits, answer, spoiled, asked, turnVars>>

Event ==
  /\ handle /\ live /\ seen < log
  /\ seen' = seen + 1
  /\ Ingest(seen, seen + 1, FALSE)
  /\ UNCHANGED <<log, live, from, source, handle, settled, opener, core, journal,
                 resetVars, callVars, doubt, turnVars>>

(* The socket of GatewayClient is lost and the stream opened anew; a ready *)
(* that is resolved stays so and the hub is not told.                      *)
Reconnect ==
  /\ handle /\ live
  /\ live' = FALSE /\ from' = log /\ seen' = 0
  /\ LoseTurn
  /\ UNCHANGED <<log, hubVars, storeVars, core, journal, resetVars, callVars,
                 emitted, doubt>>

(* ingest of an error or end frame: baseline and journal are kept.         *)
StreamEnds ==
  /\ handle
  /\ CloseHandle
  /\ pc' = Refusing
  /\ UNCHANGED <<log, source, baseline, storeVars, core, journal, resetVars,
                 awaits, answer, spoiled, asked, emitted, doubt>>

-----------------------------------------------------------------------------
(* The store and nd-core.                                                  *)

(* The timer of the batch, or a flush.                                     *)
Fly ==
  /\ flying = <<>> /\ batch # <<>>
  /\ flying' = batch /\ batch' = <<>>
  /\ UNCHANGED <<log, streamVars, hubVars, known, core, journal, resetVars,
                 callVars, emitted, doubt, turnVars>>

After(c) ==
  CASE At(c, "flush") /\ c = "read" -> "drain"
    [] At(c, "drain flush") -> "tail"
    [] OTHER -> "done"

(* Those that waited for nothing but this append go on.                    *)
Wake(rest) ==
  pc' = [c \in Callers |->
           IF Waits(c) /\ \A e \in ToSet(rest) : c \notin e.awaited
           THEN After(c) ELSE pc[c]]

(* What is left of s to the hub when the append under way is settled. The  *)
(* hub has a set of writes for each time it has begun anew, and one that   *)
(* gets empty takes the session's entry with it, if it is the newest or    *)
(* not: then the writes of the newest are not waited for any more.         *)
Untracked(s) ==
  LET stale(w) == \E e \in ToSet(w) : ~e.tracked
      keeps == IF ~stale(flying) THEN {TRUE}
               ELSE IF stale(s) THEN BOOLEAN ELSE {FALSE}
  IN {[i \in DOMAIN s |-> [s[i] EXCEPT !.tracked = @ /\ keep]] : keep \in keeps}

(* nd-core appends, and trims by number and by size.                       *)
Retain ==
  LET all == journal \o Seqs(flying) IN
  \E k \in 0..Len(all) :
    /\ k < Len(all) => k >= Retained
    /\ journal' = Newest(all, k)

(* It has answered.                                                        *)
AppendLands ==
  /\ core /\ flying # <<>>
  /\ Retain
  /\ flying' = <<>>
  /\ batch' \in Untracked(batch)
  /\ Wake(batch)
  /\ UNCHANGED <<log, streamVars, hubVars, known, core, resetVars, awaits,
                 answer, spoiled, asked, emitted, doubt, turnVars>>

(* The append under way is lost to the store, whether nd-core executed it  *)
(* or not: every promise on one of its events is rejected, and a clear     *)
(* that waits for one drops nothing.                                       *)
LoseFlight(refused, done) ==
  LET hit == UNION {e.awaited : e \in ToSet(flying)}
      hitClears == UNION {e.clears : e \in ToSet(flying)} IN
  /\ flying' = <<>>
  /\ batch' \in Untracked([i \in DOMAIN batch |->
       [batch[i] EXCEPT !.awaited = @ \ hit, !.clears = @ \ hitClears]])
  /\ pc' = [c \in Callers |->
              IF c \in hit \cup refused
              THEN IF pc[c] = "flush" THEN "refused" ELSE "failed" ELSE pc[c]]
  /\ clear' = [i \in Resets |-> IF i \in hitClears \cup done THEN "done" ELSE clear[i]]
  /\ spoiled' = ~At("read", "idle") /\ doubt' = TRUE
  /\ UNCHANGED <<log, streamVars, hubVars, known, resets, awaits, answer, asked,
                 emitted, turnVars>>

AppendFails ==
  /\ flying # <<>>
  /\ LoseFlight({}, {})
  /\ \/ UNCHANGED journal
     \/ core /\ Retain
  /\ UNCHANGED core

(* nd-core dies, with the journal and all calls under way.                 *)
Crash ==
  /\ core /\ resets < MaxResets
  /\ core' = FALSE /\ journal' = <<>>
  /\ LoseFlight({c \in Callers : pc[c] = "tail"}, {i \in Resets : clear[i] = "drop"})

-----------------------------------------------------------------------------
(* Resets.                                                                 *)

(* Every clear that has not flushed waits for all that is pending.         *)
Covered ==
  \A i \in Resets : clear[i] = "flush" => \A e \in Writes : i \in e.clears

(* Whatever came before, this reset is going to drop all that nd-core has  *)
(* of the session and is about to get, or there is nothing to drop.        *)
Sweeps == (known /\ Covered) \/ (journal = <<>> /\ Pending = <<>>)

(* What detach and rehydrate have in common: the handle is closed, the     *)
(* baseline and the pending writes forgotten, store.clear() begun: it      *)
(* waits for what is pending. What the callers in again waited for is left. *)
Reset(again) ==
  /\ resets < MaxResets
  /\ resets' = resets + 1
  /\ CloseHandle
  /\ baseline' = 0
  /\ LET forget(s) == [i \in DOMAIN s |->
           [s[i] EXCEPT !.tracked = FALSE, !.awaited = @ \ again,
                        !.clears = @ \cup {resets + 1}]]
     IN batch' = forget(batch) /\ flying' = forget(flying)
  /\ clear' = [clear EXCEPT ![resets + 1] = "flush"]
  /\ spoiled' = ~At("read", "idle")
  /\ doubt' = (doubt /\ ~Sweeps)
  /\ UNCHANGED <<log, known, journal, answer, asked, emitted>>

Detach ==
  /\ source /\ source' = FALSE
  /\ Reset({})
  /\ pc' = Refusing
  /\ UNCHANGED <<core, awaits>>

(* A new runtime is up. attach detaches first.                             *)
Attach ==
  /\ ~source /\ source' = TRUE
  /\ Reset({})
  /\ pc' = Refusing
  /\ UNCHANGED <<core, awaits>>

(* nd-core is started anew, by itself or by a request; core.ready is       *)
(* handled before anything that waited for the start goes on. The handle   *)
(* is followed again; a rehydration that is still under way has nothing    *)
(* left to do then that the new one does not, its own handle being closed. *)
Ready ==
  /\ ~core /\ core' = TRUE
  /\ UNCHANGED source
  /\ \/ ~source
        /\ UNCHANGED <<log, streamVars, handle, settled, opener, baseline, storeVars, journal,
                       resetVars, callVars, emitted, doubt, turnVars>>
     \/ source /\ handle
        /\ Reset({"rehydrate"})
        /\ pc' = [Refusing EXCEPT !["rehydrate"] = "reset"]
        /\ awaits' = [awaits EXCEPT !["rehydrate"] = resets + 1]
     \/ source /\ ~handle
        /\ Reset({})
        /\ pc' = Refusing /\ UNCHANGED awaits

(* clear has flushed.                                                      *)
ClearDrops(i) ==
  /\ clear[i] = "flush" /\ ~Flushing(i)
  /\ clear' = [clear EXCEPT ![i] = IF known THEN "drop" ELSE "done"]
  /\ known' = FALSE
  /\ UNCHANGED <<log, streamVars, hubVars, batch, flying, core, journal, resets,
                 callVars, emitted, doubt, turnVars>>

DropLands(i) ==
  /\ core /\ clear[i] = "drop"
  /\ clear' = [clear EXCEPT ![i] = "done"]
  /\ journal' = <<>>
  /\ UNCHANGED <<log, streamVars, hubVars, storeVars, core, resets, callVars,
                 emitted, doubt, turnVars>>

(* The failure of a drop is swallowed.                                     *)
DropFails(i) ==
  /\ clear[i] = "drop"
  /\ clear' = [clear EXCEPT ![i] = "done"]
  /\ doubt' = TRUE
  /\ UNCHANGED <<log, streamVars, hubVars, storeVars, core, journal, resets,
                 callVars, emitted, turnVars>>

-----------------------------------------------------------------------------
(* Calls.                                                                  *)

CallUnchanged ==
  UNCHANGED <<log, core, journal, resetVars, emitted, doubt>>

(* read; the harness asks only an attached hub.                            *)
Read ==
  /\ At("read", "idle") /\ source
  /\ Goto("read", "reset") /\ awaits' = [awaits EXCEPT !["read"] = resets]
  /\ spoiled' = FALSE
  /\ CallUnchanged
  /\ UNCHANGED <<streamVars, hubVars, storeVars, answer, asked, turnVars>>

(* ensure: with a handle, whatever its state, it only flushes.             *)
Ensure ==
  /\ At("ensure", "idle")
  /\ IF ~source \/ handle
     THEN /\ AwaitWrites("ensure", Tracked)
          /\ Goto("ensure", IF Tracked # {} THEN "flush" ELSE "done")
          /\ hasty' = (handle /\ ~live)
          /\ UNCHANGED awaits
     ELSE /\ Goto("ensure", "reset")
          /\ awaits' = [awaits EXCEPT !["ensure"] = resets]
          /\ hasty' = FALSE
          /\ UNCHANGED storeVars
  /\ adopted' = FALSE /\ promised' = {}
  /\ CallUnchanged
  /\ UNCHANGED <<streamVars, hubVars, answer, spoiled, asked>>

(* Mutant: the wait for a reset that is under way is left out.             *)
NotReset(c) == FALSE

Resetting(c) == awaits[c] # 0 /\ clear[awaits[c]] # "done"

(* Mutant: open does not wait for the snapshot.                            *)
FollowedAtOnce == "opened"

Followed == "ready"

(* open after the reset it waited for, and no other: join the handle, or   *)
(* follow the session.                                                     *)
Open(c) ==
  /\ At(c, "reset") /\ ~Resetting(c)
  /\ \/ /\ handle
        /\ Goto(c, IF settled THEN "opened" ELSE "ready")
        /\ hasty' = IF c = "ensure" THEN settled /\ ~live ELSE hasty
        /\ UNCHANGED <<hubVars, streamVars>>
     \/ /\ ~handle /\ source
        /\ handle' = TRUE /\ settled' = FALSE /\ opener' = c
        /\ live' = FALSE /\ from' = log /\ seen' = 0
        /\ Goto(c, Followed)
        /\ UNCHANGED <<source, baseline, hasty>>
     \/ /\ ~handle /\ ~source
        /\ Goto(c, "failed")
        /\ UNCHANGED <<hubVars, streamVars, hasty>>
  /\ awaits' = [awaits EXCEPT ![c] = 0]
  /\ doubt' = (doubt \/ \E i \in Resets \ {awaits[c]} : clear[i] \in {"flush", "drop"})
  /\ UNCHANGED <<log, core, journal, resetVars, emitted, storeVars, answer, spoiled,
                 asked, adopted, promised>>

(* Mutant: a follow that timed out is forgotten but not closed.            *)
GiveUpForgets(c) ==
  CloseHandle /\ pc' = [pc EXCEPT ![c] = "failed"]

(* open fails: the handle it opened is closed, a later read retries.       *)
GiveUp(c) == CloseHandle /\ pc' = [Refusing EXCEPT ![c] = "failed"]

(* SNAPSHOT_TIMEOUT_MS.                                                    *)
TimesOut(c) ==
  /\ At(c, "ready") /\ opener = c
  /\ GiveUp(c)
  /\ CallUnchanged
  /\ UNCHANGED <<source, baseline, storeVars, awaits, answer, spoiled, asked>>

(* What open() waits for is rejected: it closes the handle if it opened    *)
(* it and it still stands, and throws.                                     *)
Throw(c) ==
  /\ At(c, "refused")
  /\ IF opener = c THEN GiveUp(c)
     ELSE Goto(c, "failed") /\ UNCHANGED <<handle, settled, opener, streamVars, turnVars>>
  /\ CallUnchanged
  /\ UNCHANGED <<source, baseline, storeVars, awaits, answer, spoiled, asked>>

(* The flushes of a call: in open, of what the hub has under way; in read  *)
(* and tail, of all that the store has.                                    *)
Flush(c, writes, waiting, beyond) ==
  /\ AwaitWrites(c, writes)
  /\ Goto(c, IF writes # {} THEN waiting ELSE beyond)
  /\ CallUnchanged
  /\ UNCHANGED <<hubVars, streamVars, awaits, answer, spoiled, turnVars>>

Flushes(c) ==
  \/ /\ At(c, "opened")
     /\ Flush(c, Tracked, "flush", IF c = "read" THEN "drain" ELSE "done")
     /\ UNCHANGED asked
  \/ /\ c = "read" /\ At(c, "drain")
     /\ Flush(c, Writes, "drain flush", "tail")
     /\ asked' = baseline

TailAnswered ==
  /\ At("read", "tail")
  /\ \/ core /\ answer' = Newest(journal, MaxMessages) /\ Goto("read", "answered")
     \/ UNCHANGED answer /\ Goto("read", "failed")
  /\ CallUnchanged
  /\ UNCHANGED <<streamVars, hubVars, storeVars, awaits, spoiled, asked, turnVars>>

(* The call is over. After an ensure that succeeded the turn is prompted.  *)
Over == {"done", "answered", "failed"}

Return(c) ==
  /\ pc[c] \in Over
  /\ Goto(c, "idle")
  /\ IF c = "read" THEN answer' = <<>> /\ asked' = 0 /\ spoiled' = FALSE
                   ELSE UNCHANGED <<answer, asked, spoiled>>
  /\ opener' = IF opener = c THEN Nobody ELSE opener
  /\ adopted' = IF c = "ensure" THEN At(c, "done") /\ handle
                                ELSE adopted
  /\ CallUnchanged
  /\ UNCHANGED <<streamVars, source, handle, settled, baseline, storeVars, awaits,
                 promised, hasty>>

-----------------------------------------------------------------------------
(* What was settled goes on before the next event is handled.              *)
Continue ==
  \/ \E c \in Callers : Open(c) \/ Throw(c) \/ Flushes(c) \/ Return(c)
  \/ \E i \in Resets : ClearDrops(i)

Due ==
  \/ \E c \in Callers :
       \/ pc[c] \in Over \cup {"refused", "opened", "drain"}
       \/ At(c, "reset") /\ ~Resetting(c)
  \/ \E i \in Resets : clear[i] = "flush" /\ ~Flushing(i)

Answers == AppendLands \/ AppendFails
Drops(i) == DropLands(i) \/ DropFails(i)

Happens ==
  \/ Record \/ Snapshot \/ Event \/ Reconnect \/ StreamEnds
  \/ Fly \/ Answers \/ Crash \/ Ready \/ Detach \/ Attach
  \/ Read \/ Ensure \/ TailAnswered
  \/ \E c \in Callers : TimesOut(c)
  \/ \E i \in Resets : Drops(i)

Next == Continue \/ (~Due /\ Happens)

Spec == Init /\ [][Next]_vars

-----------------------------------------------------------------------------
(* The variables have their types; a stream stands for a held handle only, *)
(* and a handle for an attached source.                                    *)
TypeOK ==
  /\ log \in 0..MaxSeq /\ from \in 0..log /\ seen \in 0..log /\ baseline \in 0..log
  /\ {source, handle, settled, live, known, core, spoiled, doubt, adopted, hasty}
       \subseteq BOOLEAN
  /\ opener \in Callers \cup {Nobody}
  /\ (live => settled) /\ (settled => handle) /\ (handle => source)
  /\ \A e \in Writes :
       /\ e.seq \in 1..log /\ e.tracked \in BOOLEAN
       /\ e.awaited \subseteq Callers /\ e.clears \subseteq Resets
  /\ resets \in 0..MaxResets
  /\ clear \in [Resets -> {"none", "flush", "drop", "done"}]
  /\ pc \in [Callers -> Over \cup {"idle", "reset", "ready", "refused", "opened", "flush",
               "drain", "drain flush", "tail"}]
  /\ awaits \in [Callers -> 0..MaxResets] /\ asked \in 0..MaxSeq
  /\ promised \subseteq 1..log

Calm == \A i \in Resets : clear[i] \in {"none", "done"}

(* Of a session that is longer, a piece of this length is complete.        *)
Complete(m, n, length) == m = 0 \/ n - m >= length

Least(a, b) == IF a <= b THEN a ELSE b
Kept == Least(Window, Retained)

(* The baseline never runs ahead of the history: unless a call to nd-core  *)
(* failed since, the journal with what is under way to it is the session   *)
(* up to the baseline, or at least the newest of it that the windows let   *)
(* through, in order, without gap and each event once, across resets,      *)
(* streams that end and reconnect, and restarts of nd-core (rehydrate).    *)
JournalInStep ==
  Calm /\ core /\ ~doubt =>
    \E m \in 0..baseline :
      journal \o Seqs(Pending) = Between(m, baseline) /\ Complete(m, baseline, Kept)

(* A history that read returns has no gap and no repetition, holds all     *)
(* that was seen when it drained the store, and goes back to the beginning *)
(* of the session or as far as it was asked and the windows let through.   *)
HistoryIsRead ==
  At("read", "answered") /\ ~doubt /\ ~spoiled =>
    \E n \in asked..log : \E m \in 0..n :
      answer = Between(m, n) /\ Complete(m, n, Least(MaxMessages, Kept))

(* No event is emitted twice or out of order, across all streams, resets   *)
(* and snapshots (ingest).                                                 *)
EmittedOnce ==
  \A i, j \in DOMAIN emitted : i < j => emitted[i] < emitted[j]

(* After ensure a turn's events arrive as live appends instead of being    *)
(* swallowed by a snapshot, while its stream stands: if ensure opened the  *)
(* stream, waited for it, or found one that had sent its snapshot.         *)
TurnIsLive ==
  ~hasty => \A n \in promised : n <= baseline => n \in ToSet(emitted)

(* The same of every ensure, as its comment has it.                        *)
EnsuredIsLive == \A n \in promised : n <= baseline => n \in ToSet(emitted)

(* No call hangs: what it waits for is under way and bound to end, by its  *)
(* answer or a timeout: the clear of a reset, an append with its event, or *)
(* a snapshot some open() has put a limit to, although a call that joins   *)
(* an open handle sets none of its own.                                    *)
NoCallHangs ==
  \A c \in Callers :
    /\ At(c, "reset") => ~Resetting(c) \/ clear[awaits[c]] \in {"flush", "drop"}
    /\ pc[c] \in {"flush", "drain flush"} => Waits(c)
    /\ At(c, "ready") => opener # Nobody /\ At(opener, "ready")
=============================================================================
