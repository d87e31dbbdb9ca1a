----------------------------- MODULE TracedRunProofs -----------------------------
(***************************************************************************)
(* Proofs about TracedRun, for any number of events and outages, any       *)
(* buffer size and any number of attempts: what flush, its retries and     *)
(* close() keep of the events, and in what order.                          *)
(***************************************************************************)
EXTENDS TracedRun, SequenceTheorems, TLAPS

----------------------------------------------------------------------------
(* Sequences of events.                                                    *)

Increasing(s) == \A i, j \in DOMAIN s : i < j => s[i] < s[j]
Before(S, T) == \A a \in S, b \in T : a < b

\* A concatenation holds what its parts do ...
LEMMA ConcatHolds ==
    ASSUME NEW S, NEW s \in Seq(S), NEW t \in Seq(S)
    PROVE  /\ s \o t \in Seq(S) /\ Len(s \o t) = Len(s) + Len(t)
           /\ ToSet(s \o t) = ToSet(s) \cup ToSet(t)
<1>1. /\ Len(s) \in Nat /\ DOMAIN s = 1..Len(s)
      /\ Len(t) \in Nat /\ DOMAIN t = 1..Len(t)
  BY LenProperties
<1>2. /\ s \o t \in Seq(S) /\ Len(s \o t) = Len(s) + Len(t)
      /\ \A i \in 1..(Len(s) + Len(t)) : (s \o t)[i] = IF i <= Len(s) THEN s[i] ELSE t[i - Len(s)]
  BY ConcatProperties
<1>3. DOMAIN (s \o t) = 1..(Len(s) + Len(t))
  BY <1>2, LenProperties
<1>4. \A i \in DOMAIN s : i \in DOMAIN (s \o t) /\ (s \o t)[i] = s[i]
  BY <1>1, <1>2, <1>3
<1>5. \A i \in DOMAIN t : Len(s) + i \in DOMAIN (s \o t) /\ (s \o t)[Len(s) + i] = t[i]
  BY <1>1, <1>2, <1>3
<1>6. \A i \in DOMAIN (s \o t) : \/ i \in DOMAIN s /\ (s \o t)[i] = s[i]
                                 \/ i - Len(s) \in DOMAIN t /\ (s \o t)[i] = t[i - Len(s)]
  BY <1>1, <1>2, <1>3
<1>7. ToSet(s) \cup ToSet(t) \subseteq ToSet(s \o t)
  BY <1>4, <1>5 DEF ToSet
<1>8. ToSet(s \o t) \subseteq ToSet(s) \cup ToSet(t)
  BY <1>6 DEF ToSet
<1> QED BY <1>2, <1>7, <1>8

\* ... repeats nothing if they do not and share nothing ...
LEMMA ConcatInjective ==
    ASSUME NEW S, NEW s \in Seq(S), NEW t \in Seq(S), IsInjective(s), IsInjective(t),
           ToSet(s) \cap ToSet(t) = {}
    PROVE  IsInjective(s \o t)
<1>1. /\ Len(s) \in Nat /\ DOMAIN s = 1..Len(s)
      /\ Len(t) \in Nat /\ DOMAIN t = 1..Len(t)
      /\ DOMAIN (s \o t) = 1..(Len(s) + Len(t))
  BY LenProperties, ConcatProperties
<1>2. \A i \in 1..(Len(s) + Len(t)) : (s \o t)[i] = IF i <= Len(s) THEN s[i] ELSE t[i - Len(s)]
  BY ConcatProperties
<1> SUFFICES ASSUME NEW i \in DOMAIN (s \o t), NEW j \in DOMAIN (s \o t), (s \o t)[i] = (s \o t)[j]
             PROVE  i = j
  BY DEF IsInjective
<1>3. CASE i <= Len(s) /\ j <= Len(s)
  BY <1>1, <1>2, <1>3 DEF IsInjective
<1>4. CASE ~(i <= Len(s)) /\ ~(j <= Len(s))
  <2>1. i - Len(s) \in DOMAIN t /\ j - Len(s) \in DOMAIN t
    BY <1>1, <1>4
  <2>2. t[i - Len(s)] = t[j - Len(s)]
    BY <1>1, <1>2, <1>4
  <2>3. i - Len(s) = j - Len(s)
    BY <2>1, <2>2 DEF IsInjective
  <2> QED BY <1>1, <2>3
<1>5. CASE i <= Len(s) /\ ~(j <= Len(s))
  <2>1. i \in DOMAIN s /\ j - Len(s) \in DOMAIN t /\ s[i] = t[j - Len(s)]
    BY <1>1, <1>2, <1>5
  <2> QED BY <2>1 DEF ToSet
<1>6. CASE ~(i <= Len(s)) /\ j <= Len(s)
  <2>1. j \in DOMAIN s /\ i - Len(s) \in DOMAIN t /\ s[j] = t[i - Len(s)]
    BY <1>1, <1>2, <1>6
  <2> QED BY <2>1 DEF ToSet
<1> QED BY <1>3, <1>4, <1>5, <1>6

\* ... and is in order if they are, one before the other.
LEMMA ConcatIncreasing ==
    ASSUME NEW S, NEW s \in Seq(S), NEW t \in Seq(S), Increasing(s), Increasing(t),
           Before(ToSet(s), ToSet(t))
    PROVE  Increasing(s \o t)
<1>1. /\ Len(s) \in Nat /\ DOMAIN s = 1..Len(s)
      /\ Len(t) \in Nat /\ DOMAIN t = 1..Len(t)
      /\ DOMAIN (s \o t) = 1..(Len(s) + Len(t))
  BY LenProperties, ConcatProperties
<1>2. \A i \in 1..(Len(s) + Len(t)) : (s \o t)[i] = IF i <= Len(s) THEN s[i] ELSE t[i - Len(s)]
  BY ConcatProperties
<1> SUFFICES ASSUME NEW i \in DOMAIN (s \o t), NEW j \in DOMAIN (s \o t), i < j
             PROVE  (s \o t)[i] < (s \o t)[j]
  BY DEF Increasing
<1>3. CASE j <= Len(s)
  BY <1>1, <1>2, <1>3 DEF Increasing
<1>4. CASE ~(i <= Len(s))
  <2>1. i - Len(s) \in DOMAIN t /\ j - Len(s) \in DOMAIN t /\ i - Len(s) < j - Len(s)
    BY <1>1, <1>4
  <2>2. (s \o t)[i] = t[i - Len(s)] /\ (s \o t)[j] = t[j - Len(s)]
    BY <1>1, <1>2, <1>4
  <2> QED BY <2>1, <2>2 DEF Increasing
<1>5. CASE i <= Len(s) /\ ~(j <= Len(s))
  <2>1. i \in DOMAIN s /\ j - Len(s) \in DOMAIN t
    BY <1>1, <1>5
  <2>2. (s \o t)[i] = s[i] /\ (s \o t)[j] = t[j - Len(s)]
    BY <1>1, <1>2, <1>5
  <2> QED BY <2>1, <2>2 DEF Before, ToSet
<1> QED BY <1>1, <1>3, <1>4, <1>5

\* One more event.
LEMMA AppendHolds ==
    ASSUME NEW S, NEW s \in Seq(S), NEW e \in S
    PROVE  /\ Append(s, e) \in Seq(S) /\ Len(Append(s, e)) = Len(s) + 1
           /\ ToSet(Append(s, e)) = ToSet(s) \cup {e}
           /\ IsInjective(s) /\ e \notin ToSet(s) => IsInjective(Append(s, e))
           /\ Increasing(s) /\ Before(ToSet(s), {e}) => Increasing(Append(s, e))
<1>1. /\ Len(s) \in Nat /\ DOMAIN s = 1..Len(s)
      /\ Append(s, e) \in Seq(S) /\ Len(Append(s, e)) = Len(s) + 1
      /\ DOMAIN Append(s, e) = 1..(Len(s) + 1)
      /\ \A i \in 1..Len(s) : Append(s, e)[i] = s[i]
      /\ Append(s, e)[Len(s) + 1] = e
  BY LenProperties, AppendProperties
<1>2. \A i \in DOMAIN Append(s, e) : i \in DOMAIN s \/ i = Len(s) + 1
  BY <1>1
<1>3. ToSet(Append(s, e)) = ToSet(s) \cup {e}
  BY <1>1, <1>2 DEF ToSet
<1>4. IsInjective(s) /\ e \notin ToSet(s) => IsInjective(Append(s, e))
  BY <1>1, <1>2 DEF IsInjective, ToSet
<1>5. Increasing(s) /\ Before(ToSet(s), {e}) => Increasing(Append(s, e))
  <2> SUFFICES ASSUME Increasing(s), Before(ToSet(s), {e}),
                      NEW i \in DOMAIN Append(s, e), NEW j \in DOMAIN Append(s, e), i < j
               PROVE  Append(s, e)[i] < Append(s, e)[j]
    BY DEF Increasing
  <2>1. i \in DOMAIN s
    BY <1>1
  <2>2. CASE j \in DOMAIN s
    BY <1>1, <2>1, <2>2 DEF Increasing
  <2>3. CASE j = Len(s) + 1
    BY <1>1, <2>1, <2>3 DEF Before, ToSet
  <2> QED BY <1>2, <2>2, <2>3
<1> QED BY <1>1, <1>3, <1>4, <1>5

\* The buffer's limit keeps the newest events, in order, and all of them if they fit.
LEMMA TruncateKeeps ==
    ASSUME NEW S, NEW s \in Seq(S)
    PROVE  /\ Truncate(s) \in Seq(S) /\ Len(Truncate(s)) <= Len(s)
           /\ ToSet(Truncate(s)) \subseteq ToSet(s)
           /\ Len(s) <= MaxBufferSize => Truncate(s) = s
           /\ IsInjective(s) => IsInjective(Truncate(s))
           /\ Increasing(s) => Increasing(Truncate(s))
<1>1. Len(s) \in Nat /\ DOMAIN s = 1..Len(s) /\ MaxBufferSize \in Nat \ {0}
  BY LenProperties, EventAssumption
<1>2. CASE Len(s) <= MaxBufferSize
  BY <1>1, <1>2 DEF Truncate
<1>3. CASE Len(s) > MaxBufferSize
  <2> DEFINE k == Len(s) - MaxBufferSize
             t == SubSeq(s, k + 1, Len(s))
  <2>1. k \in Nat /\ k + 1 \in Int /\ k + 1 <= Len(s) /\ Truncate(s) = t
    BY <1>1, <1>3 DEF Truncate, Newest
  <2>2. \A i \in (k + 1)..Len(s) : s[i] \in S
    BY <1>1, <2>1, ElementOfSeq
  <2> HIDE DEF k
  <2>3. /\ t \in Seq(S) /\ Len(t) = Len(s) - k
        /\ \A i \in 1..(Len(s) - k) : t[i] = s[k + i]
    BY <1>1, <2>1, <2>2, SubSeqProperties
  <2> HIDE DEF t
  <2>4. DOMAIN t = 1..(Len(s) - k)
    BY <2>3, LenProperties
  <2>5. \A i \in DOMAIN t : k + i \in DOMAIN s /\ t[i] = s[k + i] /\ i \in Int
    BY <1>1, <2>1, <2>3, <2>4
  <2>6. ToSet(t) \subseteq ToSet(s)
    BY <2>5 DEF ToSet
  <2>7. IsInjective(s) => IsInjective(t)
    <3> SUFFICES ASSUME IsInjective(s), NEW i \in DOMAIN t, NEW j \in DOMAIN t, t[i] = t[j]
                 PROVE  i = j
      BY DEF IsInjective
    <3>1. k + i = k + j
      BY <2>5 DEF IsInjective
    <3> QED BY <2>1, <2>5, <3>1
  <2>8. Increasing(s) => Increasing(t)
    <3> SUFFICES ASSUME Increasing(s), NEW i \in DOMAIN t, NEW j \in DOMAIN t, i < j
                 PROVE  t[i] < t[j]
      BY DEF Increasing
    <3>1. k + i < k + j
      BY <2>1, <2>5
    <3> QED BY <2>5, <3>1 DEF Increasing
  <2> QED BY <1>1, <1>3, <2>1, <2>3, <2>6, <2>7, <2>8
<1> QED BY <1>1, <1>2, <1>3

\* No event is in an empty sequence.
LEMMA EmptyHolds ==
    /\ \A S : <<>> \in Seq(S)
    /\ Len(<<>>) = 0 /\ ToSet(<<>>) = {} /\ IsInjective(<<>>) /\ Increasing(<<>>)
<1>1. DOMAIN <<>> = {} /\ Len(<<>>) = 0
  BY EmptySeq, LenProperties
<1> QED BY <1>1, EmptySeq DEF ToSet, IsInjective, Increasing

----------------------------------------------------------------------------
(* The inductive invariant, in layers.                                     *)

\* Where the batches are, and what execute has written, at each of its places.
Stage ==
    /\ pc # "flushing" => batch["close"] = <<>>
    /\ ~Closed => batch["old"] = <<>> /\ closedAt = 0
    /\ pc \in {"flushing", "finalise"} => result \in Results
    /\ status \in Results => pc = "returned"
    /\ pc = "register" => emitted = 0 /\ buffer = <<>> /\ ~loop
    /\ \A f \in Flushers : committed[f] => batch[f] # <<>> /\ ToSet(batch[f]) \cap Poison = {}
    /\ batch["loop"] # <<>> => loop

\* What the collector holds, whether anything will flush it or not.
InMemory == ToSet(buffer) \cup UNION {ToSet(batch[f]) : f \in Flushers}

\* No failed save has lost anything: none failed, or too few to drop a batch with
\* a buffer that all events fit in.
Lossless == refused = 0 \/ (refused < MaxFlushAttempts /\ emitted <= MaxBufferSize)

\* How many events the buffer and the batch of f hold.
Held == Len(buffer)
Taken(f) == Len(batch[f])

\* Every event is somewhere, once in memory: the lengths leave no room for more.
Kept ==
    /\ \A f \in Flushers : committed[f] => ToSet(batch[f]) \subseteq ToSet(stored)
    /\ failures <= refused
    /\ Held + Taken("loop") + Taken("old") + Taken("close") <= emitted
    /\ Lossless => 1..emitted \subseteq InMemory \cup ToSet(stored) \cup cut

\* A buffer that nobody flushes holds only events of the failed flush of close().
Stranded == Closed /\ ~loop => ToSet(buffer) \subseteq stranded

\* What was emitted before close() is settled, or in one of the last two saves.
Settled ==
    Closed /\ refused = 0 =>
        1..closedAt \subseteq ToSet(stored) \cup ToSet(batch["old"]) \cup ToSet(batch["close"]) \cup cut

\* What a save may still bring into the table.
Live(f) == IF committed[f] THEN {} ELSE ToSet(batch[f])

\* Nothing comes from nowhere, and nothing is in two places.
Emitted == InMemory \cup ToSet(stored) \subseteq 1..emitted

Apart ==
    /\ IsInjective(stored) /\ IsInjective(buffer)
    /\ \A f \in Flushers : /\ IsInjective(batch[f])
                           /\ Live(f) \cap (ToSet(stored) \cup ToSet(buffer)) = {}
    /\ ToSet(stored) \cap ToSet(buffer) = {}
    /\ \A f, g \in Flushers : f # g => Live(f) \cap Live(g) = {}

Distinct == ~ambiguous => Apart

\* Until the run closes: table, batch and buffer are stretches of the emission order.
Ordered ==
    ~Closed /\ ~ambiguous =>
        /\ Increasing(stored) /\ Increasing(batch["loop"]) /\ Increasing(buffer)
        /\ Before(ToSet(stored), ToSet(buffer))
        /\ Before(ToSet(batch["loop"]), ToSet(buffer))
        /\ Before(ToSet(stored), Live("loop"))

----------------------------------------------------------------------------
(* Types.                                                                  *)

\* What flush's except clause makes of the batch and the buffer.
LEMMA FailureKeeps ==
    ASSUME TypeOK, NEW f \in Flushers, RecordFailure(f)
    PROVE  /\ buffer' \in Seq(Events)
           /\ failures' \in 0..(MaxFlushAttempts - 1) /\ failures' <= failures + 1
           /\ Len(buffer') <= Len(batch[f]) + Len(buffer)
           /\ ToSet(buffer') \subseteq ToSet(batch[f]) \cup ToSet(buffer)
           /\ failures + 1 < MaxFlushAttempts /\ Len(batch[f]) + Len(buffer) <= MaxBufferSize
                  => ToSet(buffer') = ToSet(batch[f]) \cup ToSet(buffer)
           /\ IsInjective(batch[f]) /\ IsInjective(buffer) /\ ToSet(batch[f]) \cap ToSet(buffer) = {}
                  => IsInjective(buffer')
           /\ Increasing(batch[f]) /\ Increasing(buffer) /\ Before(ToSet(batch[f]), ToSet(buffer))
                  => Increasing(buffer')
<1> DEFINE all == batch[f] \o buffer
<1>0. batch[f] \in Seq(Events) /\ buffer \in Seq(Events) /\ Len(buffer) \in Nat /\ Len(batch[f]) \in Nat
  BY LenProperties DEF TypeOK
<1>1. /\ failures \in 0..(MaxFlushAttempts - 1) /\ MaxFlushAttempts \in Nat \ {0}
      /\ MaxBufferSize \in Nat \ {0}
  BY EventAssumption DEF TypeOK
<1>2. /\ all \in Seq(Events) /\ Len(all) = Len(batch[f]) + Len(buffer)
      /\ ToSet(all) = ToSet(batch[f]) \cup ToSet(buffer)
  BY <1>0, ConcatHolds
<1>3. IsInjective(batch[f]) /\ IsInjective(buffer) /\ ToSet(batch[f]) \cap ToSet(buffer) = {}
          => IsInjective(all)
  BY <1>0, ConcatInjective
<1>4. Increasing(batch[f]) /\ Increasing(buffer) /\ Before(ToSet(batch[f]), ToSet(buffer))
          => Increasing(all)
  BY <1>0, ConcatIncreasing
<1>5. /\ Truncate(all) \in Seq(Events) /\ Len(Truncate(all)) <= Len(all)
      /\ ToSet(Truncate(all)) \subseteq ToSet(all)
      /\ Len(all) <= MaxBufferSize => Truncate(all) = all
      /\ IsInjective(all) => IsInjective(Truncate(all))
      /\ Increasing(all) => Increasing(Truncate(all))
  BY <1>2, TruncateKeeps
<1>6. CASE failures + 1 >= MaxFlushAttempts
  <2>1. failures' = 0 /\ buffer' = buffer
    BY <1>6 DEF RecordFailure
  <2>2. /\ failures' \in 0..(MaxFlushAttempts - 1) /\ failures' <= failures + 1
        /\ Len(buffer') <= Len(batch[f]) + Len(buffer)
    BY <1>0, <1>1, <2>1
  <2> QED BY <1>0, <1>1, <1>6, <2>1, <2>2
<1>7. CASE ~(failures + 1 >= MaxFlushAttempts)
  <2>1. failures' = failures + 1 /\ buffer' = Truncate(all)
    BY <1>7 DEF RecordFailure
  <2> HIDE DEF all
  <2>2. /\ failures' \in 0..(MaxFlushAttempts - 1) /\ failures' <= failures + 1
        /\ Len(buffer') <= Len(batch[f]) + Len(buffer)
    <3>1. Len(Truncate(all)) \in Nat
      BY <1>5, LenProperties
    <3> QED BY <1>0, <1>1, <1>2, <1>5, <1>7, <2>1, <3>1
  <2>3. buffer' \in Seq(Events) /\ ToSet(buffer') \subseteq ToSet(batch[f]) \cup ToSet(buffer)
    BY <1>2, <1>5, <2>1
  <2>4. Len(batch[f]) + Len(buffer) <= MaxBufferSize
            => ToSet(buffer') = ToSet(batch[f]) \cup ToSet(buffer)
    BY <1>2, <1>5, <2>1
  <2> QED BY <1>3, <1>4, <1>5, <2>1, <2>2, <2>3, <2>4
<1> QED BY <1>6, <1>7

\* Every variable has its type initially ...
LEMMA InitTypeOK == Init => TypeOK /\ Stage
<1> SUFFICES ASSUME Init PROVE TypeOK /\ Stage
  OBVIOUS
<1>1. batch \in [Flushers -> Seq(Events)] /\ committed \in [Flushers -> BOOLEAN]
  BY EmptyHolds DEF Init
<1>2. loop \in BOOLEAN /\ ambiguous \in BOOLEAN
  BY Zenon DEF Init
<1>3. failures \in 0..(MaxFlushAttempts - 1) /\ closedAt \in 0..emitted /\ emitted \in 0..MaxEvents
  BY EventAssumption DEF Init
<1>4. TypeOK
  BY <1>1, <1>2, <1>3, EmptyHolds, EventAssumption DEF Init, TypeOK
<1>5. Stage
  BY DEF Init, Stage, Closed, Flushers, Results
<1> QED BY <1>4, <1>5

\* ... and keeps it in every step.
LEMMA TypeStep == TypeOK /\ Stage /\ [Next]_vars => TypeOK'
<1> SUFFICES ASSUME TypeOK, Stage, [Next]_vars PROVE TypeOK'
  OBVIOUS
<1>s. \A f \in Flushers : ToSet(batch[f]) \subseteq Events
  BY LenProperties, ElementOfSeq DEF TypeOK, ToSet
<1> USE EventAssumption DEF TypeOK, collector, executor, troubles
<1>1. CASE RegisterRun
  BY <1>1 DEF RegisterRun
<1>2. ASSUME NEW r \in Results, Close(r) PROVE TypeOK'
  <2>1. "loop" \in Flushers /\ "old" \in Flushers /\ "close" \in Flushers
    BY DEF Flushers
  <2>2. batch' \in [Flushers -> Seq(Events)] /\ committed' \in [Flushers -> BOOLEAN]
    BY <1>2, <2>1, EmptyHolds DEF Close
  <2>3. closedAt' \in 0..emitted' /\ emitted' = emitted
    BY <1>2 DEF Close
  <2> QED BY <1>2, <2>2, <2>3, EmptyHolds DEF Close
<1>3. CASE UpdateRunStatus
  BY <1>3 DEF UpdateRunStatus, Stage
<1>4. CASE Handle
  <2>1. emitted + 1 \in Events
    BY <1>4 DEF Handle, Events
  <2>2. buffer' \in Seq(Events)
    BY <1>4, <2>1, AppendHolds DEF Handle
  <2> QED BY <1>4, <2>1, <2>2 DEF Handle
<1>5. CASE PeriodicFlush
  <2>1. "loop" \in Flushers
    BY DEF Flushers
  <2> QED BY <1>5, <2>1, EmptyHolds DEF PeriodicFlush
<1>6. CASE CancelledTaskEnds
  <2>1. "old" \in Flushers
    BY DEF Flushers
  <2>2. ToSet(batch["old"]) \subseteq Events
    BY <2>1, ElementOfSeq, LenProperties DEF ToSet
  <2> QED BY <1>6, <2>1, <2>2, EmptyHolds DEF CancelledTaskEnds
<1>7. CASE FunctionCancelled
  BY <1>7 DEF FunctionCancelled
<1>8. CASE StatusWriteFails
  BY <1>8 DEF StatusWriteFails
<1>9. ASSUME NEW f \in Flushers, SaveFails(f) PROVE TypeOK'
  <2>1. buffer' \in Seq(Events) /\ failures' \in 0..(MaxFlushAttempts - 1)
    BY <1>9, FailureKeeps DEF SaveFails
  <2>2. batch' \in [Flushers -> Seq(Events)] /\ committed' \in [Flushers -> BOOLEAN]
    BY <1>9, EmptyHolds DEF SaveFails, EndFlush
  <2>3. stranded' \subseteq Events
    BY <1>9, <1>s DEF SaveFails, RecordStranded
  <2> QED BY <1>9, <2>1, <2>2, <2>3 DEF SaveFails, EndFlush, CountRefusal
<1>10. ASSUME NEW f \in Flushers, Commit(f) PROVE TypeOK'
  <2>1. stored' \in Seq(Events)
    BY <1>10, ConcatHolds DEF Commit
  <2> QED BY <1>10, <2>1 DEF Commit
<1>11. ASSUME NEW f \in Flushers, SaveReturns(f) PROVE TypeOK'
  <2>1. batch' \in [Flushers -> Seq(Events)] /\ committed' \in [Flushers -> BOOLEAN]
    BY <1>11, EmptyHolds DEF SaveReturns, EndFlush
  <2> QED BY <1>11, <2>1 DEF SaveReturns, EndFlush
<1>12. ASSUME NEW f \in Flushers, PoisonRefused(f) PROVE TypeOK'
  <2>1. buffer' \in Seq(Events) /\ failures' \in 0..(MaxFlushAttempts - 1)
    BY <1>12, FailureKeeps DEF PoisonRefused
  <2>2. batch' \in [Flushers -> Seq(Events)] /\ committed' \in [Flushers -> BOOLEAN]
    BY <1>12, EmptyHolds DEF PoisonRefused, EndFlush
  <2>3. stranded' \subseteq Events
    BY <1>12, <1>s DEF PoisonRefused, RecordStranded
  <2> QED BY <1>12, <2>1, <2>2, <2>3 DEF PoisonRefused, EndFlush, CountRefusal
<1>13. CASE UNCHANGED vars
  BY <1>13 DEF vars
<1> QED
  BY <1>1, <1>2, <1>3, <1>4, <1>5, <1>6, <1>7, <1>8, <1>9, <1>10, <1>11, <1>12, <1>13
     DEF Next, Execute, Flush, Trouble

\* Each place of execute keeps what it has written and what it waits for.
LEMMA StageStep == TypeOK /\ Stage /\ [Next]_vars => Stage'
<1> SUFFICES ASSUME TypeOK, Stage, [Next]_vars PROVE Stage'
  OBVIOUS
<1>0. /\ batch \in [Flushers -> Seq(Events)] /\ committed \in [Flushers -> BOOLEAN]
      /\ status \in Results \cup {"unregistered", "running"} /\ outages \in Nat
  BY EventAssumption DEF TypeOK
<1> USE <1>0 DEF Stage, Closed, Flushers, Results, collector, executor, troubles
<1>1. CASE RegisterRun
  BY <1>1 DEF RegisterRun
<1>2. ASSUME NEW r \in Results, Close(r) PROVE Stage'
  BY <1>2 DEF Close
<1>3. CASE UpdateRunStatus
  BY <1>3 DEF UpdateRunStatus
<1>4. CASE Handle
  BY <1>4 DEF Handle
<1>5. CASE PeriodicFlush
  BY <1>5 DEF PeriodicFlush
<1>6. CASE CancelledTaskEnds
  BY <1>6 DEF CancelledTaskEnds
<1>7. CASE FunctionCancelled
  BY <1>7 DEF FunctionCancelled
<1>8. CASE StatusWriteFails
  BY <1>8 DEF StatusWriteFails
<1>f. ASSUME NEW f \in Flushers, batch[f] # <<>>, EndFlush(f) PROVE Stage'
  <2>1. /\ \A g \in Flushers : committed'[g] => committed[g] /\ g # f
        /\ \A g \in Flushers : batch'[g] = IF g = f THEN <<>> ELSE batch[g]
        /\ pc' = IF f = "close" THEN "finalise" ELSE pc
        /\ UNCHANGED <<emitted, result, status, closedAt, loop>>
    BY <1>f DEF EndFlush
  <2>2. \A g \in Flushers : committed'[g] => batch'[g] # <<>> /\ ToSet(batch'[g]) \cap Poison = {}
    BY <2>1
  <2>3. pc # "register"
    BY <1>f
  <2> QED BY <1>f, <2>1, <2>2, <2>3
<1>9. ASSUME NEW f \in Flushers, SaveFails(f) PROVE Stage'
  BY <1>9, <1>f DEF SaveFails
<1>10. ASSUME NEW f \in Flushers, Commit(f) PROVE Stage'
  BY <1>10 DEF Commit
<1>11. ASSUME NEW f \in Flushers, SaveReturns(f) PROVE Stage'
  BY <1>11 DEF SaveReturns, EndFlush
<1>12. ASSUME NEW f \in Flushers, PoisonRefused(f) PROVE Stage'
  <2>1. batch[f] # <<>>
    BY <1>12, EmptyHolds DEF PoisonRefused
  <2> QED BY <1>12, <2>1, <1>f DEF PoisonRefused
<1>13. CASE UNCHANGED vars
  BY <1>13 DEF vars
<1> QED
  BY <1>1, <1>2, <1>3, <1>4, <1>5, <1>6, <1>7, <1>8, <1>9, <1>10, <1>11, <1>12, <1>13
     DEF Next, Execute, Flush, Trouble

\* Every variable has its type in every reachable state.
THEOREM TypeCorrect == Spec => []TypeOK
<1> QED BY InitTypeOK, TypeStep, StageStep, PTL DEF Spec

----------------------------------------------------------------------------
(* What is kept.                                                           *)

\* The places an event may be in memory.
LEMMA InMemoryIs ==
    InMemory = ToSet(buffer) \cup ToSet(batch["loop"]) \cup ToSet(batch["old"]) \cup ToSet(batch["close"])
BY DEF InMemory, Flushers

\* The lengths of what is in memory are numbers.
LEMMA Lengths ==
    ASSUME TypeOK
    PROVE  /\ Held \in Nat
           /\ Taken("loop") \in Nat /\ Taken("old") \in Nat /\ Taken("close") \in Nat
           /\ \A f \in Flushers : Taken(f) \in Nat
BY LenProperties DEF TypeOK, Held, Taken, Flushers

\* The flush of f is over: its batch is gone, the others stay.
LEMMA FlushEnds ==
    ASSUME TypeOK, NEW f \in Flushers, EndFlush(f)
    PROVE  /\ batch'[f] = <<>> /\ ~committed'[f]
           /\ \A g \in Flushers \ {f} : batch'[g] = batch[g] /\ committed'[g] = committed[g]
           /\ pc' = IF f = "close" THEN "finalise" ELSE pc
           /\ UNCHANGED <<emitted, loop, stored, result, status, closedAt, cut>>
BY DEF EndFlush, TypeOK

\* A failed save loses nothing while it is one of few and the buffer has room.
LEMMA FailedSaveKeeps ==
    ASSUME TypeOK, Kept, NEW f \in Flushers, RecordFailure(f), CountRefusal, EndFlush(f)
    PROVE  Kept'
<1>1. /\ batch'[f] = <<>> /\ ~committed'[f] /\ Len(<<>>) = 0 /\ ToSet(<<>>) = {}
      /\ \A g \in Flushers \ {f} : batch'[g] = batch[g] /\ committed'[g] = committed[g]
      /\ UNCHANGED <<emitted, stored, cut>>
  BY FlushEnds, EmptyHolds
<1>0. emitted' = emitted
  BY <1>1
<1>2. /\ Held' <= Taken(f) + Held /\ Held' \in Nat
      /\ failures' <= failures + 1 /\ failures' \in 0..(MaxFlushAttempts - 1)
      /\ failures + 1 < MaxFlushAttempts /\ Taken(f) + Held <= MaxBufferSize
             => ToSet(buffer') = ToSet(batch[f]) \cup ToSet(buffer)
  BY FailureKeeps, LenProperties DEF Held, Taken
<1>3. /\ Held \in Nat /\ Taken("loop") \in Nat /\ Taken("old") \in Nat
      /\ Taken("close") \in Nat /\ emitted \in Nat /\ refused \in 0..MaxFlushAttempts
      /\ failures \in 0..(MaxFlushAttempts - 1) /\ MaxFlushAttempts \in Nat \ {0} /\ MaxBufferSize \in Nat
  BY Lengths, EventAssumption DEF TypeOK, Flushers
<1>4. refused' = IF refused < MaxFlushAttempts THEN refused + 1 ELSE refused
  BY DEF CountRefusal
<1>5. Held + Taken("loop") + Taken("old") + Taken("close") <= emitted
  BY DEF Kept
<1>6. \A g \in Flushers : committed'[g] => ToSet(batch'[g]) \subseteq ToSet(stored')
  BY <1>1 DEF Kept
<1>7. failures' <= refused'
  BY <1>2, <1>3, <1>4 DEF Kept
<1>8. f = "loop" \/ f = "old" \/ f = "close"
  BY DEF Flushers
<1>9. Held' + Taken("loop")' + Taken("old")' + Taken("close")' <= emitted'
  <2>1. CASE f = "loop"
    <3>1. Taken("loop")' = 0 /\ Taken("old")' = Taken("old") /\ Taken("close")' = Taken("close")
      BY <1>1, <2>1 DEF Flushers, Taken
    <3>2. Held' <= Taken("loop") + Held
      BY <1>2, <2>1
    <3> QED BY <3>1, <3>2, <1>0, <1>2, <1>3, <1>5
  <2>2. CASE f = "old"
    <3>1. Taken("old")' = 0 /\ Taken("loop")' = Taken("loop") /\ Taken("close")' = Taken("close")
      BY <1>1, <2>2 DEF Flushers, Taken
    <3>2. Held' <= Taken("old") + Held
      BY <1>2, <2>2
    <3> QED BY <3>1, <3>2, <1>0, <1>2, <1>3, <1>5
  <2>3. CASE f = "close"
    <3>1. Taken("close")' = 0 /\ Taken("loop")' = Taken("loop") /\ Taken("old")' = Taken("old")
      BY <1>1, <2>3 DEF Flushers, Taken
    <3>2. Held' <= Taken("close") + Held
      BY <1>2, <2>3
    <3> QED BY <3>1, <3>2, <1>0, <1>2, <1>3, <1>5
  <2> QED BY <1>8, <2>1, <2>2, <2>3
<1>10. ASSUME Lossless' PROVE 1..emitted' \subseteq InMemory' \cup ToSet(stored') \cup cut'
  <2>1. refused + 1 < MaxFlushAttempts /\ emitted <= MaxBufferSize
    BY <1>1, <1>3, <1>4, <1>10 DEF Lossless
  <2>2. 1..emitted \subseteq InMemory \cup ToSet(stored) \cup cut
    BY <1>3, <2>1 DEF Kept, Lossless
  <2>3. failures + 1 < MaxFlushAttempts
    BY <1>3, <2>1 DEF Kept
  <2>4. Taken(f) + Held <= MaxBufferSize
    BY <1>3, <1>5, <1>8, <2>1
  <2>5. ToSet(buffer') = ToSet(batch[f]) \cup ToSet(buffer)
    BY <1>2, <2>3, <2>4
  <2>6. InMemory \subseteq InMemory'
    BY <1>1, <2>5 DEF InMemory
  <2> QED BY <1>1, <2>2, <2>6
<1> QED BY <1>6, <1>7, <1>9, <1>10 DEF Kept

\* Nothing is missing initially ...
LEMMA InitKept == Init => Kept
<1> SUFFICES ASSUME Init PROVE Kept
  OBVIOUS
<1>1. emitted = 0 /\ refused = 0 /\ failures = 0 /\ \A f \in Flushers : ~committed[f]
  BY DEF Init
<1>2. Held + Taken("loop") + Taken("old") + Taken("close") = 0
  <2>1. Held = 0 /\ Taken("loop") = 0 /\ Taken("old") = 0 /\ Taken("close") = 0
    BY EmptyHolds DEF Init, Flushers, Held, Taken
  <2> QED BY <2>1
<1> QED BY <1>1, <1>2 DEF Kept

\* ... and each step keeps what there is.
LEMMA KeptStep == TypeOK /\ Stage /\ Kept /\ [Next]_vars => Kept'
<1> SUFFICES ASSUME TypeOK, Stage, Kept, [Next]_vars PROVE Kept'
  OBVIOUS
<1>n. /\ Held \in Nat /\ Taken("loop") \in Nat /\ Taken("old") \in Nat
      /\ Taken("close") \in Nat /\ emitted \in Nat
  BY Lengths DEF TypeOK, Flushers
<1>e. Len(<<>>) = 0 /\ ToSet(<<>>) = {}
  BY EmptyHolds
<1>l. Held + Taken("loop") + Taken("old") + Taken("close") <= emitted
  BY DEF Kept
<1>b. "loop" \in Flushers /\ "old" \in Flushers /\ "close" \in Flushers
  BY DEF Flushers
<1>t. /\ batch \in [Flushers -> Seq(Events)] /\ committed \in [Flushers -> BOOLEAN]
      /\ buffer \in Seq(Events) /\ stored \in Seq(Events)
  BY DEF TypeOK
<1>u. ASSUME UNCHANGED <<emitted, buffer, batch, committed, failures, stored, refused, cut>>
      PROVE  Kept'
  BY <1>u DEF Kept, Lossless, InMemory, Held, Taken
<1> USE DEF collector, executor, troubles
<1>1. CASE RegisterRun
  BY <1>1, <1>u DEF RegisterRun
<1>2. ASSUME NEW r \in Results, Close(r) PROVE Kept'
  <2>1. /\ batch' = [batch EXCEPT !["old"] = batch["loop"], !["loop"] = <<>>, !["close"] = buffer]
        /\ committed' = [committed EXCEPT !["old"] = committed["loop"], !["loop"] = FALSE]
        /\ buffer' = <<>> /\ UNCHANGED <<emitted, failures, stored, refused, cut>>
        /\ batch["old"] = <<>> /\ batch["close"] = <<>> /\ ~committed["close"]
    BY <1>2, <1>b DEF Close, Stage, Closed
  <2>2. /\ batch'["old"] = batch["loop"] /\ batch'["loop"] = <<>> /\ batch'["close"] = buffer
        /\ committed'["old"] = committed["loop"] /\ ~committed'["loop"] /\ ~committed'["close"]
    BY <1>b, <1>t, <2>1
  <2>3. \A f \in Flushers : committed'[f] => ToSet(batch'[f]) \subseteq ToSet(stored')
    BY <2>1, <2>2 DEF Kept, Flushers
  <2>4. Held' + Taken("loop")' + Taken("old")' + Taken("close")' <= emitted'
    <3>1. /\ Held' = 0 /\ Taken("loop")' = 0
          /\ Taken("old")' = Taken("loop") /\ Taken("close")' = Held
      BY <1>e, <2>1, <2>2 DEF Held, Taken
    <3>2. emitted' = emitted
      BY <2>1
    <3> QED BY <1>n, <1>l, <3>1, <3>2
  <2>5. InMemory' = ToSet(buffer') \cup ToSet(batch'["loop"]) \cup ToSet(batch'["old"]) \cup ToSet(batch'["close"])
    BY DEF InMemory, Flushers
  <2>6. InMemory' = InMemory
    BY <1>e, <2>1, <2>2, <2>5, InMemoryIs
  <2> QED BY <2>1, <2>3, <2>4, <2>6 DEF Kept, Lossless
<1>3. CASE UpdateRunStatus
  BY <1>3, <1>u DEF UpdateRunStatus
<1>4. CASE Handle
  <2>1. /\ emitted' = emitted + 1 /\ buffer' = Append(buffer, emitted + 1) /\ emitted < MaxEvents
        /\ UNCHANGED <<batch, committed, failures, stored, refused, cut>>
    BY <1>4 DEF Handle
  <2>0. emitted + 1 \in Events
    BY <1>n, <2>1, EventAssumption DEF Events
  <2>2. Held' = Held + 1 /\ ToSet(buffer') = ToSet(buffer) \cup {emitted'}
    BY <1>t, <2>0, <2>1, AppendHolds DEF Held
  <2>3. InMemory' = InMemory \cup {emitted'}
    BY <2>1, <2>2 DEF InMemory
  <2>4. Lossless' => Lossless
    BY <1>n, <2>1, EventAssumption DEF Lossless
  <2>5. 1..emitted' = (1..emitted) \cup {emitted'}
    BY <1>n, <2>1
  <2>6. Held' + Taken("loop")' + Taken("old")' + Taken("close")' <= emitted'
    <3>1. /\ Taken("loop")' = Taken("loop") /\ Taken("old")' = Taken("old")
          /\ Taken("close")' = Taken("close")
      BY <2>1 DEF Taken
    <3>2. emitted' = emitted + 1
      BY <2>1
    <3> QED BY <1>n, <1>l, <2>2, <3>1, <3>2
  <2> QED BY <2>1, <2>3, <2>4, <2>5, <2>6 DEF Kept
<1>5. CASE PeriodicFlush
  <2>1. /\ batch' = [batch EXCEPT !["loop"] = buffer] /\ buffer' = <<>> /\ batch["loop"] = <<>>
        /\ UNCHANGED <<emitted, committed, failures, stored, refused, cut>>
    BY <1>5 DEF PeriodicFlush
  <2>2. /\ batch'["loop"] = buffer /\ batch'["old"] = batch["old"] /\ batch'["close"] = batch["close"]
        /\ ~committed["loop"]
    BY <1>b, <1>t, <2>1 DEF Stage
  <2>3. \A f \in Flushers : committed'[f] => ToSet(batch'[f]) \subseteq ToSet(stored')
    BY <2>1, <2>2 DEF Kept, Flushers
  <2>4. Held' + Taken("loop")' + Taken("old")' + Taken("close")' <= emitted'
    <3>1. /\ Held' = 0 /\ Taken("loop")' = Held
          /\ Taken("old")' = Taken("old") /\ Taken("close")' = Taken("close")
      BY <1>e, <2>1, <2>2 DEF Held, Taken
    <3>2. emitted' = emitted
      BY <2>1
    <3> QED BY <1>n, <1>l, <3>1, <3>2
  <2>5. InMemory' = ToSet(buffer') \cup ToSet(batch'["loop"]) \cup ToSet(batch'["old"]) \cup ToSet(batch'["close"])
    BY DEF InMemory, Flushers
  <2>6. InMemory' = InMemory
    BY <1>e, <2>1, <2>2, <2>5, InMemoryIs
  <2> QED BY <2>1, <2>3, <2>4, <2>6 DEF Kept, Lossless
<1>6. CASE CancelledTaskEnds
  <2>1. /\ batch' = [batch EXCEPT !["old"] = <<>>] /\ committed' = [committed EXCEPT !["old"] = FALSE]
        /\ cut' = IF committed["old"] THEN cut ELSE cut \cup ToSet(batch["old"])
        /\ UNCHANGED <<emitted, buffer, failures, stored, refused>>
    BY <1>6 DEF CancelledTaskEnds
  <2>2. /\ batch'["old"] = <<>> /\ batch'["loop"] = batch["loop"] /\ batch'["close"] = batch["close"]
        /\ \A f \in Flushers : committed'[f] => committed[f] /\ batch'[f] = batch[f]
    BY <1>b, <1>t, <2>1
  <2>3. ToSet(batch["old"]) \subseteq ToSet(stored) \cup cut' /\ cut \subseteq cut'
    BY <1>b, <2>1 DEF Kept
  <2>4. Held' + Taken("loop")' + Taken("old")' + Taken("close")' <= emitted'
    <3>1. /\ Held' = Held /\ Taken("loop")' = Taken("loop")
          /\ Taken("old")' = 0 /\ Taken("close")' = Taken("close")
      BY <1>e, <2>1, <2>2 DEF Held, Taken
    <3>2. emitted' = emitted
      BY <2>1
    <3> QED BY <1>n, <1>l, <3>1, <3>2
  <2>5. InMemory' = ToSet(buffer') \cup ToSet(batch'["loop"]) \cup ToSet(batch'["old"]) \cup ToSet(batch'["close"])
    BY DEF InMemory, Flushers
  <2>6. InMemory \cup ToSet(stored) \cup cut \subseteq InMemory' \cup ToSet(stored') \cup cut'
    BY <2>1, <2>2, <2>3, <2>5, InMemoryIs
  <2>7. \A f \in Flushers : committed'[f] => ToSet(batch'[f]) \subseteq ToSet(stored')
    BY <2>1, <2>2 DEF Kept
  <2>8. Lossless' = Lossless
    BY <2>1 DEF Lossless
  <2> QED BY <2>1, <2>4, <2>6, <2>7, <2>8 DEF Kept
<1>7. CASE FunctionCancelled
  BY <1>7, <1>u DEF FunctionCancelled
<1>8. CASE StatusWriteFails
  BY <1>8, <1>u DEF StatusWriteFails
<1>9. ASSUME NEW f \in Flushers, SaveFails(f) PROVE Kept'
  BY <1>9, FailedSaveKeeps DEF SaveFails
<1>10. ASSUME NEW f \in Flushers, Commit(f) PROVE Kept'
  <2>1. /\ stored' = stored \o batch[f] /\ committed' = [committed EXCEPT ![f] = TRUE]
        /\ UNCHANGED <<emitted, buffer, batch, failures, refused, cut>>
    BY <1>10 DEF Commit
  <2>2. ToSet(stored') = ToSet(stored) \cup ToSet(batch[f])
    BY <1>t, <2>1, ConcatHolds
  <2>3. \A g \in Flushers : committed'[g] => committed[g] \/ g = f
    BY <1>t, <2>1
  <2>4. \A g \in Flushers : committed'[g] => ToSet(batch[g]) \subseteq ToSet(stored')
    BY <2>2, <2>3 DEF Kept
  <2>5. InMemory' = InMemory /\ Lossless' = Lossless
    BY <2>1 DEF InMemory, Lossless
  <2>6. Held' = Held /\ \A g \in {"loop", "old", "close"} : Taken(g)' = Taken(g)
    BY <2>1 DEF Held, Taken
  <2>7. 1..emitted' = 1..emitted /\ ToSet(stored) \subseteq ToSet(stored') /\ cut' = cut
    BY <2>1, <2>2
  <2> QED BY <2>1, <2>4, <2>5, <2>6, <2>7 DEF Kept
<1>11. ASSUME NEW f \in Flushers, SaveReturns(f) PROVE Kept'
  <2>1. /\ batch'[f] = <<>> /\ ~committed'[f]
        /\ \A g \in Flushers \ {f} : batch'[g] = batch[g] /\ committed'[g] = committed[g]
        /\ UNCHANGED <<emitted, stored, cut>>
    BY <1>11, FlushEnds DEF SaveReturns
  <2>2. committed[f] /\ failures' = 0 /\ UNCHANGED <<buffer, refused>>
    BY <1>11 DEF SaveReturns
  <2>3. ToSet(batch[f]) \subseteq ToSet(stored)
    BY <2>2 DEF Kept
  <2>4. InMemory \subseteq InMemory' \cup ToSet(stored) /\ Lossless' = Lossless
    BY <2>1, <2>2, <2>3 DEF InMemory, Lossless
  <2>5. \A g \in Flushers : committed'[g] => ToSet(batch'[g]) \subseteq ToSet(stored')
    BY <2>1 DEF Kept
  <2>6. Held' + Taken("loop")' + Taken("old")' + Taken("close")' <= emitted'
    <3>1. f = "loop" \/ f = "old" \/ f = "close"
      BY DEF Flushers
    <3>2. \A g \in Flushers : Taken(g)' = IF g = f THEN 0 ELSE Taken(g)
      BY <1>e, <2>1 DEF Taken
    <3>3. Taken("loop")' <= Taken("loop") /\ Taken("old")' <= Taken("old") /\ Taken("close")' <= Taken("close")
      BY <1>n, <1>b, <3>2
    <3>4. Held' = Held /\ emitted' = emitted
      BY <2>1, <2>2 DEF Held
    <3>5. /\ Taken("loop")' \in Nat /\ Taken("old")' \in Nat /\ Taken("close")' \in Nat
      BY <1>n, <1>b, <3>2
    <3> QED BY <1>n, <1>l, <3>3, <3>4, <3>5
  <2>7. failures' <= refused'
    BY <2>2 DEF TypeOK
  <2> QED BY <2>1, <2>2, <2>4, <2>5, <2>6, <2>7 DEF Kept
<1>12. ASSUME NEW f \in Flushers, PoisonRefused(f) PROVE Kept'
  BY <1>12, FailedSaveKeeps DEF PoisonRefused
<1>13. CASE UNCHANGED vars
  BY <1>13, <1>u DEF vars
<1> QED
  BY <1>1, <1>2, <1>3, <1>4, <1>5, <1>6, <1>7, <1>8, <1>9, <1>10, <1>11, <1>12, <1>13
     DEF Next, Execute, Flush, Trouble

\* Nothing enters the buffer of a closed collector without a flush loop but the batch
\* of close() itself.
LEMMA StrandedStep == TypeOK /\ Stage /\ Stranded /\ [Next]_vars => Stranded'
<1> SUFFICES ASSUME TypeOK, Stage, Stranded, [Next]_vars PROVE Stranded'
  OBVIOUS
<1>e. ToSet(<<>>) = {}
  BY EmptyHolds
<1>f. ASSUME NEW f \in Flushers, f # "old", batch[f] # <<>>,
             RecordFailure(f), RecordStranded(f), EndFlush(f)
      PROVE  Stranded'
  <2>1. ToSet(buffer') \subseteq ToSet(batch[f]) \cup ToSet(buffer)
    BY <1>f, FailureKeeps
  <2>2. loop' = loop /\ pc' = IF f = "close" THEN "finalise" ELSE pc
    BY <1>f DEF EndFlush
  <2>3. CASE f = "close"
    <3>1. Closed
      BY <1>f, <2>3 DEF Stage, Closed
    <3> QED BY <1>f, <2>1, <2>2, <2>3, <3>1 DEF RecordStranded, Stranded
  <2>4. CASE f = "loop"
    BY <1>f, <2>2, <2>4 DEF Stage, Stranded
  <2> QED BY <1>f, <2>3, <2>4 DEF Flushers
<1>p. ASSUME NEW f \in Flushers, ToSet(batch[f]) \cap Poison # {} PROVE batch[f] # <<>>
  BY <1>p, <1>e
<1> USE DEF Stranded, Closed, collector, executor, troubles
<1>1. CASE RegisterRun
  BY <1>1 DEF RegisterRun
<1>2. ASSUME NEW r \in Results, Close(r) PROVE Stranded'
  BY <1>2, <1>e DEF Close
<1>3. CASE UpdateRunStatus
  BY <1>3 DEF UpdateRunStatus
<1>4. CASE Handle
  BY <1>4 DEF Handle
<1>5. CASE PeriodicFlush
  BY <1>5 DEF PeriodicFlush
<1>6. CASE CancelledTaskEnds
  BY <1>6 DEF CancelledTaskEnds
<1>7. CASE FunctionCancelled
  BY <1>7 DEF FunctionCancelled
<1>8. CASE StatusWriteFails
  BY <1>8, <1>e DEF StatusWriteFails, Stage
<1>9. ASSUME NEW f \in Flushers, SaveFails(f) PROVE Stranded'
  BY <1>9, <1>f DEF SaveFails
<1>10. ASSUME NEW f \in Flushers, Commit(f) PROVE Stranded'
  BY <1>10 DEF Commit
<1>11. ASSUME NEW f \in Flushers, SaveReturns(f) PROVE Stranded'
  BY <1>11 DEF SaveReturns, EndFlush, Stage
<1>12. ASSUME NEW f \in Flushers, PoisonRefused(f) PROVE Stranded'
  BY <1>12, <1>f, <1>p DEF PoisonRefused
<1>13. CASE UNCHANGED vars
  BY <1>13 DEF vars
<1> QED
  BY <1>1, <1>2, <1>3, <1>4, <1>5, <1>6, <1>7, <1>8, <1>9, <1>10, <1>11, <1>12, <1>13
     DEF Next, Execute, Flush, Trouble

\* For any number of events and any capacity: while fewer saves have failed than the
\* attempts flush makes, and the buffer has room for every event, every event is in
\* the table or will be saved, except those of a save that close() cancelled and
\* those of the failed flush that close() made itself.
THEOREM ShortOutageCorrect == Spec => []ShortOutageLosesNothing
<1>1. Kept /\ Stranded => ShortOutageLosesNothing
  <2> SUFFICES ASSUME Kept, Stranded, refused < MaxFlushAttempts, emitted <= MaxBufferSize,
                      NEW e \in Missing
               PROVE  e \in stranded
    BY DEF ShortOutageLosesNothing
  <2>1. e \notin Pending /\ e \in InMemory
    BY DEF Kept, Lossless, Missing
  <2>2. e \in ToSet(buffer)
    BY <2>1 DEF Pending, InMemory
  <2>3. Closed /\ ~loop
    BY <2>1, <2>2 DEF Pending
  <2> QED BY <2>2, <2>3 DEF Stranded
<1>2. Init => Stranded
  BY DEF Init, Stranded, Closed
<1> QED
  BY <1>1, <1>2, InitTypeOK, TypeStep, StageStep, InitKept, KeptStep, StrandedStep, PTL DEF Spec

----------------------------------------------------------------------------
(* What a final status means.                                              *)

\* A step that opens or closes nothing and takes no event away keeps the account.
LEMMA SettledKept ==
    ASSUME Settled, Closed' => Closed, closedAt' = closedAt, refused' = 0 => refused = 0,
           ToSet(stored) \cup ToSet(batch["old"]) \cup ToSet(batch["close"]) \cup cut
               \subseteq ToSet(stored') \cup ToSet(batch'["old"]) \cup ToSet(batch'["close"]) \cup cut'
    PROVE  Settled'
BY DEF Settled

\* Where events have gone is kept in every step.
LEMMA SettledStep == TypeOK /\ Stage /\ Kept /\ Settled /\ [Next]_vars => Settled'
<1> SUFFICES ASSUME TypeOK, Stage, Kept, Settled, [Next]_vars PROVE Settled'
  OBVIOUS
<1>b. "loop" \in Flushers /\ "old" \in Flushers /\ "close" \in Flushers
  BY DEF Flushers
<1>t. /\ batch \in [Flushers -> Seq(Events)] /\ committed \in [Flushers -> BOOLEAN]
      /\ buffer \in Seq(Events) /\ stored \in Seq(Events)
      /\ refused \in 0..MaxFlushAttempts /\ MaxFlushAttempts \in Nat \ {0}
  BY EventAssumption DEF TypeOK
<1>e. ToSet(<<>>) = {}
  BY EmptyHolds
<1>r. CountRefusal => refused' # 0
  BY <1>t DEF CountRefusal
<1> USE DEF collector, executor, troubles
<1>1. CASE RegisterRun
  BY <1>1 DEF RegisterRun, Settled, Closed
<1>2. ASSUME NEW r \in Results, Close(r) PROVE Settled'
  <2>1. /\ batch'["old"] = batch["loop"] /\ batch'["close"] = buffer /\ closedAt' = emitted
        /\ UNCHANGED <<stored, refused, cut>> /\ batch["old"] = <<>> /\ batch["close"] = <<>>
    BY <1>2, <1>b, <1>t DEF Close, Stage, Closed
  <2>2. refused = 0 => 1..emitted \subseteq InMemory \cup ToSet(stored) \cup cut
    BY DEF Kept, Lossless
  <2>3. refused = 0 => 1..emitted \subseteq ToSet(buffer) \cup ToSet(batch["loop"]) \cup ToSet(stored) \cup cut
    BY <1>e, <2>1, <2>2, InMemoryIs
  <2> QED BY <2>1, <2>3 DEF Settled
<1>3. CASE UpdateRunStatus
  BY <1>3, SettledKept DEF UpdateRunStatus, Closed
<1>4. CASE Handle
  BY <1>4, SettledKept DEF Handle, Closed
<1>5. CASE PeriodicFlush
  <2>1. /\ batch'["old"] = batch["old"] /\ batch'["close"] = batch["close"]
        /\ UNCHANGED <<stored, refused, cut, pc, closedAt>>
    BY <1>5, <1>b, <1>t DEF PeriodicFlush
  <2> QED BY <2>1, SettledKept DEF Closed
<1>6. CASE CancelledTaskEnds
  <2>1. /\ batch'["close"] = batch["close"] /\ UNCHANGED <<stored, refused, pc, closedAt>>
        /\ cut' = IF committed["old"] THEN cut ELSE cut \cup ToSet(batch["old"])
    BY <1>6, <1>b, <1>t DEF CancelledTaskEnds
  <2>2. ToSet(batch["old"]) \subseteq ToSet(stored) \cup cut' /\ cut \subseteq cut'
    BY <1>b, <2>1 DEF Kept
  <2> QED BY <2>1, <2>2, SettledKept DEF Closed
<1>7. CASE FunctionCancelled
  BY <1>7 DEF FunctionCancelled, Settled, Closed
<1>8. CASE StatusWriteFails
  <2>1. CASE Closed
    BY <1>8, <2>1, SettledKept DEF StatusWriteFails
  <2>2. CASE ~Closed
    <3>1. closedAt' = 0
      BY <1>8, <2>2 DEF StatusWriteFails, Stage
    <3>2. 1..closedAt' = {}
      BY <3>1
    <3> QED BY <3>2 DEF Settled
  <2> QED BY <2>1, <2>2
<1>9. ASSUME NEW f \in Flushers, SaveFails(f) PROVE Settled'
  BY <1>9, <1>r DEF SaveFails, EndFlush, CountRefusal, Settled
<1>10. ASSUME NEW f \in Flushers, Commit(f) PROVE Settled'
  <2>1. stored' = stored \o batch[f] /\ UNCHANGED <<batch, refused, cut, pc, closedAt>>
    BY <1>10 DEF Commit
  <2>2. ToSet(stored) \subseteq ToSet(stored')
    BY <1>t, <2>1, ConcatHolds
  <2> QED BY <2>1, <2>2, SettledKept DEF Closed
<1>11. ASSUME NEW f \in Flushers, SaveReturns(f) PROVE Settled'
  <2>1. /\ committed[f] /\ refused' = refused /\ EndFlush(f)
    BY <1>11 DEF SaveReturns
  <2>2. /\ \A g \in Flushers \ {f} : batch'[g] = batch[g]
        /\ pc' = IF f = "close" THEN "finalise" ELSE pc
        /\ UNCHANGED <<stored, closedAt, cut>>
    BY <2>1, FlushEnds
  <2>3. ToSet(batch[f]) \subseteq ToSet(stored) /\ batch[f] # <<>>
    BY <2>1 DEF Kept, Stage
  <2>4. Closed' => Closed
    BY <2>2, <2>3 DEF Stage, Closed
  <2>5. /\ ToSet(batch["old"]) \subseteq ToSet(stored) \cup ToSet(batch'["old"])
        /\ ToSet(batch["close"]) \subseteq ToSet(stored) \cup ToSet(batch'["close"])
    BY <1>b, <2>2, <2>3
  <2> QED BY <2>1, <2>2, <2>4, <2>5, SettledKept
<1>12. ASSUME NEW f \in Flushers, PoisonRefused(f) PROVE Settled'
  BY <1>12, <1>r DEF PoisonRefused, EndFlush, CountRefusal, Settled
<1>13. CASE UNCHANGED vars
  BY <1>13, SettledKept DEF vars, Closed
<1> QED
  BY <1>1, <1>2, <1>3, <1>4, <1>5, <1>6, <1>7, <1>8, <1>9, <1>10, <1>11, <1>12, <1>13
     DEF Next, Execute, Flush, Trouble

\* For any number of events: when no save failed, a reader who sees a final status
\* finds every event emitted before close() in the table, or in the save that
\* close() cancelled.
THEOREM FinalStatusCorrect == Spec => []FinalStatusMeansSettled
<1>1. Init => Settled
  BY DEF Init, Settled, Closed
<1>2. Stage /\ Settled => FinalStatusMeansSettled
  BY EmptyHolds DEF Stage, Settled, Closed, FinalStatusMeansSettled
<1> QED
  BY <1>1, <1>2, InitTypeOK, TypeStep, StageStep, InitKept, KeptStep, SettledStep, PTL DEF Spec

----------------------------------------------------------------------------
(* Nothing is invented and nothing is there twice.                         *)

\* A step that only moves events about, or drops some, invents none.
LEMMA EmittedKept ==
    ASSUME Emitted, emitted' = emitted, NEW f \in Flushers,
           ToSet(stored') \subseteq ToSet(stored) \cup ToSet(batch[f]),
           ToSet(buffer') \subseteq ToSet(buffer) \cup ToSet(batch[f]),
           \A g \in Flushers : ToSet(batch'[g]) \subseteq InMemory
    PROVE  Emitted'
<1>1. ToSet(buffer) \subseteq InMemory /\ ToSet(batch[f]) \subseteq InMemory
  BY DEF InMemory
<1>2. InMemory' \subseteq InMemory \cup ToSet(stored)
  BY <1>1 DEF InMemory
<1> QED BY <1>1, <1>2 DEF Emitted

\* No step brings in an event from nowhere.
LEMMA EmittedStep == TypeOK /\ Stage /\ Emitted /\ [Next]_vars => Emitted'
<1> SUFFICES ASSUME TypeOK, Stage, Emitted, [Next]_vars PROVE Emitted'
  OBVIOUS
<1>b. "loop" \in Flushers /\ "old" \in Flushers /\ "close" \in Flushers
  BY DEF Flushers
<1>t. /\ batch \in [Flushers -> Seq(Events)] /\ buffer \in Seq(Events) /\ stored \in Seq(Events)
      /\ emitted \in Nat
  BY DEF TypeOK
<1>e. ToSet(<<>>) = {}
  BY EmptyHolds
<1>p. ToSet(buffer) \subseteq InMemory /\ \A g \in Flushers : ToSet(batch[g]) \subseteq InMemory
  BY DEF InMemory
<1>u. ASSUME UNCHANGED <<emitted, buffer, batch, stored>> PROVE Emitted'
  BY <1>u DEF Emitted, InMemory
<1>f. ASSUME NEW f \in Flushers, RecordFailure(f), EndFlush(f) PROVE Emitted'
  <2>1. ToSet(buffer') \subseteq ToSet(buffer) \cup ToSet(batch[f])
    BY <1>f, FailureKeeps
  <2>2. /\ batch'[f] = <<>> /\ \A g \in Flushers \ {f} : batch'[g] = batch[g]
        /\ UNCHANGED <<emitted, stored>>
    BY <1>f, FlushEnds
  <2>3. \A g \in Flushers : ToSet(batch'[g]) \subseteq InMemory
    BY <1>e, <1>p, <2>2
  <2> QED BY <2>1, <2>2, <2>3, EmittedKept
<1> USE DEF collector, executor, troubles
<1>1. CASE RegisterRun
  BY <1>1, <1>u DEF RegisterRun
<1>2. ASSUME NEW r \in Results, Close(r) PROVE Emitted'
  <2>1. /\ batch' = [batch EXCEPT !["old"] = batch["loop"], !["loop"] = <<>>, !["close"] = buffer]
        /\ buffer' = <<>> /\ UNCHANGED <<emitted, stored>>
    BY <1>2 DEF Close
  <2>2. \A g \in Flushers : batch'[g] \in {batch["loop"], <<>>, buffer}
    BY <1>b, <1>t, <2>1 DEF Flushers
  <2>3. \A g \in Flushers : ToSet(batch'[g]) \subseteq InMemory
    BY <1>b, <1>e, <1>p, <2>2
  <2> QED BY <1>b, <1>e, <2>1, <2>3, EmittedKept
<1>3. CASE UpdateRunStatus
  BY <1>3, <1>u DEF UpdateRunStatus
<1>4. CASE Handle
  <2>1. /\ emitted' = emitted + 1 /\ buffer' = Append(buffer, emitted + 1) /\ emitted < MaxEvents
        /\ UNCHANGED <<batch, stored>>
    BY <1>4 DEF Handle
  <2>2. emitted + 1 \in Events
    BY <1>t, <2>1, EventAssumption DEF Events
  <2>3. ToSet(buffer') = ToSet(buffer) \cup {emitted + 1}
    BY <1>t, <2>1, <2>2, AppendHolds
  <2>4. InMemory' = InMemory \cup {emitted + 1}
    BY <2>1, <2>3 DEF InMemory
  <2>5. 1..emitted' = (1..emitted) \cup {emitted + 1}
    BY <1>t, <2>1
  <2> QED BY <2>1, <2>4, <2>5 DEF Emitted
<1>5. CASE PeriodicFlush
  <2>1. /\ batch' = [batch EXCEPT !["loop"] = buffer] /\ buffer' = <<>> /\ UNCHANGED <<emitted, stored>>
    BY <1>5 DEF PeriodicFlush
  <2>2. \A g \in Flushers : batch'[g] \in {batch[g], buffer}
    BY <1>b, <1>t, <2>1
  <2>3. \A g \in Flushers : ToSet(batch'[g]) \subseteq InMemory
    BY <1>p, <2>2
  <2> QED BY <1>b, <1>e, <2>1, <2>3, EmittedKept
<1>6. CASE CancelledTaskEnds
  <2>1. batch' = [batch EXCEPT !["old"] = <<>>] /\ UNCHANGED <<emitted, buffer, stored>>
    BY <1>6 DEF CancelledTaskEnds
  <2>2. \A g \in Flushers : batch'[g] \in {batch[g], <<>>}
    BY <1>b, <1>t, <2>1
  <2>3. \A g \in Flushers : ToSet(batch'[g]) \subseteq InMemory
    BY <1>e, <1>p, <2>2
  <2> QED BY <1>b, <2>1, <2>3, EmittedKept
<1>7. CASE FunctionCancelled
  BY <1>7, <1>u DEF FunctionCancelled
<1>8. CASE StatusWriteFails
  BY <1>8, <1>u DEF StatusWriteFails
<1>9. ASSUME NEW f \in Flushers, SaveFails(f) PROVE Emitted'
  BY <1>9, <1>f DEF SaveFails
<1>10. ASSUME NEW f \in Flushers, Commit(f) PROVE Emitted'
  <2>1. stored' = stored \o batch[f] /\ UNCHANGED <<emitted, buffer, batch>>
    BY <1>10 DEF Commit
  <2>2. ToSet(stored') = ToSet(stored) \cup ToSet(batch[f])
    BY <1>t, <2>1, ConcatHolds
  <2> QED BY <1>p, <2>1, <2>2, EmittedKept
<1>11. ASSUME NEW f \in Flushers, SaveReturns(f) PROVE Emitted'
  <2>1. /\ batch'[f] = <<>> /\ \A g \in Flushers \ {f} : batch'[g] = batch[g]
        /\ UNCHANGED <<emitted, stored>>
    BY <1>11, FlushEnds DEF SaveReturns
  <2>2. buffer' = buffer
    BY <1>11 DEF SaveReturns
  <2>3. \A g \in Flushers : ToSet(batch'[g]) \subseteq InMemory
    BY <1>e, <1>p, <2>1
  <2> QED BY <2>1, <2>2, <2>3, EmittedKept
<1>12. ASSUME NEW f \in Flushers, PoisonRefused(f) PROVE Emitted'
  BY <1>12, <1>f DEF PoisonRefused
<1>13. CASE UNCHANGED vars
  BY <1>13, <1>u DEF vars
<1> QED
  BY <1>1, <1>2, <1>3, <1>4, <1>5, <1>6, <1>7, <1>8, <1>9, <1>10, <1>11, <1>12, <1>13
     DEF Next, Execute, Flush, Trouble

\* An uncommitted batch that is put back, or dropped, meets no copy of itself.
LEMMA FailedSaveApart ==
    ASSUME TypeOK, Apart, NEW f \in Flushers, ~committed[f], RecordFailure(f), EndFlush(f)
    PROVE  Apart'
<1>1. /\ batch'[f] = <<>> /\ ToSet(<<>>) = {} /\ IsInjective(<<>>)
      /\ \A g \in Flushers \ {f} : batch'[g] = batch[g] /\ committed'[g] = committed[g]
      /\ UNCHANGED stored
  BY FlushEnds, EmptyHolds
<1>2. Live(f) = ToSet(batch[f])
  BY DEF Live
<1>3. IsInjective(buffer') /\ ToSet(buffer') \subseteq Live(f) \cup ToSet(buffer)
  BY <1>2, FailureKeeps DEF Apart
<1>4. Live(f)' = {} /\ \A g \in Flushers \ {f} : Live(g)' = Live(g)
  BY <1>1 DEF Live
<1>5. \A g \in Flushers : IsInjective(batch'[g])
  BY <1>1 DEF Apart
<1>6. \A g \in Flushers : Live(g)' \cap (ToSet(stored) \cup ToSet(buffer')) = {}
  BY <1>3, <1>4 DEF Apart
<1>7. \A g, h \in Flushers : g # h => Live(g)' \cap Live(h)' = {}
  BY <1>4 DEF Apart
<1>8. ToSet(stored) \cap ToSet(buffer') = {}
  BY <1>3 DEF Apart
<1> QED BY <1>1, <1>3, <1>5, <1>6, <1>7, <1>8 DEF Apart

\* No event is in two places after any step.
LEMMA DistinctStep == TypeOK /\ Stage /\ Emitted /\ Distinct /\ [Next]_vars => Distinct'
<1> SUFFICES ASSUME TypeOK, Stage, Emitted, Distinct, [Next]_vars PROVE Distinct'
  OBVIOUS
<1>b. "loop" \in Flushers /\ "old" \in Flushers /\ "close" \in Flushers
  BY DEF Flushers
<1>t. /\ batch \in [Flushers -> Seq(Events)] /\ committed \in [Flushers -> BOOLEAN]
      /\ buffer \in Seq(Events) /\ stored \in Seq(Events) /\ emitted \in Nat
  BY DEF TypeOK
<1>e. ToSet(<<>>) = {} /\ IsInjective(<<>>)
  BY EmptyHolds
<1>u. ASSUME UNCHANGED <<buffer, batch, committed, stored, ambiguous>> PROVE Distinct'
  BY <1>u DEF Distinct, Apart, Live
<1> USE DEF collector, executor, troubles
<1>1. CASE RegisterRun
  BY <1>1, <1>u DEF RegisterRun
<1>2. ASSUME NEW r \in Results, Close(r) PROVE Distinct'
  <2>1. /\ batch' = [batch EXCEPT !["old"] = batch["loop"], !["loop"] = <<>>, !["close"] = buffer]
        /\ committed' = [committed EXCEPT !["old"] = committed["loop"], !["loop"] = FALSE]
        /\ buffer' = <<>> /\ UNCHANGED <<stored, ambiguous>> /\ ~committed["close"]
    BY <1>2, <1>b DEF Close, Stage
  <2> SUFFICES ASSUME Apart PROVE Apart'
    BY <2>1 DEF Distinct
  <2>2. /\ batch'["old"] = batch["loop"] /\ batch'["loop"] = <<>> /\ batch'["close"] = buffer
        /\ committed'["old"] = committed["loop"] /\ ~committed'["close"]
    BY <1>b, <1>t, <2>1
  <2>3. Live("old")' = Live("loop") /\ Live("loop")' = {} /\ Live("close")' = ToSet(buffer)
    BY <1>e, <2>2 DEF Live
  <2>4. \A g \in Flushers : IsInjective(batch'[g])
    BY <1>b, <1>e, <2>2 DEF Apart, Flushers
  <2>5. \A g \in Flushers : Live(g)' \cap ToSet(stored) = {}
    BY <1>b, <2>3 DEF Apart, Flushers
  <2>6. \A g, h \in Flushers : g # h => Live(g)' \cap Live(h)' = {}
    BY <1>b, <2>3 DEF Apart, Flushers
  <2> QED BY <1>e, <2>1, <2>4, <2>5, <2>6 DEF Apart
<1>3. CASE UpdateRunStatus
  BY <1>3, <1>u DEF UpdateRunStatus
<1>4. CASE Handle
  <2>1. /\ buffer' = Append(buffer, emitted + 1) /\ emitted < MaxEvents
        /\ UNCHANGED <<batch, committed, stored, ambiguous>>
    BY <1>4 DEF Handle
  <2> SUFFICES ASSUME Apart PROVE Apart'
    BY <2>1 DEF Distinct
  <2>2. emitted + 1 \in Events /\ emitted + 1 \notin 1..emitted
    BY <1>t, <2>1, EventAssumption DEF Events
  <2>3. emitted + 1 \notin ToSet(buffer) /\ emitted + 1 \notin ToSet(stored)
    BY <2>2 DEF Emitted, InMemory
  <2>4. \A g \in Flushers : emitted + 1 \notin Live(g) /\ Live(g)' = Live(g)
    BY <2>1, <2>2 DEF Emitted, InMemory, Live
  <2>5. IsInjective(buffer') /\ ToSet(buffer') = ToSet(buffer) \cup {emitted + 1}
    BY <1>t, <2>1, <2>2, <2>3, AppendHolds DEF Apart
  <2> QED BY <2>1, <2>3, <2>4, <2>5 DEF Apart
<1>5. CASE PeriodicFlush
  <2>1. /\ batch' = [batch EXCEPT !["loop"] = buffer] /\ buffer' = <<>> /\ batch["loop"] = <<>>
        /\ UNCHANGED <<committed, stored, ambiguous>>
    BY <1>5 DEF PeriodicFlush
  <2> SUFFICES ASSUME Apart PROVE Apart'
    BY <2>1 DEF Distinct
  <2>2. /\ batch'["loop"] = buffer /\ ~committed'["loop"]
        /\ \A g \in Flushers \ {"loop"} : batch'[g] = batch[g]
    BY <1>b, <1>t, <2>1 DEF Stage
  <2>3. Live("loop")' = ToSet(buffer) /\ \A g \in Flushers \ {"loop"} : Live(g)' = Live(g)
    BY <1>b, <2>1, <2>2 DEF Live
  <2>4. \A g \in Flushers : IsInjective(batch'[g])
    BY <2>2 DEF Apart
  <2>5. \A g \in Flushers : Live(g)' \cap ToSet(stored) = {}
    BY <2>3 DEF Apart
  <2>6. \A g, h \in Flushers : g # h => Live(g)' \cap Live(h)' = {}
    BY <2>3 DEF Apart
  <2> QED BY <1>e, <2>1, <2>4, <2>5, <2>6 DEF Apart
<1>6. CASE CancelledTaskEnds
  <2>1. /\ batch' = [batch EXCEPT !["old"] = <<>>] /\ committed' = [committed EXCEPT !["old"] = FALSE]
        /\ UNCHANGED <<buffer, stored, ambiguous>>
    BY <1>6 DEF CancelledTaskEnds
  <2> SUFFICES ASSUME Apart PROVE Apart'
    BY <2>1 DEF Distinct
  <2>2. /\ batch'["old"] = <<>>
        /\ \A g \in Flushers \ {"old"} : batch'[g] = batch[g] /\ committed'[g] = committed[g]
    BY <1>b, <1>t, <2>1
  <2>3. Live("old")' = {} /\ \A g \in Flushers \ {"old"} : Live(g)' = Live(g)
    BY <1>e, <2>2 DEF Live
  <2>4. \A g \in Flushers : IsInjective(batch'[g])
    BY <1>e, <2>2 DEF Apart
  <2> QED BY <2>1, <2>3, <2>4 DEF Apart
<1>7. CASE FunctionCancelled
  BY <1>7, <1>u DEF FunctionCancelled
<1>8. CASE StatusWriteFails
  BY <1>8, <1>u DEF StatusWriteFails
<1>9. ASSUME NEW f \in Flushers, SaveFails(f) PROVE Distinct'
  <2>1. RecordFailure(f) /\ EndFlush(f) /\ ambiguous' = (ambiguous \/ committed[f])
    BY <1>9 DEF SaveFails
  <2> QED BY <2>1, FailedSaveApart DEF Distinct
<1>10. ASSUME NEW f \in Flushers, Commit(f) PROVE Distinct'
  <2>1. /\ stored' = stored \o batch[f] /\ committed' = [committed EXCEPT ![f] = TRUE] /\ ~committed[f]
        /\ UNCHANGED <<buffer, batch, ambiguous>>
    BY <1>10 DEF Commit
  <2> SUFFICES ASSUME Apart PROVE Apart'
    BY <2>1 DEF Distinct
  <2>2. committed'[f] /\ \A g \in Flushers \ {f} : committed'[g] = committed[g]
    BY <1>t, <2>1
  <2>3. /\ Live(f)' = {} /\ Live(f) = ToSet(batch[f])
        /\ \A g \in Flushers \ {f} : Live(g)' = Live(g)
    BY <2>1, <2>2 DEF Live
  <2>4. ToSet(stored) \cap ToSet(batch[f]) = {}
    BY <2>3 DEF Apart
  <2>5. IsInjective(stored') /\ ToSet(stored') = ToSet(stored) \cup Live(f)
    BY <1>t, <2>1, <2>3, <2>4, ConcatHolds, ConcatInjective DEF Apart
  <2>6. \A g \in Flushers : Live(g)' \cap (ToSet(stored') \cup ToSet(buffer)) = {}
    BY <2>3, <2>5 DEF Apart
  <2>7. \A g, h \in Flushers : g # h => Live(g)' \cap Live(h)' = {}
    BY <2>3 DEF Apart
  <2>8. ToSet(stored') \cap ToSet(buffer) = {}
    BY <2>5 DEF Apart
  <2> QED BY <2>1, <2>5, <2>6, <2>7, <2>8 DEF Apart
<1>11. ASSUME NEW f \in Flushers, SaveReturns(f) PROVE Distinct'
  <2>1. UNCHANGED <<buffer, ambiguous>> /\ EndFlush(f)
    BY <1>11 DEF SaveReturns
  <2> SUFFICES ASSUME Apart PROVE Apart'
    BY <2>1 DEF Distinct
  <2>2. /\ batch'[f] = <<>> /\ stored' = stored
        /\ \A g \in Flushers \ {f} : batch'[g] = batch[g] /\ committed'[g] = committed[g]
    BY <2>1, FlushEnds
  <2>3. Live(f)' = {} /\ \A g \in Flushers \ {f} : Live(g)' = Live(g)
    BY <1>e, <2>2 DEF Live
  <2>4. \A g \in Flushers : IsInjective(batch'[g])
    BY <1>e, <2>2 DEF Apart
  <2> QED BY <2>1, <2>2, <2>3, <2>4 DEF Apart
<1>12. ASSUME NEW f \in Flushers, PoisonRefused(f) PROVE Distinct'
  <2>1. RecordFailure(f) /\ EndFlush(f) /\ ambiguous' = ambiguous /\ ~committed[f]
    BY <1>12 DEF PoisonRefused, Stage
  <2> QED BY <2>1, FailedSaveApart DEF Distinct
<1>13. CASE UNCHANGED vars
  BY <1>13, <1>u DEF vars
<1> QED
  BY <1>1, <1>2, <1>3, <1>4, <1>5, <1>6, <1>7, <1>8, <1>9, <1>10, <1>11, <1>12, <1>13
     DEF Next, Execute, Flush, Trouble

\* For any number of events: no event is twice in the table, nor in the table and
\* about to be saved, unless a committed save was reported as failed.
THEOREM StoredOnceCorrect == Spec => []NoEventStoredTwice
<1>1. Init => Emitted /\ Distinct
  BY EmptyHolds DEF Init, Emitted, Distinct, Apart, Live, InMemory, Flushers
<1>2. Distinct => NoEventStoredTwice
  BY DEF Distinct, Apart, Live, NoEventStoredTwice
<1> QED
  BY <1>1, <1>2, InitTypeOK, TypeStep, StageStep, EmittedStep, DistinctStep, PTL DEF Spec

----------------------------------------------------------------------------
(* The order of the table.                                                 *)

\* Table, batch and buffer stay in emission order in every step.
LEMMA OrderedStep == TypeOK /\ Stage /\ Emitted /\ Ordered /\ [Next]_vars => Ordered'
<1> SUFFICES ASSUME TypeOK, Stage, Emitted, Ordered, [Next]_vars PROVE Ordered'
  OBVIOUS
<1>b. "loop" \in Flushers /\ "old" \in Flushers /\ "close" \in Flushers
  BY DEF Flushers
<1>t. /\ batch \in [Flushers -> Seq(Events)] /\ committed \in [Flushers -> BOOLEAN]
      /\ buffer \in Seq(Events) /\ stored \in Seq(Events) /\ emitted \in Nat
  BY DEF TypeOK
<1>e. ToSet(<<>>) = {} /\ Increasing(<<>>)
  BY EmptyHolds
<1>o. ~Closed => batch["old"] = <<>> /\ batch["close"] = <<>>
  BY DEF Stage, Closed
<1>u. ASSUME UNCHANGED <<buffer, batch, committed, stored, ambiguous>>, ~Closed' => ~Closed PROVE Ordered'
  BY <1>u DEF Ordered, Live
<1>f. ASSUME NEW f \in Flushers, f # "old", RecordFailure(f), EndFlush(f),
             ~ambiguous' => ~ambiguous /\ ~committed[f]
      PROVE  Ordered'
  <2> SUFFICES ASSUME ~Closed', ~ambiguous' PROVE Ordered'
    BY DEF Ordered
  <2>1. /\ batch'[f] = <<>> /\ UNCHANGED stored
        /\ pc' = IF f = "close" THEN "finalise" ELSE pc
    BY <1>f, FlushEnds
  <2>2. f = "loop" /\ ~Closed /\ ~ambiguous /\ ~committed["loop"]
    BY <1>f, <2>1 DEF Closed, Flushers
  <2>3. /\ Increasing(buffer') /\ ToSet(buffer') \subseteq ToSet(batch["loop"]) \cup ToSet(buffer)
    BY <1>f, <2>2, FailureKeeps DEF Ordered
  <2>4. Before(ToSet(stored), ToSet(buffer'))
    BY <2>2, <2>3 DEF Ordered, Before, Live
  <2>5. Increasing(stored)
    BY <2>2 DEF Ordered
  <2>6. Live("loop")' = {}
    BY <1>e, <2>1, <2>2 DEF Live
  <2> QED BY <1>e, <2>1, <2>2, <2>3, <2>4, <2>5, <2>6 DEF Ordered, Before
<1> USE DEF collector, executor, troubles
<1>1. CASE RegisterRun
  BY <1>1, <1>u DEF RegisterRun, Closed
<1>2. ASSUME NEW r \in Results, Close(r) PROVE Ordered'
  BY <1>2 DEF Close, Ordered, Closed
<1>3. CASE UpdateRunStatus
  BY <1>3 DEF UpdateRunStatus, Ordered, Closed
<1>4. CASE Handle
  <2>1. /\ buffer' = Append(buffer, emitted + 1) /\ emitted < MaxEvents
        /\ UNCHANGED <<batch, committed, stored, ambiguous, pc>>
    BY <1>4 DEF Handle
  <2> SUFFICES ASSUME ~Closed, ~ambiguous PROVE Ordered'
    BY <2>1 DEF Ordered, Closed
  <2>2. emitted + 1 \in Events
    BY <1>t, <2>1, EventAssumption DEF Events
  <2>3. \A e \in 1..emitted : e < emitted + 1
    BY <1>t
  <2>4. \A e \in ToSet(buffer) \cup ToSet(stored) \cup ToSet(batch["loop"]) : e < emitted + 1
    BY <1>b, <2>3 DEF Emitted, InMemory
  <2>5. Increasing(buffer') /\ ToSet(buffer') = ToSet(buffer) \cup {emitted + 1}
    <3>1. Before(ToSet(buffer), {emitted + 1}) /\ Increasing(buffer)
      BY <2>4 DEF Before, Ordered
    <3> QED BY <1>t, <2>1, <2>2, <3>1, AppendHolds
  <2>6. Before(ToSet(stored), ToSet(buffer')) /\ Before(ToSet(batch["loop"]), ToSet(buffer'))
    BY <2>4, <2>5 DEF Before, Ordered
  <2>7. Live("loop")' = Live("loop")
    BY <2>1 DEF Live
  <2> QED BY <2>1, <2>5, <2>6, <2>7 DEF Ordered
<1>5. CASE PeriodicFlush
  <2>1. /\ batch' = [batch EXCEPT !["loop"] = buffer] /\ buffer' = <<>> /\ batch["loop"] = <<>>
        /\ UNCHANGED <<committed, stored, ambiguous, pc>>
    BY <1>5 DEF PeriodicFlush
  <2>2. batch'["loop"] = buffer
    BY <1>b, <1>t, <2>1
  <2>3. Live("loop")' \subseteq ToSet(buffer)
    BY <2>2 DEF Live
  <2> QED BY <1>e, <2>1, <2>2, <2>3 DEF Ordered, Before, Closed
<1>6. CASE CancelledTaskEnds
  <2>1. batch["old"] # <<>> /\ UNCHANGED pc
    BY <1>6 DEF CancelledTaskEnds
  <2> QED BY <1>o, <2>1 DEF Ordered, Closed
<1>7. CASE FunctionCancelled
  BY <1>7, <1>u DEF FunctionCancelled, Closed
<1>8. CASE StatusWriteFails
  BY <1>8 DEF StatusWriteFails, Ordered, Closed
<1>9. ASSUME NEW f \in Flushers, SaveFails(f) PROVE Ordered'
  <2>1. /\ f # "old" /\ RecordFailure(f) /\ EndFlush(f)
        /\ ambiguous' = (ambiguous \/ committed[f])
    BY <1>9 DEF SaveFails
  <2> QED BY <2>1, <1>f
<1>10. ASSUME NEW f \in Flushers, Commit(f) PROVE Ordered'
  <2>1. /\ stored' = stored \o batch[f] /\ committed' = [committed EXCEPT ![f] = TRUE] /\ ~committed[f]
        /\ batch[f] # <<>> /\ UNCHANGED <<buffer, batch, ambiguous, pc>>
    BY <1>10 DEF Commit
  <2> SUFFICES ASSUME ~Closed, ~ambiguous PROVE Ordered'
    BY <2>1 DEF Ordered, Closed
  <2>2. f = "loop"
    BY <1>o, <2>1 DEF Flushers
  <2>3. committed'["loop"] /\ Live("loop") = ToSet(batch["loop"])
    BY <1>t, <2>1, <2>2 DEF Live
  <2>4. Live("loop")' = {}
    BY <2>3 DEF Live
  <2>5. /\ Increasing(stored) /\ Increasing(batch["loop"])
        /\ Before(ToSet(stored), ToSet(batch["loop"]))
    BY <2>3 DEF Ordered
  <2>6. Increasing(stored') /\ ToSet(stored') = ToSet(stored) \cup ToSet(batch["loop"])
    BY <1>t, <2>1, <2>2, <2>5, ConcatHolds, ConcatIncreasing
  <2>7. Before(ToSet(stored'), ToSet(buffer))
    BY <2>6 DEF Ordered, Before
  <2> QED BY <2>1, <2>4, <2>6, <2>7 DEF Ordered, Before
<1>11. ASSUME NEW f \in Flushers, SaveReturns(f) PROVE Ordered'
  <2>1. f # "old" /\ committed[f] /\ UNCHANGED <<buffer, ambiguous>> /\ EndFlush(f)
    BY <1>11 DEF SaveReturns
  <2> SUFFICES ASSUME ~Closed', ~ambiguous PROVE Ordered'
    BY <2>1 DEF Ordered
  <2>2. /\ batch'[f] = <<>> /\ UNCHANGED stored
        /\ pc' = IF f = "close" THEN "finalise" ELSE pc
    BY <2>1, FlushEnds
  <2>3. f = "loop" /\ ~Closed
    BY <2>1, <2>2 DEF Closed, Flushers
  <2>4. Live("loop")' = {}
    BY <1>e, <2>2, <2>3 DEF Live
  <2> QED BY <1>e, <2>1, <2>2, <2>3, <2>4 DEF Ordered, Before
<1>12. ASSUME NEW f \in Flushers, PoisonRefused(f) PROVE Ordered'
  <2>1. /\ f # "old" /\ RecordFailure(f) /\ EndFlush(f) /\ ambiguous' = ambiguous /\ ~committed[f]
    BY <1>12 DEF PoisonRefused, Stage
  <2> QED BY <2>1, <1>f
<1>13. CASE UNCHANGED vars
  BY <1>13, <1>u DEF vars, Closed
<1> QED
  BY <1>1, <1>2, <1>3, <1>4, <1>5, <1>6, <1>7, <1>8, <1>9, <1>10, <1>11, <1>12, <1>13
     DEF Next, Execute, Flush, Trouble

\* For any number of events, outages and retries: until the run closes, and unless a
\* committed save was reported as failed, the table is in the order of emission.
THEOREM OrderCorrect == Spec => []StoredInEmissionOrder
<1>1. Init => Emitted /\ Ordered
  BY EmptyHolds DEF Init, Emitted, Ordered, Live, InMemory, Flushers, Before
<1>2. Ordered => StoredInEmissionOrder
  BY DEF Ordered, Increasing, StoredInEmissionOrder
<1> QED
  BY <1>1, <1>2, InitTypeOK, TypeStep, StageStep, EmittedStep, OrderedStep, PTL DEF Spec
=============================================================================
