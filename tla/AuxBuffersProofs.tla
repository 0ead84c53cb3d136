-------------------------- MODULE AuxBuffersProofs --------------------------
(***************************************************************************)
(* No string is overwritten under its readers: proved for any number of    *)
(* auxiliary buffers, any sizes of strings and any number of events, as    *)
(* long as the manager begins no used slot of dropped_ranges while the     *)
(* source is reading it.  That is the hypothesis SlotUnread.  A lock that  *)
(* excludes would guarantee it, and so does having no more events than     *)
(* slots; the lock of the code does not.                                   *)
(***************************************************************************)
EXTENDS AuxBuffers, SequenceTheorems, TLAPS

USE AuxBuffersAssumption

-----------------------------------------------------------------------------
(* The inductive invariant.                                                *)

\* An auxiliary buffer: its size, its fill, its first and last event, its bytes.
Buffer == [size : Nat, head : Nat, first : Nat, last : Nat, reusable : BOOLEAN,
           data : UNION {[0..(s - 1) -> Nat] : s \in Nat}]

\* Where the source is while it looks at the buffer at pos.
Scanning == {"lock", "end0", "begin", "end", "unlock", "dropped", "reset", "take"}

\* The types of the source's variables.
SourceType ==
  /\ aux_buffers \in Seq(Buffer) /\ age \in Seq(1..Len(aux_buffers))
  /\ cur \in 0..Len(aux_buffers)
  /\ wpc \in Scanning \cup {"idle", "scan", "finish"}
  /\ want \in Nat /\ pos \in Nat \ {0} /\ ri \in Ranges /\ rbegin \in Nat /\ rend \in Nat
  /\ refs \in Seq([idx : Nat, off : Nat, len : Nat]) /\ pushed \in Nat
  /\ Len(refs) = IF wpc = "finish" THEN pushed + 1 ELSE pushed
  /\ wpc \in Scanning => pos <= Len(age)

\* The types of the variables of the manager and the arbiter.
ManagerType ==
  /\ dropped_ranges \in [Ranges -> [begin : Nat, end : Nat]]
  /\ dropped_ranges_next \in Ranges
  /\ mpc \in {"run", "notify", "lock", "lockend", "begin", "end", "unlock"}
  /\ range \in [begin : Nat, end : Nat]
  /\ handled \in 0..pushed /\ drop_begin_id \in 0..handled
  /\ arb \in Seq([hole : BOOLEAN, id : Nat]) /\ last_processed_id \in 0..handled

\* The arbiter's events are in order, not processed, handled, and before the
\* events being dropped.
ArbInv ==
  /\ \A i \in 1..Len(arb) :
       /\ last_processed_id < arb[i].id /\ arb[i].id <= handled
       /\ drop_begin_id > 0 => arb[i].id < drop_begin_id
  /\ \A i, j \in 1..Len(arb) : i < j => arb[i].id < arb[j].id

\* The events being dropped are not processed.
DropInv == drop_begin_id > 0 => last_processed_id < drop_begin_id

\* A buffer's bytes are its size, and a reusable one is empty.
BufferOK(ab, n) ==
  /\ ab.head <= ab.size /\ DOMAIN ab.data = 0..(ab.size - 1) /\ ab.first <= n
  /\ ab.reusable => ab.head = 0 /\ ab.first = 0

\* So it is for all buffers; the one that is written to is not reusable.
BuffersInv ==
  /\ \A i \in 1..Len(aux_buffers) : BufferOK(aux_buffers[i], Len(refs))
  /\ wpc \in {"idle", "finish"} /\ cur > 0 => ~aux_buffers[cur].reusable

\* The string of event id is in its buffer, below the head, and id is among the
\* buffer's events.
StringKept(id) ==
  LET r  == refs[id]
      ab == aux_buffers[r.idx]
  IN  /\ r.idx \in 1..Len(aux_buffers) /\ r.off + r.len <= ab.head
      /\ 0 < ab.first /\ ab.first <= id /\ id <= ab.last
      /\ \A o \in r.off..(r.off + r.len - 1) : ab.data[o] = id

\* So it is for every event that may still be read.
StringsKept == \A id \in Needed : StringKept(id)

\* No event of N is in the range b to e.
NoneIn(N, b, e) == \A id \in N : ~(b <= id /\ id <= e)

\* A slot d: it ends before the last range e that was reported, holds no event of N,
\* and is not empty, unless it is open, with its begin written and not its end.
SlotInv(N, d, e, open) ==
  /\ d.end <= e
  /\ d.end # 0 => d.begin > 0 /\ NoneIn(N, d.begin, d.end)
  /\ d.begin > 0 => d.begin <= d.end \/ open

\* The slots, and the range that is being reported, hold no event that may still
\* be read.
RangesInv ==
  /\ \A i \in Ranges :
       SlotInv(Needed, dropped_ranges[i], range.end,
               mpc = "end" /\ i = dropped_ranges_next)
  /\ range.end <= handled
  /\ mpc # "run" => /\ 0 < range.begin /\ range.begin <= range.end
                    /\ NoneIn(Needed, range.begin, range.end)
  /\ mpc \in {"lockend", "end"} => dropped_ranges[dropped_ranges_next].begin = range.begin

\* What the source read of a slot is still within what the slot says, and a buffer
\* it is about to reset holds no string that may still be read.
ScanInv ==
  /\ wpc \in {"begin", "end"} => 0 < rend /\ rend <= dropped_ranges[ri].end
  /\ wpc = "end" => rbegin = dropped_ranges[ri].begin
  /\ wpc \in {"reset", "dropped"} => \A id \in Needed : refs[id].idx # age[pos]

\* The inductive invariant.
auxInv ==
  /\ SourceType /\ ManagerType /\ ArbInv /\ DropInv
  /\ BuffersInv /\ StringsKept /\ RangesInv /\ ScanInv

\* The manager begins no slot again that the source has begun to read.  This is
\* where the lock is needed: a source that has read the begin of a slot and then
\* reads the end of its next use takes the events in between for dropped.
SlotUnread ==
  mpc = "begin" /\ dropped_ranges[dropped_ranges_next].end # 0 =>
    ~(wpc \in {"begin", "end"} /\ ri = dropped_ranges_next)

\* What dropped_ranges_lock is for: source and manager are not both between
\* drop_ranges_lock and drop_ranges_unlock.
LockExcludes ==
  ~(/\ wpc \in {"end0", "begin", "end", "unlock", "dropped"}
    /\ mpc \in {"begin", "end", "unlock"})

-----------------------------------------------------------------------------
(* What the invariant says of the events and their strings.                *)

\* The types that the steps need, one by one.
LEMMA Typing ==
  ASSUME auxInv
  PROVE  /\ Len(refs) \in Nat /\ pushed \in Nat /\ pushed <= Len(refs)
         /\ handled \in Nat /\ handled <= pushed /\ handled <= Len(refs)
         /\ drop_begin_id \in Nat /\ drop_begin_id <= handled
         /\ last_processed_id \in Nat /\ last_processed_id <= handled
         /\ Len(arb) \in Nat /\ \A i \in 1..Len(arb) : arb[i].id \in Nat
         /\ range.begin \in Nat /\ range.end \in Nat
         /\ \A i \in Ranges : /\ dropped_ranges[i].begin \in Nat
                              /\ dropped_ranges[i].end \in Nat
         /\ dropped_ranges_next \in Ranges /\ ri \in Ranges
  <1>1. SourceType /\ ManagerType
    BY DEF auxInv
  <1>2. Len(refs) \in Nat /\ pushed \in Nat /\ pushed <= Len(refs) /\ ri \in Ranges
    BY <1>1 DEF SourceType
  <1>3. /\ handled \in Nat /\ handled <= pushed /\ handled <= Len(refs)
        /\ drop_begin_id \in Nat /\ drop_begin_id <= handled
        /\ last_processed_id \in Nat /\ last_processed_id <= handled
    BY <1>1, <1>2 DEF ManagerType
  <1>4. Len(arb) \in Nat /\ \A i \in 1..Len(arb) : arb[i].id \in Nat
    <2>1. arb \in Seq([hole : BOOLEAN, id : Nat])
      BY <1>1 DEF ManagerType
    <2>2. Len(arb) \in Nat /\ \A i \in 1..Len(arb) : arb[i] \in [hole : BOOLEAN, id : Nat]
      BY <2>1, LenProperties, ElementOfSeq
    <2>. QED BY <2>2
  <1>5. range.begin \in Nat /\ range.end \in Nat
    BY <1>1 DEF ManagerType
  <1>6. \A i \in Ranges : /\ dropped_ranges[i].begin \in Nat
                          /\ dropped_ranges[i].end \in Nat
    <2>1. \A i \in Ranges : dropped_ranges[i] \in [begin : Nat, end : Nat]
      BY <1>1 DEF ManagerType
    <2>. QED BY <2>1
  <1>7. dropped_ranges_next \in Ranges
    BY <1>1 DEF ManagerType
  <1>. QED BY <1>2, <1>3, <1>4, <1>5, <1>6, <1>7

\* The events that may still be read have strings, are not processed, and are not
\* among those being dropped.
LEMMA NeededFacts ==
  ASSUME auxInv
  PROVE  /\ Needed \subseteq 1..Len(refs)
         /\ \A id \in Needed : id \in Nat /\ last_processed_id < id
         /\ drop_begin_id > 0 => NoneIn(Needed, drop_begin_id, handled)
  <1>1. /\ DOMAIN refs = 1..Len(refs) /\ DOMAIN arb = 1..Len(arb)
    BY DEF auxInv, SourceType, ManagerType
  <1>2. \A i \in 1..Len(arb) :
          /\ last_processed_id < arb[i].id /\ arb[i].id <= handled
          /\ drop_begin_id > 0 => arb[i].id < drop_begin_id
    BY DEF auxInv, ArbInv
  <1>3. ASSUME NEW id \in Needed
        PROVE  /\ id \in 1..Len(refs) /\ last_processed_id < id
               /\ drop_begin_id > 0 => ~(drop_begin_id <= id /\ id <= handled)
    <2>1. CASE id \in DOMAIN refs /\ id > handled
      BY <1>1, <2>1, Typing
    <2>2. CASE \E i \in 1..Len(arb) : id = arb[i].id
      <3>1. PICK i \in 1..Len(arb) : id = arb[i].id
        BY <2>2
      <3>2. id \in Nat /\ last_processed_id < id /\ id <= handled
            /\ (drop_begin_id > 0 => id < drop_begin_id)
        BY <1>2, <3>1, Typing
      <3>. QED BY <3>2, Typing
    <2>. QED BY <1>1, <2>1, <2>2 DEF Needed
  <1>4. Len(refs) \in Nat
    BY Typing
  <1>. QED BY <1>3, <1>4 DEF NoneIn

\* What is not needed stays so, if only an event after it becomes needed.
LEMMA NoneInStays ==
  ASSUME NEW N, NEW M, NEW b, NEW e \in Nat, NEW x \in Nat, NoneIn(N, b, e),
         M \subseteq N \cup {x}, e < x
  PROVE  NoneIn(M, b, e)
  BY DEF NoneIn

\* While the source rests, its part of the invariant stays.
LEMMA SourceRests ==
  ASSUME auxInv, UNCHANGED srcVars, Needed' \subseteq Needed
  PROVE  /\ SourceType' /\ BuffersInv' /\ StringsKept'
         /\ (wpc \in {"reset", "dropped"} => \A id \in Needed : refs[id].idx # age[pos])'
  <1>1. /\ aux_buffers' = aux_buffers /\ age' = age /\ cur' = cur /\ refs' = refs
        /\ want' = want /\ pos' = pos /\ ri' = ri /\ rbegin' = rbegin /\ rend' = rend
        /\ wpc' = wpc /\ pushed' = pushed
    BY DEF srcVars, bufVars, scanVars
  <1>2. SourceType'
    BY <1>1 DEF auxInv, SourceType
  <1>3. BuffersInv'
    BY <1>1 DEF auxInv, BuffersInv, BufferOK
  <1>4. StringsKept'
    BY <1>1 DEF auxInv, StringsKept, StringKept
  <1>. QED BY <1>1, <1>2, <1>3, <1>4 DEF auxInv, ScanInv

\* While the ranges and the events rest, the manager's part stays.
LEMMA ManagerRests ==
  ASSUME auxInv, UNCHANGED <<last_processed_id, rangeVars, mgrVars, arb>>,
         pushed' \in Nat, pushed <= pushed',
         Needed' \subseteq Needed \cup {Len(refs) + 1}
  PROVE  ManagerType' /\ ArbInv' /\ DropInv' /\ RangesInv'
  <1>1. /\ last_processed_id' = last_processed_id /\ dropped_ranges' = dropped_ranges
        /\ dropped_ranges_next' = dropped_ranges_next /\ mpc' = mpc /\ range' = range
        /\ handled' = handled /\ drop_begin_id' = drop_begin_id /\ arb' = arb
    BY DEF rangeVars, mgrVars
  <1>2. ManagerType'
    <2>1. handled \in 0..pushed'
      BY Typing
    <2>. QED BY <1>1, <2>1 DEF auxInv, ManagerType
  <1>3. ArbInv' /\ DropInv'
    BY <1>1 DEF auxInv, ArbInv, DropInv
  <1>4. ASSUME NEW b \in Nat, NEW e \in Nat, e <= handled, NoneIn(Needed, b, e)
        PROVE  NoneIn(Needed', b, e)
    <2>1. e < Len(refs) + 1 /\ Len(refs) + 1 \in Nat
      BY <1>4, Typing
    <2>. QED BY <1>4, <2>1, NoneInStays
  <1>5. RangesInv'
    <2>1. range.end <= handled
      BY DEF auxInv, RangesInv
    <2>2. ASSUME NEW i \in Ranges
          PROVE  SlotInv(Needed', dropped_ranges[i], range.end,
                         mpc = "end" /\ i = dropped_ranges_next)
      <3>1. SlotInv(Needed, dropped_ranges[i], range.end,
                    mpc = "end" /\ i = dropped_ranges_next)
        BY DEF auxInv, RangesInv
      <3>2. /\ dropped_ranges[i].begin \in Nat /\ dropped_ranges[i].end \in Nat
            /\ dropped_ranges[i].end <= handled
        BY <2>1, <3>1, Typing DEF SlotInv
      <3>. QED BY <1>4, <3>1, <3>2 DEF SlotInv
    <2>3. mpc # "run" => /\ 0 < range.begin /\ range.begin <= range.end
                         /\ NoneIn(Needed', range.begin, range.end)
      BY <1>4, <2>1, Typing DEF auxInv, RangesInv
    <2>4. mpc \in {"lockend", "end"} =>
            dropped_ranges[dropped_ranges_next].begin = range.begin
      BY DEF auxInv, RangesInv
    <2>. QED BY <1>1, <2>1, <2>2, <2>3, <2>4 DEF RangesInv
  <1>. QED BY <1>2, <1>3, <1>5

-----------------------------------------------------------------------------
(* The steps of the source.                                                *)

\* The source looks for a buffer: the buffers rest.
LEMMA SourceLooks ==
  ASSUME auxInv, UNCHANGED <<last_processed_id, rangeVars, mgrVars, arb>>,
         UNCHANGED <<bufVars, want, pos, pushed>>,
         wpc # "finish", wpc' \in Scanning, pos <= Len(age),
         ri' \in Ranges, rbegin' \in Nat, rend' \in Nat,
         wpc' \in {"begin", "end"} => 0 < rend' /\ rend' <= dropped_ranges[ri'].end,
         wpc' = "end" => rbegin' = dropped_ranges[ri'].begin,
         wpc' \in {"reset", "dropped"} => \A id \in Needed : refs[id].idx # age[pos]
  PROVE  auxInv'
  <1>1. /\ aux_buffers' = aux_buffers /\ age' = age /\ cur' = cur /\ refs' = refs
        /\ want' = want /\ pos' = pos /\ pushed' = pushed /\ wpc' # "finish"
        /\ wpc' # "idle" /\ wpc' \in Scanning \cup {"idle", "scan", "finish"}
        /\ handled' = handled /\ arb' = arb /\ dropped_ranges' = dropped_ranges
    BY DEF bufVars, mgrVars, rangeVars, Scanning
  <1>2. Needed' = Needed
    BY <1>1 DEF Needed
  <1>3. ManagerType' /\ ArbInv' /\ DropInv' /\ RangesInv'
    <2>1. pushed' \in Nat /\ pushed <= pushed'
      BY <1>1, Typing
    <2>. QED BY <1>2, <2>1, ManagerRests
  <1>4. SourceType'
    BY <1>1 DEF auxInv, SourceType
  <1>5. BuffersInv'
    BY <1>1 DEF auxInv, BuffersInv, BufferOK
  <1>6. StringsKept'
    BY <1>1, <1>2 DEF auxInv, StringsKept, StringKept
  <1>7. ScanInv'
    BY <1>1, <1>2 DEF ScanInv
  <1>. QED BY <1>3, <1>4, <1>5, <1>6, <1>7 DEF auxInv

\* The manager and the arbiter rest.
Rest == UNCHANGED <<last_processed_id, rangeVars, mgrVars, arb>>

\* A buffer whose last event is processed holds no string that is needed.
LEMMA ScanStep ==
  ASSUME auxInv, Rest, scan PROVE auxInv'
  <1>1. /\ wpc = "scan" /\ pos <= Len(age) /\ UNCHANGED <<bufVars, want, pos, pushed>>
        /\ ri' = ri /\ rbegin' = rbegin /\ rend' = rend /\ wpc' \in {"reset", "lock"}
        /\ wpc' = "reset" => aux_buffers[age[pos]].last <= last_processed_id
    BY DEF scan, scanVars
  <1>2. ASSUME wpc' = "reset", NEW id \in Needed, refs[id].idx = age[pos] PROVE FALSE
    <2>1. id <= aux_buffers[age[pos]].last
      BY <1>2 DEF auxInv, StringsKept, StringKept
    <2>2. aux_buffers[age[pos]].last \in Nat
      <3>1. age[pos] \in 1..Len(aux_buffers)
        BY <1>1 DEF auxInv, SourceType
      <3>2. aux_buffers[age[pos]] \in Buffer
        BY <3>1 DEF auxInv, SourceType
      <3>. QED BY <3>2 DEF Buffer
    <2>. QED BY <1>1, <1>2, <2>1, <2>2, NeededFacts, Typing, SMTT(30)
  <1>3. ri' \in Ranges /\ rbegin' \in Nat /\ rend' \in Nat
    BY <1>1 DEF auxInv, SourceType
  <1>4. wpc' \in Scanning /\ wpc' \notin {"begin", "end", "dropped"}
    BY <1>1 DEF Scanning
  <1>. QED BY <1>1, <1>2, <1>3, <1>4, SourceLooks DEF Rest

\* Nothing is concluded from having the lock: two processes may be inside.
LEMMA LockStep ==
  ASSUME auxInv, Rest, was_dropped_lock PROVE auxInv'
  <1>1. /\ wpc = "lock" /\ UNCHANGED <<bufVars, want, pos, pushed>>
        /\ ri' = 0 /\ rbegin' = rbegin /\ rend' = rend /\ wpc' \in {"end0", "lock"}
    BY DEF was_dropped_lock, drop_ranges_lock
  <1>2. ri' \in Ranges /\ rbegin' \in Nat /\ rend' \in Nat /\ pos <= Len(age)
    BY <1>1 DEF auxInv, SourceType, Ranges, Scanning
  <1>3. wpc' \in Scanning /\ wpc' \notin {"begin", "end", "dropped", "reset"}
    BY <1>1 DEF Scanning
  <1>. QED BY <1>1, <1>2, <1>3, SourceLooks DEF Rest

\* The end of a slot is read: the slot is used.
LEMMA End0Step ==
  ASSUME auxInv, Rest, was_dropped_end0 PROVE auxInv'
  <1>1. /\ wpc = "end0" /\ UNCHANGED <<bufVars, want, pos, pushed>>
        /\ rend' = dropped_ranges[ri].end /\ rbegin' = rbegin
        /\ wpc' \in {"unlock", "end0", "begin"}
        /\ wpc' = "begin" => rend' # 0 /\ ri' = ri
        /\ ri' = ri \/ (ri' = ri + 1 /\ ri + 1 # RangesNum)
    BY DEF was_dropped_end0, NextRange
  <1>2. ri' \in Ranges /\ rbegin' \in Nat /\ rend' \in Nat
    <2>1. ri' \in Ranges
      BY <1>1, Typing, SMTT(30) DEF Ranges
    <2>2. rbegin' \in Nat
      BY <1>1 DEF auxInv, SourceType
    <2>. QED BY <1>1, <2>1, <2>2, Typing
  <1>3. wpc' \in Scanning /\ wpc' \notin {"end", "dropped", "reset"} /\ pos <= Len(age)
    BY <1>1 DEF Scanning, auxInv, SourceType
  <1>4. wpc' = "begin" => 0 < rend' /\ rend' <= dropped_ranges[ri'].end
    BY <1>1, <1>2
  <1>. QED BY <1>1, <1>2, <1>3, <1>4, SourceLooks DEF Rest

\* The begin of a used slot is read.
LEMMA BeginStep ==
  ASSUME auxInv, Rest, was_dropped_begin PROVE auxInv'
  <1>1. /\ wpc = "begin" /\ UNCHANGED <<bufVars, want, pos, pushed>>
        /\ rbegin' = dropped_ranges[ri].begin /\ rend' = rend /\ ri' = ri /\ wpc' = "end"
    BY DEF was_dropped_begin
  <1>2. /\ ri' \in Ranges /\ rbegin' \in Nat
    BY <1>1, Typing
  <1>3. wpc' \in Scanning /\ wpc' \notin {"dropped", "reset"} /\ pos <= Len(age)
        /\ rend' \in Nat
    BY <1>1 DEF Scanning, auxInv, SourceType
  <1>4. 0 < rend' /\ rend' <= dropped_ranges[ri'].end
    BY <1>1 DEF auxInv, ScanInv
  <1>. QED BY <1>1, <1>2, <1>3, <1>4, SourceLooks DEF Rest

\* What the source read is part of what the slot says now.
LEMMA EndStep ==
  ASSUME auxInv, Rest, was_dropped_end PROVE auxInv'
  <1>. DEFINE ab == aux_buffers[age[pos]]
              d == dropped_ranges[ri]
  <1>1. /\ wpc = "end" /\ UNCHANGED <<bufVars, want, pos, pushed>>
        /\ rend' \in {rend, d.end} /\ rbegin' = rbegin
        /\ wpc' \in {"unlock", "end0", "dropped"}
        /\ wpc' = "dropped" => rbegin <= ab.first /\ rend' >= ab.last
        /\ ri' = ri \/ (ri' = ri + 1 /\ ri + 1 # RangesNum)
    BY DEF was_dropped_end, NextRange
  <1>2. /\ 0 < rend /\ rend <= d.end /\ rbegin = d.begin
        /\ rend \in Nat /\ rbegin \in Nat
    BY <1>1 DEF auxInv, ScanInv, SourceType
  <1>3. d.end \in Nat /\ d.begin \in Nat /\ ri \in Ranges
    BY Typing
  <1>4. NoneIn(Needed, d.begin, d.end)
    <2>1. SlotInv(Needed, d, range.end, mpc = "end" /\ ri = dropped_ranges_next)
      BY <1>3 DEF auxInv, RangesInv
    <2>. QED BY <1>2, <1>3, <2>1 DEF SlotInv
  <1>5. wpc' \in Scanning /\ wpc' \notin {"begin", "end", "reset"} /\ pos <= Len(age)
        /\ rend' \in Nat /\ rbegin' \in Nat
    BY <1>1, <1>2, <1>3 DEF Scanning, auxInv, SourceType
  <1>6. age[pos] \in 1..Len(aux_buffers)
    <2>1. age \in Seq(1..Len(aux_buffers)) /\ pos \in 1..Len(age)
      BY <1>5 DEF auxInv, SourceType
    <2>. QED BY <2>1, ElementOfSeq
  <1>7. ab \in Buffer
    BY <1>6 DEF auxInv, SourceType
  <1>8. ab.first \in Nat /\ ab.last \in Nat
    BY <1>7 DEF Buffer
  <1>9. ASSUME wpc' = "dropped", NEW id \in Needed, refs[id].idx = age[pos] PROVE FALSE
    <2>1. ab.first <= id /\ id <= ab.last /\ id \in Nat
      BY <1>9, NeededFacts DEF auxInv, StringsKept, StringKept
    <2>2. d.begin <= id /\ id <= d.end
      BY <1>1, <1>2, <1>3, <1>8, <1>9, <2>1
    <2>. QED BY <1>4, <1>9, <2>2 DEF NoneIn
  <1>10. ri' \in Ranges
    BY <1>1, <1>3 DEF Ranges
  <1>. HIDE DEF ab, d
  <1>. QED BY <1>1, <1>5, <1>9, <1>10, SourceLooks DEF Rest

\* The source leaves ab_was_dropped.
LEMMA UnlockStep ==
  ASSUME auxInv, Rest, was_dropped_unlock PROVE auxInv'
  <1>1. /\ wpc \in {"unlock", "dropped"} /\ UNCHANGED <<bufVars, want, pos, pushed>>
        /\ ri' = ri /\ rbegin' = rbegin /\ rend' = rend
        /\ wpc' = IF wpc = "dropped" THEN "reset" ELSE "take"
    BY DEF was_dropped_unlock, scanVars
  <1>2. ri' \in Ranges /\ rbegin' \in Nat /\ rend' \in Nat /\ pos <= Len(age)
    BY <1>1 DEF auxInv, SourceType, Scanning
  <1>3. wpc' \in Scanning /\ wpc' \notin {"begin", "end", "dropped"} /\ wpc # "finish"
    BY <1>1 DEF Scanning
  <1>4. wpc' = "reset" => \A id \in Needed : refs[id].idx # age[pos]
    BY <1>1 DEF auxInv, ScanInv
  <1>. QED BY <1>1, <1>2, <1>3, <1>4, SourceLooks DEF Rest

\* A sequence with one element replaced.
LEMMA SetElement ==
  ASSUME NEW S, NEW s \in Seq(S), NEW k \in 1..Len(s), NEW e \in S, NEW t,
         t = [s EXCEPT ![k] = e]
  PROVE  /\ t \in Seq(S) /\ Len(t) = Len(s) /\ t[k] = e
         /\ \A i \in 1..Len(s) : i # k => t[i] = s[i]
  OBVIOUS

\* A buffer without a needed string becomes reusable.
LEMMA ResetStep ==
  ASSUME auxInv, Rest, reset PROVE auxInv'
  <1>. DEFINE k == age[pos]
              nb == [aux_buffers[k] EXCEPT !.reusable = TRUE, !.head = 0, !.first = 0,
                                           !.last = NoId]
  <1>1. /\ wpc = "reset" /\ wpc' = "take" /\ age' = age /\ cur' = cur /\ refs' = refs
        /\ want' = want /\ pos' = pos /\ ri' = ri /\ rbegin' = rbegin /\ rend' = rend
        /\ pushed' = pushed /\ handled' = handled /\ arb' = arb
        /\ aux_buffers' = [aux_buffers EXCEPT ![k] = nb]
    BY DEF reset, scanVars, Rest, mgrVars
  <1>2. /\ aux_buffers \in Seq(Buffer) /\ age \in Seq(1..Len(aux_buffers))
        /\ pos \in 1..Len(age) /\ NoId \in Nat
    BY <1>1, SMTT(30) DEF auxInv, SourceType, Scanning, NoId
  <1>3. k \in 1..Len(aux_buffers)
    BY <1>2, ElementOfSeq
  <1>4. aux_buffers[k] \in Buffer
    BY <1>2, <1>3, ElementOfSeq
  <1>. HIDE DEF k
  <1>5. /\ nb \in Buffer /\ nb.reusable /\ nb.head = 0 /\ nb.first = 0
        /\ nb.size = aux_buffers[k].size /\ nb.data = aux_buffers[k].data
    BY <1>2, <1>4 DEF Buffer
  <1>. HIDE DEF nb
  <1>6. /\ aux_buffers' \in Seq(Buffer) /\ Len(aux_buffers') = Len(aux_buffers)
        /\ aux_buffers'[k] = nb
        /\ \A i \in 1..Len(aux_buffers) : i # k => aux_buffers'[i] = aux_buffers[i]
    BY <1>1, <1>2, <1>3, <1>5, SetElement
  <1>7. Needed' = Needed
    BY <1>1 DEF Needed
  <1>8. ManagerType' /\ ArbInv' /\ DropInv' /\ RangesInv'
    <2>1. pushed' \in Nat /\ pushed <= pushed'
      BY <1>1, Typing
    <2>. QED BY <1>7, <2>1, ManagerRests DEF Rest
  <1>9. SourceType'
    BY <1>1, <1>6 DEF auxInv, SourceType, Scanning
  <1>10. BuffersInv'
    <2>1. ASSUME NEW i \in 1..Len(aux_buffers) PROVE BufferOK(aux_buffers'[i], Len(refs))
      <3>1. BufferOK(aux_buffers[i], Len(refs))
        BY DEF auxInv, BuffersInv
      <3>2. CASE i = k
        <4>1. aux_buffers[k].size \in Nat /\ Len(refs) \in Nat
          BY <1>4, Typing DEF Buffer
        <4>. QED BY <1>5, <1>6, <3>1, <3>2, <4>1 DEF BufferOK
      <3>. QED BY <1>6, <3>1, <3>2
    <2>2. (\A i \in 1..Len(aux_buffers) : BufferOK(aux_buffers[i], Len(refs)))'
      BY <1>1, <1>6, <2>1 DEF BufferOK
    <2>. QED BY <1>1, <2>2 DEF BuffersInv
  <1>11. StringsKept'
    <2>1. ASSUME NEW id \in Needed PROVE StringKept(id)'
      <3>1. StringKept(id) /\ refs[id].idx # k
        BY <1>1 DEF auxInv, StringsKept, ScanInv, k
      <3>2. aux_buffers'[refs[id].idx] = aux_buffers[refs[id].idx]
        BY <1>6, <3>1 DEF StringKept
      <3>. QED BY <1>1, <1>6, <3>1, <3>2 DEF StringKept
    <2>. QED BY <1>7, <2>1 DEF StringsKept
  <1>12. ScanInv'
    BY <1>1 DEF ScanInv
  <1>. QED BY <1>8, <1>9, <1>10, <1>11, <1>12 DEF auxInv

\* The event becomes visible.
LEMMA FinishStep ==
  ASSUME auxInv, Rest, finish_push PROVE auxInv'
  <1>1. /\ wpc = "finish" /\ wpc' = "idle" /\ pushed' = pushed + 1
        /\ aux_buffers' = aux_buffers /\ age' = age /\ cur' = cur /\ refs' = refs
        /\ want' = want /\ pos' = pos /\ ri' = ri /\ rbegin' = rbegin /\ rend' = rend
        /\ handled' = handled /\ arb' = arb
    BY DEF finish_push, bufVars, scanVars, Rest, mgrVars
  <1>2. Needed' = Needed
    BY <1>1 DEF Needed
  <1>3. ManagerType' /\ ArbInv' /\ DropInv' /\ RangesInv'
    <2>1. pushed' \in Nat /\ pushed <= pushed'
      BY <1>1, Typing
    <2>. QED BY <1>2, <2>1, ManagerRests DEF Rest
  <1>4. SourceType'
    BY <1>1 DEF auxInv, SourceType, Scanning
  <1>5. BuffersInv'
    BY <1>1 DEF auxInv, BuffersInv, BufferOK
  <1>6. StringsKept'
    BY <1>1, <1>2 DEF auxInv, StringsKept, StringKept
  <1>7. ScanInv'
    BY <1>1 DEF ScanInv
  <1>. QED BY <1>3, <1>4, <1>5, <1>6, <1>7 DEF auxInv

\* Buffer i of abs takes a string: abs is the buffers, with i perhaps new or no
\* longer reusable.
Room(i, abs, w) ==
  /\ abs \in Seq(Buffer) /\ i \in 1..Len(abs) /\ Len(aux_buffers) <= Len(abs)
  /\ \A k \in 1..Len(abs) : k <= Len(aux_buffers) \/ k = i
  /\ \A k \in 1..Len(aux_buffers) : k # i => abs[k] = aux_buffers[k]
  /\ i <= Len(aux_buffers) =>
       /\ abs[i].head = aux_buffers[i].head /\ abs[i].first = aux_buffers[i].first
       /\ abs[i].data = aux_buffers[i].data
  /\ BufferOK(abs[i], Len(refs)) /\ ~abs[i].reusable
  /\ w \in Nat /\ abs[i].head + w <= abs[i].size

\* The string is copied: it lies above the strings of the same buffer.
LEMMA PlaceStep ==
  ASSUME auxInv, Rest, NEW i, NEW abs, Room(i, abs, want'), Place(i, abs),
         wpc # "finish", pushed' = pushed, pos' = pos, ri' = ri, rbegin' = rbegin,
         rend' = rend, age' \in Seq(1..Len(abs))
  PROVE  auxInv'
  <1>. DEFINE ab == abs[i]
              w == want'
              ev == pushed + 1
              dt == [o \in DOMAIN ab.data |->
                       IF o \in ab.head..(ab.head + w - 1) THEN ev ELSE ab.data[o]]
              nb == [ab EXCEPT !.data = dt, !.head = ab.head + w,
                               !.first = IF ab.first = 0 THEN ev ELSE ab.first,
                               !.last = ev]
  <1>1. /\ aux_buffers' = [abs EXCEPT ![i] = nb] /\ cur' = i /\ wpc' = "finish"
        /\ refs' = Append(refs, [idx |-> i, off |-> ab.head, len |-> w])
        /\ handled' = handled /\ arb' = arb
    BY DEF Place, evid, Rest, mgrVars
  <1>2. /\ abs \in Seq(Buffer) /\ i \in 1..Len(abs) /\ Len(aux_buffers) <= Len(abs)
        /\ BufferOK(ab, Len(refs)) /\ ~ab.reusable
        /\ w \in Nat /\ ab.head + w <= ab.size
    BY DEF Room
  <1>3. ab \in Buffer /\ ev \in Nat /\ Len(refs) = pushed /\ Len(aux_buffers) \in Nat
        /\ Len(abs) \in Nat
    <2>1. ab \in Buffer
      BY <1>2, ElementOfSeq
    <2>2. aux_buffers \in Seq(Buffer) /\ Len(refs) = pushed
      BY DEF auxInv, SourceType
    <2>. QED BY <1>2, <2>1, <2>2, LenProperties, Typing
  <1>4. /\ ab.size \in Nat /\ ab.head \in Nat /\ ab.first \in Nat
        /\ ab.reusable \in BOOLEAN
        /\ ab.data \in UNION {[0..(s - 1) -> Nat] : s \in Nat}
    BY <1>3 DEF Buffer
  <1>5. /\ dt \in UNION {[0..(s - 1) -> Nat] : s \in Nat}
        /\ DOMAIN dt = DOMAIN ab.data
    <2>1. PICK s \in Nat : ab.data \in [0..(s - 1) -> Nat]
      BY <1>4
    <2>2. dt \in [0..(s - 1) -> Nat]
      BY <1>3, <2>1
    <2>. QED BY <2>2
  <1>6. /\ \A o \in DOMAIN ab.data : o \in ab.head..(ab.head + w - 1) => dt[o] = ev
        /\ \A o \in DOMAIN ab.data : o < ab.head /\ o \in Nat => dt[o] = ab.data[o]
    BY <1>4
  <1>. HIDE DEF dt, w, ev
  <1>7. /\ nb \in Buffer /\ nb.data = dt /\ nb.head = ab.head + w /\ nb.size = ab.size
        /\ nb.first = (IF ab.first = 0 THEN ev ELSE ab.first) /\ nb.last = ev
        /\ nb.reusable = ab.reusable
    <2>1. ab.head + w \in Nat /\ (IF ab.first = 0 THEN ev ELSE ab.first) \in Nat
      BY <1>2, <1>3, <1>4, SMTT(30)
    <2>. QED BY <1>3, <1>5, <2>1 DEF Buffer
  <1>. HIDE DEF nb, ab
  <1>8. /\ aux_buffers' \in Seq(Buffer) /\ Len(aux_buffers') = Len(abs)
        /\ aux_buffers'[i] = nb
        /\ \A k \in 1..Len(abs) : k # i => aux_buffers'[k] = abs[k]
    BY <1>1, <1>2, <1>7, SetElement
  <1>9. /\ refs' \in Seq([idx : Nat, off : Nat, len : Nat]) /\ Len(refs') = Len(refs) + 1
        /\ \A id \in 1..Len(refs) : refs'[id] = refs[id]
        /\ refs'[ev] = [idx |-> i, off |-> ab.head, len |-> w]
        /\ DOMAIN refs = 1..Len(refs) /\ DOMAIN refs' = 1..(Len(refs) + 1)
    <2>1. [idx |-> i, off |-> ab.head, len |-> w] \in [idx : Nat, off : Nat, len : Nat]
      BY <1>2, <1>3, <1>4
    <2>2. refs \in Seq([idx : Nat, off : Nat, len : Nat]) /\ ev = Len(refs) + 1
      BY <1>3 DEF auxInv, SourceType, ev
    <2>. QED BY <1>1, <2>1, <2>2
  <1>10. Needed' \subseteq Needed \cup {ev} /\ ev = Len(refs) + 1
    <2>1. ev = Len(refs) + 1
      BY <1>3 DEF ev
    <2>2. \A id \in 1..(Len(refs) + 1) : id \in 1..Len(refs) \/ id = ev
      BY <2>1, Typing
    <2>. QED BY <1>1, <1>9, <2>1, <2>2 DEF Needed
  <1>11. ManagerType' /\ ArbInv' /\ DropInv' /\ RangesInv'
    <2>1. pushed' \in Nat /\ pushed <= pushed'
      BY Typing
    <2>. QED BY <1>10, <2>1, ManagerRests DEF Rest
  <1>12. SourceType'
    <2>1. Len(refs') = pushed' + 1
      BY <1>3, <1>9
    <2>2. cur' \in 0..Len(aux_buffers') /\ age' \in Seq(1..Len(aux_buffers'))
      BY <1>1, <1>2, <1>3, <1>8
    <2>3. wpc' \in Scanning \cup {"idle", "scan", "finish"} /\ wpc' \notin Scanning
      BY <1>1 DEF Scanning
    <2>4. want' \in Nat
      BY <1>2 DEF w
    <2>. QED BY <1>1, <1>8, <1>9, <2>1, <2>2, <2>3, <2>4 DEF auxInv, SourceType
  <1>13. BuffersInv'
    <2>1. ASSUME NEW k \in 1..Len(abs) PROVE BufferOK(aux_buffers'[k], Len(refs) + 1)
      <3>1. CASE k = i
        <4>1. nb.first <= Len(refs) + 1
          <5>1. ab.first <= Len(refs) /\ Len(refs) \in Nat
            BY <1>2, Typing DEF BufferOK
          <5>. QED BY <1>4, <1>7, <1>10, <5>1
        <4>2. /\ nb.head <= nb.size /\ DOMAIN nb.data = 0..(nb.size - 1) /\ ~nb.reusable
          BY <1>2, <1>5, <1>7 DEF BufferOK
        <4>. QED BY <1>8, <3>1, <4>1, <4>2 DEF BufferOK
      <3>2. CASE k # i
        <4>1. k \in 1..Len(aux_buffers) /\ aux_buffers'[k] = aux_buffers[k]
          BY <1>3, <1>8, <3>2 DEF Room
        <4>2. BufferOK(aux_buffers[k], Len(refs)) /\ aux_buffers[k] \in Buffer
          BY <4>1, ElementOfSeq DEF auxInv, BuffersInv, SourceType
        <4>3. aux_buffers[k].first \in Nat /\ aux_buffers[k].first <= Len(refs) + 1
          BY <4>2, Typing, SMTT(30) DEF BufferOK, Buffer
        <4>. QED BY <4>1, <4>2, <4>3 DEF BufferOK
      <3>. QED BY <3>1, <3>2
    <2>2. (\A k \in 1..Len(aux_buffers) : BufferOK(aux_buffers[k], Len(refs)))'
      BY <1>8, <1>9, <2>1 DEF BufferOK
    <2>3. ~aux_buffers'[cur'].reusable
      BY <1>1, <1>2, <1>7, <1>8
    <2>. QED BY <2>2, <2>3 DEF BuffersInv
  <1>14. StringsKept'
    <2>1. ASSUME NEW id \in Needed PROVE StringKept(id)'
      <3>. DEFINE r == refs[id]
      <3>1. StringKept(id) /\ id \in 1..Len(refs) /\ refs'[id] = r /\ id \in Nat
        BY <1>9, NeededFacts DEF auxInv, StringsKept
      <3>2. r \in [idx : Nat, off : Nat, len : Nat]
        BY <3>1, ElementOfSeq DEF auxInv, SourceType
      <3>3. r.idx \in 1..Len(aux_buffers) /\ r.idx \in 1..Len(abs)
            /\ r.off \in Nat /\ r.len \in Nat
        BY <1>2, <1>3, <3>1, <3>2 DEF StringKept
      <3>. HIDE DEF r
      <3>4. CASE r.idx # i
        <4>1. aux_buffers'[r.idx] = aux_buffers[r.idx]
          BY <1>8, <3>3, <3>4 DEF Room
        <4>. QED BY <1>8, <3>1, <3>3, <4>1 DEF StringKept, r
      <3>5. CASE r.idx = i
        <4>1. /\ ab.head = aux_buffers[i].head /\ ab.first = aux_buffers[i].first
              /\ ab.data = aux_buffers[i].data
          BY <3>3, <3>5 DEF Room, ab
        <4>2. /\ r.off + r.len <= ab.head /\ 0 < ab.first /\ ab.first <= id
              /\ \A o \in r.off..(r.off + r.len - 1) : ab.data[o] = id
          BY <3>1, <3>5, <4>1 DEF StringKept, r
        <4>3. ASSUME NEW o \in r.off..(r.off + r.len - 1) PROVE dt[o] = id
          <5>1. o \in Nat /\ o < ab.head /\ o \in 0..(ab.size - 1)
            <6>1. ab.head <= ab.size
              BY <1>2 DEF BufferOK
            <6>. QED BY <1>4, <3>3, <4>2, <6>1, SMTT(30)
          <5>2. o \in DOMAIN ab.data
            BY <1>2, <5>1 DEF BufferOK
          <5>. QED BY <1>6, <4>2, <5>1, <5>2
        <4>4. /\ r.off + r.len <= nb.head /\ 0 < nb.first /\ nb.first <= id
              /\ id <= nb.last
          <5>1. Len(refs) \in Nat /\ w \in Nat
            BY <1>2, Typing
          <5>2. r.off + r.len <= nb.head
            BY <1>4, <1>7, <3>3, <4>2, <5>1
          <5>3. nb.first = ab.first
            BY <1>4, <1>7, <4>2
          <5>4. id <= nb.last
            BY <1>7, <1>10, <3>1, <5>1
          <5>. QED BY <4>2, <5>2, <5>3, <5>4
        <4>. QED BY <1>7, <1>8, <3>1, <3>3, <3>5, <4>3, <4>4 DEF StringKept, r
      <3>. QED BY <3>4, <3>5
    <2>2. StringKept(ev)'
      <3>. DEFINE r == refs'[ev]
      <3>1. r.idx = i /\ r.off = ab.head /\ r.len = w
        BY <1>9
      <3>2. \A o \in ab.head..(ab.head + w - 1) : dt[o] = ev
        <4>1. \A o \in ab.head..(ab.head + w - 1) : o \in 0..(ab.size - 1)
          BY <1>2, <1>4, SMTT(30)
        <4>2. DOMAIN ab.data = 0..(ab.size - 1)
          BY <1>2 DEF BufferOK
        <4>. QED BY <1>6, <4>1, <4>2
      <3>3. 0 < nb.first /\ nb.first <= ev /\ ev <= nb.last
        <4>1. ab.first <= Len(refs) /\ Len(refs) \in Nat
          BY <1>2, Typing DEF BufferOK
        <4>. QED BY <1>3, <1>4, <1>7, <1>10, <4>1
      <3>4. ab.head + w <= nb.head
        BY <1>2, <1>4, <1>7
      <3>. HIDE DEF r
      <3>5. StringKept(ev)' <=>
              /\ r.idx \in 1..Len(aux_buffers') /\ r.off + r.len <= aux_buffers'[r.idx].head
              /\ 0 < aux_buffers'[r.idx].first /\ aux_buffers'[r.idx].first <= ev
              /\ ev <= aux_buffers'[r.idx].last
              /\ \A o \in r.off..(r.off + r.len - 1) : aux_buffers'[r.idx].data[o] = ev
        BY DEF StringKept, r, ev
      <3>. QED BY <1>2, <1>7, <1>8, <3>1, <3>2, <3>3, <3>4, <3>5
    <2>3. (\A id \in Needed : StringKept(id))'
      <3>1. \A id \in Needed' : id \in Needed \/ id = ev
        BY <1>10
      <3>2. StringKept(pushed + 1)'
        BY <2>2 DEF ev
      <3>. QED BY <2>1, <3>1, <3>2 DEF StringKept, ev
    <2>. QED BY <2>3 DEF StringsKept
  <1>15. ScanInv'
    BY <1>1 DEF ScanInv
  <1>. QED BY <1>11, <1>12, <1>13, <1>14, <1>15 DEF auxInv

\* A page and more is added to what is asked for.
LEMMA NewSizeEnough ==
  ASSUME NEW w \in Nat PROVE NewSize(w) \in Nat /\ w <= NewSize(w)
  <1>. DEFINE q == (w + Hdr) \div Page
  <1>1. Page \in Nat \ {0} /\ Hdr \in Nat /\ Hdr <= Page
    OBVIOUS
  <1>2. q \in Nat /\ w + Hdr < (q + 1) * Page
    BY <1>1
  <1>. HIDE DEF q
  <1>3. (q + 2) * Page = (q + 1) * Page + Page /\ (q + 1) * Page \in Nat
    BY <1>1, <1>2
  <1>4. NewSize(w) = (q + 2) * Page - Hdr
    BY DEF NewSize, q
  <1>. DEFINE x == (q + 1) * Page
  <1>. HIDE DEF x
  <1>5. NewSize(w) = x + Page - Hdr /\ w + Hdr < x /\ x \in Nat
    BY <1>2, <1>3, <1>4 DEF x
  <1>. QED BY <1>1, <1>5

\* The string fits the current buffer, or the search begins.
LEMMA PushStep ==
  ASSUME auxInv, Rest, NEW size \in Sizes, buffer_push_strn(size) PROVE auxInv'
  <1>1. /\ wpc = "idle" /\ want' = size /\ size \in Nat /\ pushed' = pushed
        /\ ri' = ri /\ rbegin' = rbegin /\ rend' = rend
    BY DEF buffer_push_strn
  <1>2. CASE cur = 0 \/ aux_buffer_free_space(aux_buffers[cur]) < size
    <2>1. /\ wpc' = "scan" /\ pos' = 1 /\ aux_buffers' = aux_buffers /\ age' = age
          /\ cur' = cur /\ refs' = refs /\ handled' = handled /\ arb' = arb
      BY <1>2 DEF buffer_push_strn, bufVars, Rest, mgrVars
    <2>2. Needed' = Needed
      BY <2>1 DEF Needed
    <2>3. ManagerType' /\ ArbInv' /\ DropInv' /\ RangesInv'
      <3>1. pushed' \in Nat /\ pushed <= pushed'
        BY <1>1, Typing
      <3>. QED BY <2>2, <3>1, ManagerRests DEF Rest
    <2>4. SourceType'
      BY <1>1, <2>1 DEF auxInv, SourceType, Scanning
    <2>5. BuffersInv'
      BY <2>1 DEF auxInv, BuffersInv, BufferOK
    <2>6. StringsKept'
      BY <2>1, <2>2 DEF auxInv, StringsKept, StringKept
    <2>7. ScanInv'
      BY <2>1 DEF ScanInv
    <2>. QED BY <2>3, <2>4, <2>5, <2>6, <2>7 DEF auxInv
  <1>3. CASE ~(cur = 0 \/ aux_buffer_free_space(aux_buffers[cur]) < size)
    <2>1. Place(cur, aux_buffers) /\ age' = age /\ pos' = pos
      BY <1>3 DEF buffer_push_strn
    <2>2. /\ aux_buffers \in Seq(Buffer) /\ age \in Seq(1..Len(aux_buffers))
          /\ cur \in 1..Len(aux_buffers)
      BY <1>3 DEF auxInv, SourceType
    <2>3. aux_buffers[cur].size \in Nat /\ aux_buffers[cur].head \in Nat
      <3>1. aux_buffers[cur] \in Buffer
        BY <2>2, ElementOfSeq
      <3>. QED BY <3>1 DEF Buffer
    <2>4. aux_buffers[cur].head + size <= aux_buffers[cur].size
      BY <1>1, <1>3, <2>3 DEF aux_buffer_free_space
    <2>5. BufferOK(aux_buffers[cur], Len(refs)) /\ ~aux_buffers[cur].reusable
      BY <1>1, <2>2 DEF auxInv, BuffersInv
    <2>6. Room(cur, aux_buffers, want')
      <3>1. Len(aux_buffers) \in Nat
        BY <2>2, LenProperties
      <3>. QED BY <1>1, <2>2, <2>4, <2>5, <3>1 DEF Room
    <2>. QED BY <1>1, <2>1, <2>2, <2>6, PlaceStep
  <1>. QED BY <1>2, <1>3

\* The buffers by age, with one moved to the end.
LEMMA MovedToEnd ==
  ASSUME NEW S, NEW s \in Seq(S), NEW k \in 1..Len(s) PROVE MoveToEnd(s, k) \in Seq(S)
  <1>1. /\ SubSeq(s, 1, k - 1) \in Seq(S) /\ SubSeq(s, k + 1, Len(s)) \in Seq(S)
        /\ <<s[k]>> \in Seq(S)
    OBVIOUS
  <1>2. SubSeq(s, 1, k - 1) \o SubSeq(s, k + 1, Len(s)) \in Seq(S)
    BY <1>1, ConcatProperties
  <1>. QED BY <1>1, <1>2, ConcatProperties DEF MoveToEnd

\* A reusable buffer takes the string, or the search goes on.
LEMMA TakeStep ==
  ASSUME auxInv, Rest, take PROVE auxInv'
  <1>. DEFINE i == age[pos]
              nb == [aux_buffers[i] EXCEPT !.reusable = FALSE]
              abs == [aux_buffers EXCEPT ![i] = nb]
              ok == aux_buffers[i].reusable /\ aux_buffers[i].size >= want
  <1>1. /\ wpc = "take" /\ want' = want /\ pushed' = pushed /\ ri' = ri
        /\ rbegin' = rbegin /\ rend' = rend
    BY DEF take
  <1>2. /\ aux_buffers \in Seq(Buffer) /\ age \in Seq(1..Len(aux_buffers))
        /\ pos \in 1..Len(age) /\ want \in Nat
    BY <1>1 DEF auxInv, SourceType, Scanning
  <1>3. i \in 1..Len(aux_buffers)
    BY <1>2, ElementOfSeq
  <1>4. CASE ok
    <2>1. Place(i, abs) /\ age' = MoveToEnd(age, pos) /\ pos' = pos
      BY <1>4 DEF take
    <2>2. aux_buffers[i] \in Buffer
      BY <1>2, <1>3, ElementOfSeq
    <2>. HIDE DEF i
    <2>3. /\ nb \in Buffer /\ nb.reusable = FALSE /\ nb.head = aux_buffers[i].head
          /\ nb.first = aux_buffers[i].first /\ nb.size = aux_buffers[i].size
          /\ nb.data = aux_buffers[i].data
      BY <2>2 DEF Buffer
    <2>4. nb.size \in Nat /\ nb.head \in Nat
      BY <2>3 DEF Buffer
    <2>. HIDE DEF nb
    <2>5. /\ abs \in Seq(Buffer) /\ Len(abs) = Len(aux_buffers) /\ abs[i] = nb
          /\ \A k \in 1..Len(aux_buffers) : k # i => abs[k] = aux_buffers[k]
      BY <1>2, <1>3, <2>3, SetElement
    <2>. HIDE DEF abs
    <2>6. BufferOK(aux_buffers[i], Len(refs))
      BY <1>3 DEF auxInv, BuffersInv
    <2>7. BufferOK(nb, Len(refs)) /\ nb.head + want <= nb.size
      BY <1>2, <1>4, <2>3, <2>4, <2>6 DEF BufferOK
    <2>8. Room(i, abs, want')
      <3>1. Len(aux_buffers) \in Nat
        BY <1>2, LenProperties
      <3>. QED BY <1>1, <1>2, <1>3, <2>3, <2>5, <2>7, <3>1 DEF Room
    <2>9. age' \in Seq(1..Len(abs))
      BY <1>2, <2>1, <2>5, MovedToEnd
    <2>. QED BY <1>1, <2>1, <2>8, <2>9, PlaceStep
  <1>5. CASE ~ok
    <2>1. /\ wpc' = "scan" /\ pos' = pos + 1 /\ aux_buffers' = aux_buffers /\ age' = age
          /\ cur' = cur /\ refs' = refs /\ handled' = handled /\ arb' = arb
      BY <1>5 DEF take, bufVars, Rest, mgrVars
    <2>2. Needed' = Needed
      BY <2>1 DEF Needed
    <2>3. ManagerType' /\ ArbInv' /\ DropInv' /\ RangesInv'
      <3>1. pushed' \in Nat /\ pushed <= pushed'
        BY <1>1, Typing
      <3>. QED BY <2>2, <3>1, ManagerRests DEF Rest
    <2>4. SourceType'
      BY <1>1, <1>2, <2>1 DEF auxInv, SourceType, Scanning
    <2>5. BuffersInv'
      BY <2>1 DEF auxInv, BuffersInv, BufferOK
    <2>6. StringsKept'
      BY <2>1, <2>2 DEF auxInv, StringsKept, StringKept
    <2>7. ScanInv'
      BY <2>1 DEF ScanInv
    <2>. QED BY <2>3, <2>4, <2>5, <2>6, <2>7 DEF auxInv
  <1>. QED BY <1>4, <1>5

\* A new buffer takes the string.
LEMMA NewStep ==
  ASSUME auxInv, Rest, new_aux_buffer PROVE auxInv'
  <1>. DEFINE n == Len(aux_buffers)
              z == NewSize(want)
              nb == [size |-> z, head |-> 0, first |-> 0, last |-> NoId,
                     reusable |-> FALSE, data |-> [o \in 0..(z - 1) |-> 0]]
              abs == Append(aux_buffers, nb)
  <1>1. /\ wpc = "scan" /\ want' = want /\ pushed' = pushed /\ pos' = pos /\ ri' = ri
        /\ rbegin' = rbegin /\ rend' = rend /\ Place(n + 1, abs) /\ age' = Append(age, n + 1)
    BY DEF new_aux_buffer
  <1>2. /\ aux_buffers \in Seq(Buffer) /\ age \in Seq(1..n) /\ want \in Nat /\ n \in Nat
    BY DEF auxInv, SourceType
  <1>3. z \in Nat /\ want <= z
    BY <1>2, NewSizeEnough
  <1>. HIDE DEF z
  <1>4. /\ nb \in Buffer /\ nb.head = 0 /\ nb.first = 0 /\ nb.size = z /\ ~nb.reusable
        /\ DOMAIN nb.data = 0..(z - 1)
    <2>1. [o \in 0..(z - 1) |-> 0] \in UNION {[0..(s - 1) -> Nat] : s \in Nat}
      BY <1>3
    <2>. QED BY <1>3, <2>1 DEF Buffer, NoId
  <1>. HIDE DEF nb
  <1>5. /\ abs \in Seq(Buffer) /\ Len(abs) = n + 1 /\ abs[n + 1] = nb
        /\ \A k \in 1..n : abs[k] = aux_buffers[k]
    BY <1>2, <1>4
  <1>6. Room(n + 1, abs, want')
    <2>1. BufferOK(nb, Len(refs))
      BY <1>3, <1>4, Typing DEF BufferOK
    <2>2. \A k \in 1..(n + 1) : k <= n \/ k = n + 1
      BY <1>2
    <2>3. ~(n + 1 <= n) /\ n + 1 \in 1..(n + 1) /\ n <= n + 1 /\ 0 + want <= z
      BY <1>2, <1>3
    <2>. QED BY <1>1, <1>2, <1>4, <1>5, <2>1, <2>2, <2>3 DEF Room
  <1>7. age' \in Seq(1..Len(abs))
    <2>1. age \in Seq(1..(n + 1)) /\ n + 1 \in 1..(n + 1)
      BY <1>2
    <2>. QED BY <1>1, <1>5, <2>1
  <1>. QED BY <1>1, <1>6, <1>7, PlaceStep

-----------------------------------------------------------------------------
(* The steps of the manager and the arbiter.                               *)

\* What a slot says stays true when fewer events are needed and more are reported.
LEMMA SlotInvStays ==
  ASSUME NEW N, NEW M, M \subseteq N, NEW d, d.end \in Nat, NEW e \in Nat, NEW f \in Nat,
         e <= f, NEW open \in BOOLEAN, SlotInv(N, d, e, open),
         NEW open2 \in BOOLEAN, open => open2 \/ d.begin <= d.end
  PROVE  SlotInv(M, d, f, open2)
  BY DEF SlotInv, NoneIn

\* A step of the manager or the arbiter: begin of a slot that the source may have
\* read stays, and its end grows.
LEMMA OthersAct ==
  ASSUME auxInv, UNCHANGED srcVars, Needed' \subseteq Needed,
         ManagerType', ArbInv', DropInv', RangesInv',
         \A i \in Ranges :
           dropped_ranges[i].end # 0 /\ wpc \in {"begin", "end"} /\ i = ri =>
           /\ dropped_ranges'[i].begin = dropped_ranges[i].begin
           /\ dropped_ranges[i].end <= dropped_ranges'[i].end
  PROVE  auxInv'
  <1>1. /\ SourceType' /\ BuffersInv' /\ StringsKept'
        /\ (wpc \in {"reset", "dropped"} => \A id \in Needed : refs[id].idx # age[pos])'
    BY SourceRests
  <1>2. wpc' = wpc /\ ri' = ri /\ rend' = rend /\ rbegin' = rbegin
    BY DEF srcVars, scanVars
  <1>3. ASSUME wpc \in {"begin", "end"}
        PROVE  /\ 0 < rend /\ rend <= dropped_ranges'[ri].end
               /\ wpc = "end" => rbegin = dropped_ranges'[ri].begin
    <2>1. /\ 0 < rend /\ rend <= dropped_ranges[ri].end
          /\ wpc = "end" => rbegin = dropped_ranges[ri].begin
      BY <1>3 DEF auxInv, ScanInv
    <2>2. rend \in Nat /\ dropped_ranges[ri].end \in Nat /\ ri \in Ranges
      BY Typing DEF auxInv, SourceType
    <2>3. dropped_ranges'[ri].end \in Nat
      <3>1. dropped_ranges'[ri] \in [begin : Nat, end : Nat]
        BY <2>2 DEF ManagerType
      <3>. QED BY <3>1
    <2>4. dropped_ranges[ri].end # 0
      BY <2>1, <2>2
    <2>5. /\ dropped_ranges'[ri].begin = dropped_ranges[ri].begin
          /\ dropped_ranges[ri].end <= dropped_ranges'[ri].end
      BY <1>3, <2>2, <2>4
    <2>. QED BY <2>1, <2>2, <2>3, <2>5
  <1>4. ScanInv'
    BY <1>1, <1>2, <1>3 DEF ScanInv
  <1>. QED BY <1>1, <1>4 DEF auxInv

\* The slots after a step that does not write them.
LEMMA SlotsStay ==
  ASSUME auxInv, Needed' \subseteq Needed, dropped_ranges' = dropped_ranges,
         range'.end \in Nat, range.end <= range'.end, mpc # "end" \/ mpc' = "end",
         dropped_ranges_next' = dropped_ranges_next \/ mpc # "end"
  PROVE  \A i \in Ranges : SlotInv(Needed', dropped_ranges'[i], range'.end,
                                   mpc' = "end" /\ i = dropped_ranges_next')
  <1>. SUFFICES ASSUME NEW i \in Ranges
                PROVE  SlotInv(Needed', dropped_ranges[i], range'.end,
                               mpc' = "end" /\ i = dropped_ranges_next')
    OBVIOUS
  <1>1. SlotInv(Needed, dropped_ranges[i], range.end, mpc = "end" /\ i = dropped_ranges_next)
    BY DEF auxInv, RangesInv
  <1>. QED BY <1>1, Typing, SlotInvStays

\* The rest of the events' side, when only the program counter of the manager and
\* the ranges change.
LEMMA EventsRest ==
  ASSUME auxInv, UNCHANGED <<srcVars, last_processed_id, handled, drop_begin_id, arb>>,
         range' = range, dropped_ranges' \in [Ranges -> [begin : Nat, end : Nat]],
         dropped_ranges_next' \in Ranges,
         mpc' \in {"run", "notify", "lock", "lockend", "begin", "end", "unlock"}
  PROVE  Needed' \subseteq Needed /\ ManagerType' /\ ArbInv' /\ DropInv' /\ UNCHANGED srcVars
  <1>1. /\ last_processed_id' = last_processed_id /\ handled' = handled
        /\ drop_begin_id' = drop_begin_id /\ arb' = arb /\ pushed' = pushed /\ refs' = refs
    BY DEF srcVars, bufVars
  <1>2. Needed' = Needed
    BY <1>1 DEF Needed
  <1>3. ManagerType'
    BY <1>1 DEF auxInv, ManagerType
  <1>4. ArbInv' /\ DropInv'
    BY <1>1 DEF auxInv, ArbInv, DropInv
  <1>. QED BY <1>2, <1>3, <1>4

\* The source and the arbiter rest.
Untouched == UNCHANGED <<srcVars, last_processed_id>>

\* The manager extends the current slot, if it holds the same range, or chooses the
\* next one.
LEMMA NotifyStep ==
  ASSUME auxInv, Untouched, notify_dropped PROVE auxInv'
  <1>. DEFINE i == dropped_ranges_next
              r == dropped_ranges[i]
  <1>1. /\ mpc = "notify" /\ range' = range /\ dropped_ranges' = dropped_ranges
        /\ UNCHANGED <<srcVars, last_processed_id, handled, drop_begin_id, arb>>
        /\ \/ /\ mpc' = "lockend" /\ dropped_ranges_next' = i
              /\ r.begin = range.begin \/ (r.begin > 0 /\ r.end = r.begin - 1)
           \/ mpc' = "lock" /\ dropped_ranges_next' = IF i + 1 = RangesNum THEN 0 ELSE i + 1
    BY DEF notify_dropped, Untouched
  <1>2. /\ dropped_ranges \in [Ranges -> [begin : Nat, end : Nat]]
        /\ i \in Ranges /\ r.begin \in Nat /\ r.end \in Nat /\ range.end \in Nat
    BY Typing DEF auxInv, ManagerType
  <1>3. dropped_ranges_next' \in Ranges
    BY <1>1, <1>2 DEF Ranges
  <1>4. Needed' \subseteq Needed /\ ManagerType' /\ ArbInv' /\ DropInv'
    BY <1>1, <1>2, <1>3, EventsRest
  <1>5. mpc' = "lockend" => r.begin = range.begin
    <2>1. SlotInv(Needed, r, range.end, FALSE)
      <3>1. SlotInv(Needed, r, range.end, mpc = "end" /\ i = dropped_ranges_next)
        BY <1>2 DEF auxInv, RangesInv
      <3>. QED BY <1>1, <3>1 DEF SlotInv
    <2>2. ~(r.begin > 0 /\ r.end = r.begin - 1)
      BY <1>2, <2>1 DEF SlotInv
    <2>. QED BY <1>1, <2>2
  <1>6. RangesInv'
    <2>1. \A k \in Ranges : SlotInv(Needed', dropped_ranges'[k], range'.end,
                                    mpc' = "end" /\ k = dropped_ranges_next')
      BY <1>1, <1>2, <1>4, SlotsStay
    <2>2. /\ range.end <= handled /\ 0 < range.begin /\ range.begin <= range.end
          /\ NoneIn(Needed, range.begin, range.end)
      BY <1>1 DEF auxInv, RangesInv
    <2>3. NoneIn(Needed', range.begin, range.end)
      BY <1>4, <2>2 DEF NoneIn
    <2>4. handled' = handled
      BY <1>1
    <2>. QED BY <1>1, <1>5, <2>1, <2>2, <2>3, <2>4 DEF RangesInv
  <1>. QED BY <1>1, <1>2, <1>4, <1>6, Typing, OthersAct

\* The lock does not matter to the invariant.
LEMMA NotifyLockStep ==
  ASSUME auxInv, Untouched, notify_lock PROVE auxInv'
  <1>1. /\ mpc \in {"lock", "lockend"} /\ range' = range /\ dropped_ranges' = dropped_ranges
        /\ dropped_ranges_next' = dropped_ranges_next
        /\ UNCHANGED <<srcVars, last_processed_id, handled, drop_begin_id, arb>>
        /\ mpc' \in {mpc, IF mpc = "lock" THEN "begin" ELSE "end"}
    BY DEF notify_lock, drop_ranges_lock, Untouched, rangeVars
  <1>2. /\ dropped_ranges \in [Ranges -> [begin : Nat, end : Nat]]
        /\ dropped_ranges_next \in Ranges /\ range.end \in Nat
    BY Typing DEF auxInv, ManagerType
  <1>3. Needed' \subseteq Needed /\ ManagerType' /\ ArbInv' /\ DropInv'
    BY <1>1, <1>2, EventsRest
  <1>4. RangesInv'
    <2>1. \A k \in Ranges : SlotInv(Needed', dropped_ranges'[k], range'.end,
                                    mpc' = "end" /\ k = dropped_ranges_next')
      BY <1>1, <1>2, <1>3, SlotsStay
    <2>2. /\ range.end <= handled /\ 0 < range.begin /\ range.begin <= range.end
          /\ NoneIn(Needed, range.begin, range.end)
          /\ mpc = "lockend" => dropped_ranges[dropped_ranges_next].begin = range.begin
      BY <1>1 DEF auxInv, RangesInv
    <2>3. NoneIn(Needed', range.begin, range.end)
      BY <1>3, <2>2 DEF NoneIn
    <2>4. handled' = handled
      BY <1>1
    <2>. QED BY <1>1, <2>1, <2>2, <2>3, <2>4 DEF RangesInv
  <1>. QED BY <1>1, <1>2, <1>3, <1>4, Typing, OthersAct

\* The begin of a slot without an end: the source has not looked at it.
LEMMA NotifyBeginStep ==
  ASSUME auxInv, SlotUnread, Untouched, notify_begin PROVE auxInv'
  <1>. DEFINE n == dropped_ranges_next
  <1>1. /\ mpc = "begin" /\ mpc' = "end" /\ range' = range /\ dropped_ranges_next' = n
        /\ dropped_ranges' = [dropped_ranges EXCEPT ![n].begin = range.begin]
        /\ UNCHANGED <<srcVars, last_processed_id, handled, drop_begin_id, arb>>
        /\ dropped_ranges[n].end # 0 => ~(wpc \in {"begin", "end"} /\ ri = n)
    BY DEF notify_begin, Untouched, SlotUnread
  <1>2. /\ dropped_ranges \in [Ranges -> [begin : Nat, end : Nat]]
        /\ n \in Ranges /\ range.end \in Nat /\ range.begin \in Nat
    BY Typing DEF auxInv, ManagerType
  <1>3. /\ dropped_ranges' \in [Ranges -> [begin : Nat, end : Nat]]
        /\ dropped_ranges'[n].begin = range.begin
        /\ dropped_ranges'[n].end = dropped_ranges[n].end
        /\ \A i \in Ranges : i # n => dropped_ranges'[i] = dropped_ranges[i]
    BY <1>1, <1>2
  <1>4. Needed' \subseteq Needed /\ ManagerType' /\ ArbInv' /\ DropInv'
    BY <1>1, <1>2, <1>3, EventsRest
  <1>5. RangesInv'
    <2>0. 0 < range.begin /\ NoneIn(Needed, range.begin, range.end)
      BY <1>1 DEF auxInv, RangesInv
    <2>1. ASSUME NEW i \in Ranges
          PROVE  SlotInv(Needed', dropped_ranges'[i], range.end, mpc' = "end" /\ i = n)
      <3>1. CASE i = n
        <4>1. dropped_ranges[n].end \in Nat /\ dropped_ranges[n].end <= range.end
          BY <1>2, Typing DEF auxInv, RangesInv, SlotInv
        <4>2. NoneIn(Needed', range.begin, dropped_ranges[n].end)
          <5>1. \A id \in Needed : id \in Nat
            BY NeededFacts
          <5>. QED BY <1>2, <1>4, <2>0, <4>1, <5>1 DEF NoneIn
        <4>. QED BY <1>1, <1>2, <1>3, <2>0, <3>1, <4>1, <4>2 DEF SlotInv
      <3>2. CASE i # n
        <4>1. SlotInv(Needed, dropped_ranges[i], range.end, mpc = "end" /\ i = n)
          BY DEF auxInv, RangesInv
        <4>2. dropped_ranges'[i] = dropped_ranges[i] /\ dropped_ranges[i].end \in Nat
          BY <1>3, <3>2, Typing
        <4>3. SlotInv(Needed', dropped_ranges[i], range.end, mpc' = "end" /\ i = n)
          <5>1. ~(mpc = "end" /\ i = n) /\ range.end <= range.end
            BY <1>1, <1>2, <3>2
          <5>. QED BY <1>2, <1>4, <4>1, <4>2, <5>1, SlotInvStays
        <4>. QED BY <4>2, <4>3
      <3>. QED BY <3>1, <3>2
    <2>2. /\ range.end <= handled /\ 0 < range.begin /\ range.begin <= range.end
          /\ NoneIn(Needed, range.begin, range.end)
      BY <1>1 DEF auxInv, RangesInv
    <2>3. NoneIn(Needed', range.begin, range.end)
      BY <1>4, <2>2 DEF NoneIn
    <2>4. handled' = handled
      BY <1>1
    <2>. QED BY <1>1, <1>3, <2>1, <2>2, <2>3, <2>4 DEF RangesInv
  <1>6. ASSUME NEW i \in Ranges, dropped_ranges[i].end # 0, wpc \in {"begin", "end"}, i = ri
        PROVE  /\ dropped_ranges'[i].begin = dropped_ranges[i].begin
               /\ dropped_ranges[i].end <= dropped_ranges'[i].end
    <2>1. i # n
      BY <1>1, <1>6
    <2>. QED BY <1>3, <1>6, <2>1, Typing
  <1>. QED BY <1>1, <1>4, <1>5, <1>6, OthersAct

\* The end of the current slot grows to that of the range.
LEMMA NotifyEndStep ==
  ASSUME auxInv, Untouched, notify_end PROVE auxInv'
  <1>. DEFINE n == dropped_ranges_next
  <1>1. /\ mpc = "end" /\ mpc' = "unlock" /\ range' = range /\ dropped_ranges_next' = n
        /\ dropped_ranges' = [dropped_ranges EXCEPT ![n].end = range.end]
        /\ UNCHANGED <<srcVars, last_processed_id, handled, drop_begin_id, arb>>
    BY DEF notify_end, Untouched
  <1>2. /\ dropped_ranges \in [Ranges -> [begin : Nat, end : Nat]]
        /\ n \in Ranges /\ range.end \in Nat /\ range.begin \in Nat
    BY Typing DEF auxInv, ManagerType
  <1>3. /\ dropped_ranges' \in [Ranges -> [begin : Nat, end : Nat]]
        /\ dropped_ranges'[n].begin = dropped_ranges[n].begin
        /\ dropped_ranges'[n].end = range.end
        /\ \A i \in Ranges : i # n => dropped_ranges'[i] = dropped_ranges[i]
    BY <1>1, <1>2
  <1>4. Needed' \subseteq Needed /\ ManagerType' /\ ArbInv' /\ DropInv'
    BY <1>1, <1>2, <1>3, EventsRest
  <1>5. /\ range.end <= handled /\ 0 < range.begin /\ range.begin <= range.end
        /\ NoneIn(Needed, range.begin, range.end)
        /\ dropped_ranges[n].begin = range.begin
    BY <1>1 DEF auxInv, RangesInv
  <1>6. NoneIn(Needed', range.begin, range.end)
    BY <1>4, <1>5 DEF NoneIn
  <1>7. ASSUME NEW i \in Ranges PROVE dropped_ranges[i].end <= range.end
    BY DEF auxInv, RangesInv, SlotInv
  <1>8. RangesInv'
    <2>1. ASSUME NEW i \in Ranges
          PROVE  SlotInv(Needed', dropped_ranges'[i], range.end, mpc' = "end" /\ i = n)
      <3>1. CASE i = n
        BY <1>2, <1>3, <1>5, <1>6, <3>1 DEF SlotInv
      <3>2. CASE i # n
        <4>1. SlotInv(Needed, dropped_ranges[i], range.end, mpc = "end" /\ i = n)
          BY DEF auxInv, RangesInv
        <4>2. dropped_ranges'[i] = dropped_ranges[i] /\ dropped_ranges[i].end \in Nat
          BY <1>3, <3>2, Typing
        <4>3. SlotInv(Needed', dropped_ranges[i], range.end, mpc' = "end" /\ i = n)
          <5>1. ~(mpc = "end" /\ i = n) /\ range.end <= range.end
            BY <1>1, <1>2, <3>2
          <5>. QED BY <1>2, <1>4, <4>1, <4>2, <5>1, SlotInvStays
        <4>. QED BY <4>2, <4>3
      <3>. QED BY <3>1, <3>2
    <2>2. handled' = handled
      BY <1>1
    <2>. QED BY <1>1, <1>5, <1>6, <2>1, <2>2 DEF RangesInv
  <1>9. \A i \in Ranges : dropped_ranges[i].end # 0 =>
          /\ dropped_ranges'[i].begin = dropped_ranges[i].begin
          /\ dropped_ranges[i].end <= dropped_ranges'[i].end
    <2>. SUFFICES ASSUME NEW i \in Ranges
                  PROVE  /\ dropped_ranges'[i].begin = dropped_ranges[i].begin
                         /\ dropped_ranges[i].end <= dropped_ranges'[i].end
      OBVIOUS
    <2>1. CASE i = n
      BY <1>3, <1>7, <2>1
    <2>2. CASE i # n
      BY <1>3, <2>2, Typing
    <2>. QED BY <2>1, <2>2
  <1>. QED BY <1>1, <1>4, <1>8, <1>9, OthersAct

\* The report ends.
LEMMA NotifyUnlockStep ==
  ASSUME auxInv, Untouched, notify_unlock PROVE auxInv'
  <1>1. /\ mpc = "unlock" /\ mpc' = "run" /\ range' = range
        /\ dropped_ranges' = dropped_ranges /\ dropped_ranges_next' = dropped_ranges_next
        /\ UNCHANGED <<srcVars, last_processed_id, handled, drop_begin_id, arb>>
    BY DEF notify_unlock, Untouched, rangeVars
  <1>2. /\ dropped_ranges \in [Ranges -> [begin : Nat, end : Nat]]
        /\ dropped_ranges_next \in Ranges /\ range.end \in Nat
    BY Typing DEF auxInv, ManagerType
  <1>3. Needed' \subseteq Needed /\ ManagerType' /\ ArbInv' /\ DropInv'
    BY <1>1, <1>2, EventsRest
  <1>4. RangesInv'
    <2>1. \A k \in Ranges : SlotInv(Needed', dropped_ranges'[k], range'.end,
                                    mpc' = "end" /\ k = dropped_ranges_next')
      BY <1>1, <1>2, <1>3, SlotsStay
    <2>2. range.end <= handled /\ handled' = handled
      BY <1>1 DEF auxInv, RangesInv
    <2>. QED BY <1>1, <2>1, <2>2 DEF RangesInv
  <1>. QED BY <1>1, <1>2, <1>3, <1>4, Typing, OthersAct

\* An event goes to the arbiter: it is needed before and after.
LEMMA ForwardStep ==
  ASSUME auxInv, Untouched, forward PROVE auxInv'
  <1>. DEFINE h == handled + 1
              e == [hole |-> FALSE, id |-> h]
              n == Len(arb)
  <1>1. /\ mpc = "run" /\ mpc' = "run" /\ handled < pushed /\ drop_begin_id = 0
        /\ drop_begin_id' = 0 /\ handled' = h /\ arb' = Append(arb, e) /\ range' = range
        /\ dropped_ranges' = dropped_ranges /\ dropped_ranges_next' = dropped_ranges_next
        /\ last_processed_id' = last_processed_id /\ pushed' = pushed /\ refs' = refs
        /\ UNCHANGED srcVars
    BY DEF forward, Untouched, rangeVars, srcVars, bufVars
  <1>2. /\ arb \in Seq([hole : BOOLEAN, id : Nat]) /\ e \in [hole : BOOLEAN, id : Nat]
        /\ n \in Nat /\ e.id = h /\ e.hole = FALSE /\ h \in Nat
    BY Typing DEF auxInv, ManagerType
  <1>3. /\ arb' \in Seq([hole : BOOLEAN, id : Nat]) /\ Len(arb') = n + 1 /\ arb'[n + 1] = e
        /\ \A i \in 1..n : arb'[i] = arb[i]
        /\ DOMAIN arb' = 1..(n + 1) /\ DOMAIN arb = 1..n
    <2>. HIDE DEF e
    <2>. QED BY <1>1, <1>2
  <1>4. Needed' \subseteq Needed
    <2>1. h \in DOMAIN refs /\ h > handled
      <3>1. DOMAIN refs = 1..Len(refs)
        BY DEF auxInv, SourceType
      <3>. QED BY <1>1, <3>1, Typing
    <2>2. ASSUME NEW id \in Needed' PROVE id \in Needed
      <3>1. CASE id \in DOMAIN refs /\ id > h
        <4>1. id > handled
          <5>1. DOMAIN refs = 1..Len(refs)
            BY DEF auxInv, SourceType
          <5>. QED BY <3>1, <5>1, Typing
        <4>. QED BY <3>1, <4>1 DEF Needed
      <3>2. CASE \E i \in 1..(n + 1) : ~arb'[i].hole /\ id = arb'[i].id
        <4>1. PICK i \in 1..(n + 1) : ~arb'[i].hole /\ id = arb'[i].id
          BY <3>2
        <4>2. CASE i = n + 1
          BY <1>2, <1>3, <2>1, <4>1, <4>2 DEF Needed
        <4>3. CASE i # n + 1
          <5>1. i \in 1..n
            BY <1>2, <4>3
          <5>. QED BY <1>3, <4>1, <5>1 DEF Needed
        <4>. QED BY <4>2, <4>3
      <3>. QED BY <1>1, <1>3, <3>1, <3>2 DEF Needed
    <2>. QED BY <2>2
  <1>5. ManagerType'
    <2>1. h \in 0..pushed /\ 0 \in 0..h /\ last_processed_id \in 0..h
      BY <1>1, Typing
    <2>. QED BY <1>1, <1>3, <2>1 DEF auxInv, ManagerType
  <1>6. ArbInv' /\ DropInv'
    <2>1. /\ \A i \in 1..n : last_processed_id < arb[i].id /\ arb[i].id <= handled
          /\ \A i, j \in 1..n : i < j => arb[i].id < arb[j].id
      BY DEF auxInv, ArbInv
    <2>2. \A i \in 1..(n + 1) : last_processed_id < arb'[i].id /\ arb'[i].id <= h
      <3>. SUFFICES ASSUME NEW i \in 1..(n + 1)
                    PROVE  last_processed_id < arb'[i].id /\ arb'[i].id <= h
        OBVIOUS
      <3>1. CASE i = n + 1
        BY <1>2, <1>3, <3>1, Typing
      <3>2. CASE i # n + 1
        <4>1. i \in 1..n
          BY <1>2, <3>2
        <4>2. arb'[i].id = arb[i].id
          BY <1>3, <4>1
        <4>3. last_processed_id < arb[i].id /\ arb[i].id <= handled
          BY <2>1, <4>1
        <4>4. arb[i].id \in Nat /\ handled \in Nat
          BY <4>1, Typing
        <4>5. arb[i].id <= h
          BY <1>1, <4>3, <4>4
        <4>. QED BY <4>2, <4>3, <4>5
      <3>. QED BY <3>1, <3>2
    <2>3. ASSUME NEW i \in 1..(n + 1), NEW j \in 1..(n + 1), i < j
          PROVE  arb'[i].id < arb'[j].id
      <3>1. i \in 1..n /\ (j = n + 1 \/ j \in 1..n)
        BY <1>2, <2>3
      <3>2. CASE j = n + 1
        <4>1. arb'[i].id = arb[i].id /\ arb'[j].id = h
          BY <1>2, <1>3, <3>1, <3>2
        <4>2. arb[i].id \in Nat /\ handled \in Nat /\ arb[i].id <= handled
          BY <2>1, <3>1, Typing
        <4>. QED BY <4>1, <4>2
      <3>3. CASE j \in 1..n
        <4>1. arb'[i].id = arb[i].id /\ arb'[j].id = arb[j].id
          BY <1>3, <3>1, <3>3
        <4>2. arb[i].id < arb[j].id
          BY <2>1, <2>3, <3>1, <3>3
        <4>. QED BY <4>1, <4>2
      <3>. QED BY <3>1, <3>2, <3>3
    <2>. QED BY <1>1, <1>3, <2>2, <2>3 DEF ArbInv, DropInv
  <1>7. RangesInv'
    <2>1. \A k \in Ranges : SlotInv(Needed', dropped_ranges'[k], range'.end,
                                    mpc' = "end" /\ k = dropped_ranges_next')
      <3>1. range.end \in Nat /\ range.end <= range.end
        BY Typing
      <3>. QED BY <1>1, <1>4, <3>1, SlotsStay
    <2>2. range.end <= h
      BY Typing DEF auxInv, RangesInv
    <2>. QED BY <1>1, <2>1, <2>2 DEF RangesInv
  <1>. QED BY <1>1, <1>4, <1>5, <1>6, <1>7, Typing, OthersAct

\* An event is dropped, and the ones before it may be reported.
LEMMA DropStep ==
  ASSUME auxInv, Untouched, NEW report \in BOOLEAN, drop_event(report) PROVE auxInv'
  <1>. DEFINE h == handled + 1
              b == IF drop_begin_id = 0 THEN h ELSE drop_begin_id
  <1>1. /\ mpc = "run" /\ handled < pushed /\ drop_begin_id' = b /\ handled' = h
        /\ arb' = arb /\ dropped_ranges' = dropped_ranges
        /\ dropped_ranges_next' = dropped_ranges_next
        /\ last_processed_id' = last_processed_id /\ pushed' = pushed /\ refs' = refs
        /\ UNCHANGED srcVars
        /\ \/ mpc' = "run" /\ range' = range
           \/ /\ mpc' = "notify" /\ range' = [begin |-> drop_begin_id, end |-> handled]
              /\ drop_begin_id > 0
    BY DEF drop_event, Untouched, rangeVars, srcVars, bufVars
  <1>2. Needed' \subseteq Needed
    <2>1. DOMAIN refs = 1..Len(refs)
      BY DEF auxInv, SourceType
    <2>2. \A id \in 1..Len(refs) : id > h => id > handled
      BY Typing
    <2>. QED BY <1>1, <2>1, <2>2 DEF Needed
  <1>3. range'.end \in Nat /\ range'.begin \in Nat /\ range.end <= range'.end
        /\ range'.end <= handled /\ range' \in [begin : Nat, end : Nat]
    <2>1. range.end <= handled /\ range \in [begin : Nat, end : Nat]
      BY DEF auxInv, RangesInv, ManagerType
    <2>. QED BY <1>1, <2>1, Typing
  <1>4. ManagerType'
    <2>1. h \in 0..pushed /\ b \in 0..h /\ last_processed_id \in 0..h
      BY <1>1, Typing
    <2>. QED BY <1>1, <1>3, <2>1 DEF auxInv, ManagerType
  <1>5. ArbInv' /\ DropInv'
    <2>1. /\ \A i \in 1..Len(arb) : /\ last_processed_id < arb[i].id /\ arb[i].id <= handled
                                    /\ drop_begin_id > 0 => arb[i].id < drop_begin_id
          /\ \A i, j \in 1..Len(arb) : i < j => arb[i].id < arb[j].id
          /\ drop_begin_id > 0 => last_processed_id < drop_begin_id
      BY DEF auxInv, ArbInv, DropInv
    <2>2. ASSUME NEW i \in 1..Len(arb) PROVE arb[i].id <= h /\ arb[i].id < b
      BY <2>1, Typing
    <2>3. last_processed_id < b
      BY <2>1, Typing
    <2>. QED BY <1>1, <2>1, <2>2, <2>3 DEF ArbInv, DropInv
  <1>6. RangesInv'
    <2>1. \A k \in Ranges : SlotInv(Needed', dropped_ranges'[k], range'.end,
                                    mpc' = "end" /\ k = dropped_ranges_next')
      BY <1>1, <1>2, <1>3, SlotsStay
    <2>2. range'.end <= h
      BY <1>3, Typing
    <2>3. mpc' # "run" => /\ 0 < range'.begin /\ range'.begin <= range'.end
                          /\ NoneIn(Needed', range'.begin, range'.end)
      <3>. SUFFICES ASSUME mpc' = "notify"
                    PROVE  /\ 0 < range'.begin /\ range'.begin <= range'.end
                           /\ NoneIn(Needed', range'.begin, range'.end)
        BY <1>1
      <3>1. range'.begin = drop_begin_id /\ range'.end = handled /\ drop_begin_id > 0
        BY <1>1
      <3>2. NoneIn(Needed, drop_begin_id, handled)
        BY <3>1, NeededFacts
      <3>3. NoneIn(Needed', drop_begin_id, handled)
        BY <1>2, <3>2 DEF NoneIn
      <3>. QED BY <3>1, <3>3, Typing
    <2>4. mpc' \notin {"lockend", "end"}
      BY <1>1
    <2>. QED BY <1>1, <2>1, <2>2, <2>3, <2>4 DEF RangesInv
  <1>. QED BY <1>1, <1>2, <1>4, <1>5, <1>6, Typing, OthersAct

\* The hole for the dropped events goes to the arbiter, and they are reported.
LEMMA HoleStep ==
  ASSUME auxInv, Untouched, push_dropped_event PROVE auxInv'
  <1>. DEFINE e == [hole |-> TRUE, id |-> handled]
              n == Len(arb)
  <1>1. /\ mpc = "run" /\ mpc' = "notify" /\ drop_begin_id > 0 /\ drop_begin_id' = 0
        /\ handled' = handled /\ arb' = Append(arb, e)
        /\ range' = [begin |-> drop_begin_id, end |-> handled]
        /\ dropped_ranges' = dropped_ranges /\ dropped_ranges_next' = dropped_ranges_next
        /\ last_processed_id' = last_processed_id /\ pushed' = pushed /\ refs' = refs
        /\ UNCHANGED srcVars
    BY DEF push_dropped_event, Untouched, rangeVars, srcVars, bufVars
  <1>2. /\ arb \in Seq([hole : BOOLEAN, id : Nat]) /\ e \in [hole : BOOLEAN, id : Nat]
        /\ n \in Nat /\ e.id = handled /\ e.hole = TRUE
    BY Typing DEF auxInv, ManagerType
  <1>3. /\ arb' \in Seq([hole : BOOLEAN, id : Nat]) /\ Len(arb') = n + 1 /\ arb'[n + 1] = e
        /\ \A i \in 1..n : arb'[i] = arb[i]
        /\ DOMAIN arb' = 1..(n + 1) /\ DOMAIN arb = 1..n
    <2>. HIDE DEF e
    <2>. QED BY <1>1, <1>2
  <1>4. Needed' \subseteq Needed
    <2>1. ASSUME NEW i \in 1..(n + 1), ~arb'[i].hole
          PROVE  i \in 1..n /\ arb'[i] = arb[i]
      <3>1. i # n + 1
        BY <1>2, <1>3, <2>1
      <3>2. i \in 1..n
        BY <1>2, <3>1
      <3>. QED BY <1>3, <3>2
    <2>. QED BY <1>1, <1>3, <2>1 DEF Needed
  <1>5. ManagerType'
    <2>1. range' \in [begin : Nat, end : Nat] /\ 0 \in 0..handled
      BY <1>1, Typing
    <2>. QED BY <1>1, <1>3, <2>1 DEF auxInv, ManagerType
  <1>6. ArbInv' /\ DropInv'
    <2>1. /\ \A i \in 1..n : /\ last_processed_id < arb[i].id /\ arb[i].id <= handled
                             /\ arb[i].id < drop_begin_id
          /\ \A i, j \in 1..n : i < j => arb[i].id < arb[j].id
          /\ last_processed_id < drop_begin_id
      BY <1>1 DEF auxInv, ArbInv, DropInv
    <2>2. \A i \in 1..(n + 1) : last_processed_id < arb'[i].id /\ arb'[i].id <= handled
      <3>. SUFFICES ASSUME NEW i \in 1..(n + 1)
                    PROVE  last_processed_id < arb'[i].id /\ arb'[i].id <= handled
        OBVIOUS
      <3>1. CASE i = n + 1
        BY <1>2, <1>3, <2>1, <3>1, Typing
      <3>2. CASE i # n + 1
        <4>1. i \in 1..n
          BY <1>2, <3>2
        <4>. QED BY <1>3, <2>1, <4>1
      <3>. QED BY <3>1, <3>2
    <2>3. ASSUME NEW i \in 1..(n + 1), NEW j \in 1..(n + 1), i < j
          PROVE  arb'[i].id < arb'[j].id
      <3>1. i \in 1..n /\ (j = n + 1 \/ j \in 1..n)
        BY <1>2, <2>3
      <3>2. CASE j = n + 1
        <4>1. arb'[i].id = arb[i].id /\ arb'[j].id = handled
          BY <1>2, <1>3, <3>1, <3>2
        <4>2. arb[i].id \in Nat /\ handled \in Nat /\ arb[i].id < drop_begin_id
          BY <2>1, <3>1, Typing
        <4>. QED BY <4>1, <4>2, Typing, SMTT(30)
      <3>3. CASE j \in 1..n
        <4>1. arb'[i].id = arb[i].id /\ arb'[j].id = arb[j].id
          BY <1>3, <3>1, <3>3
        <4>2. arb[i].id < arb[j].id
          BY <2>1, <2>3, <3>1, <3>3
        <4>. QED BY <4>1, <4>2
      <3>. QED BY <3>1, <3>2, <3>3
    <2>. QED BY <1>1, <1>3, <2>2, <2>3 DEF ArbInv, DropInv
  <1>7. RangesInv'
    <2>0. range'.begin = drop_begin_id /\ range'.end = handled
      BY <1>1
    <2>1. \A k \in Ranges : SlotInv(Needed', dropped_ranges'[k], range'.end,
                                    mpc' = "end" /\ k = dropped_ranges_next')
      <3>1. range'.end \in Nat /\ range.end <= range'.end
        BY <2>0, Typing DEF auxInv, RangesInv
      <3>. QED BY <1>1, <1>4, <3>1, SlotsStay
    <2>2. NoneIn(Needed, drop_begin_id, handled)
      BY <1>1, NeededFacts
    <2>3. NoneIn(Needed', drop_begin_id, handled)
      BY <1>4, <2>2 DEF NoneIn
    <2>4. 0 < drop_begin_id /\ drop_begin_id <= handled /\ handled <= handled
      BY <1>1, Typing
    <2>. QED BY <1>1, <2>0, <2>1, <2>3, <2>4 DEF RangesInv
  <1>. QED BY <1>1, <1>4, <1>5, <1>6, <1>7, Typing, OthersAct

\* The arbiter has processed the oldest event or hole.
LEMMA ProcessedStep ==
  ASSUME auxInv, ArbiterStep PROVE auxInv'
  <1>. DEFINE n == Len(arb)
  <1>1. /\ arb # << >> /\ last_processed_id' = Head(arb).id /\ arb' = Tail(arb)
        /\ mpc' = mpc /\ drop_begin_id' = drop_begin_id /\ handled' = handled
        /\ range' = range /\ dropped_ranges' = dropped_ranges
        /\ dropped_ranges_next' = dropped_ranges_next /\ pushed' = pushed /\ refs' = refs
        /\ UNCHANGED srcVars
    BY DEF ArbiterStep, set_last_processed_id, rangeVars, mgrVars, srcVars, bufVars
  <1>2. /\ arb \in Seq([hole : BOOLEAN, id : Nat]) /\ n \in Nat /\ n >= 1
        /\ Head(arb) = arb[1] /\ DOMAIN arb = 1..n
    BY <1>1 DEF auxInv, ManagerType
  <1>3. /\ arb' \in Seq([hole : BOOLEAN, id : Nat]) /\ Len(arb') = n - 1
        /\ \A i \in 1..(n - 1) : arb'[i] = arb[i + 1]
        /\ DOMAIN arb' = 1..(n - 1)
    BY <1>1, <1>2, HeadTailProperties
  <1>4. \A i \in 1..(n - 1) : i + 1 \in 1..n /\ 1 < i + 1 /\ 1 \in 1..n
    BY <1>2
  <1>5. Needed' \subseteq Needed
    BY <1>1, <1>2, <1>3, <1>4 DEF Needed
  <1>6. /\ \A i \in 1..n : /\ last_processed_id < arb[i].id /\ arb[i].id <= handled
                           /\ drop_begin_id > 0 => arb[i].id < drop_begin_id
        /\ \A i, j \in 1..n : i < j => arb[i].id < arb[j].id
    BY DEF auxInv, ArbInv
  <1>7. 1 \in 1..n /\ arb[1].id \in 0..handled
    BY <1>2, <1>6, Typing
  <1>8. ManagerType'
    BY <1>1, <1>2, <1>3, <1>7 DEF auxInv, ManagerType
  <1>9. ArbInv' /\ DropInv'
    <2>1. \A i \in 1..(n - 1) :
            /\ arb[1].id < arb'[i].id /\ arb'[i].id <= handled
            /\ drop_begin_id > 0 => arb'[i].id < drop_begin_id
      BY <1>3, <1>4, <1>6
    <2>2. \A i, j \in 1..(n - 1) : i < j => arb'[i].id < arb'[j].id
      <3>1. \A i, j \in 1..(n - 1) : i < j => i + 1 < j + 1
        BY <1>2
      <3>. QED BY <1>3, <1>4, <1>6, <3>1
    <2>3. drop_begin_id > 0 => arb[1].id < drop_begin_id
      BY <1>6, <1>7
    <2>4. last_processed_id' = arb[1].id
      BY <1>1, <1>2
    <2>. HIDE DEF n
    <2>5. ArbInv'
      BY <1>1, <1>3, <2>1, <2>2, <2>4 DEF ArbInv
    <2>6. DropInv'
      BY <1>1, <2>3, <2>4 DEF DropInv
    <2>. QED BY <2>5, <2>6
  <1>10. RangesInv'
    <2>1. \A k \in Ranges : SlotInv(Needed', dropped_ranges'[k], range'.end,
                                    mpc' = "end" /\ k = dropped_ranges_next')
      <3>1. range.end \in Nat /\ range.end <= range.end
        BY Typing
      <3>. QED BY <1>1, <1>5, <3>1, SlotsStay
    <2>2. range.end <= handled
          /\ (mpc # "run" => /\ 0 < range.begin /\ range.begin <= range.end
                             /\ NoneIn(Needed, range.begin, range.end))
          /\ (mpc \in {"lockend", "end"} =>
                 dropped_ranges[dropped_ranges_next].begin = range.begin)
      BY DEF auxInv, RangesInv
    <2>3. mpc # "run" => NoneIn(Needed', range.begin, range.end)
      BY <1>5, <2>2 DEF NoneIn
    <2>. QED BY <1>1, <2>1, <2>2, <2>3 DEF RangesInv
  <1>. QED BY <1>1, <1>5, <1>8, <1>9, <1>10, Typing, OthersAct

-----------------------------------------------------------------------------
(* The theorems.                                                           *)

\* The invariant holds initially.
LEMMA InitAuxInv == Init => auxInv
  <1>. SUFFICES ASSUME Init PROVE auxInv
    OBVIOUS
  <1>1. 0 \in Ranges
    BY DEF Ranges
  <1>2. SourceType
    BY <1>1 DEF Init, SourceType, Scanning
  <1>3. ManagerType
    BY <1>1 DEF Init, ManagerType
  <1>4. Needed = {}
    BY DEF Init, Needed
  <1>5. ArbInv /\ DropInv /\ BuffersInv
    BY DEF Init, ArbInv, DropInv, BuffersInv
  <1>6. StringsKept
    BY <1>4 DEF StringsKept
  <1>7. RangesInv
    <2>1. \A i \in Ranges : dropped_ranges[i].begin = 0 /\ dropped_ranges[i].end = 0
      BY DEF Init
    <2>2. range.end = 0 /\ handled = 0 /\ mpc = "run"
      BY DEF Init
    <2>. QED BY <2>1, <2>2 DEF RangesInv, SlotInv
  <1>8. ScanInv
    BY DEF Init, ScanInv
  <1>. QED BY <1>2, <1>3, <1>5, <1>6, <1>7, <1>8 DEF auxInv

\* Every step keeps it, if no slot is begun under the source.
LEMMA StepAuxInv == auxInv /\ SlotUnread /\ [Next]_vars => auxInv'
  <1>. SUFFICES ASSUME auxInv, SlotUnread, [Next]_vars PROVE auxInv'
    OBVIOUS
  <1>1. CASE SourceStep
    <2>1. Rest
      BY <1>1 DEF SourceStep, Rest
    <2>. QED BY <1>1, <2>1, PushStep, ScanStep, LockStep, End0Step, BeginStep, EndStep,
                UnlockStep, ResetStep, TakeStep, NewStep, FinishStep
             DEF SourceStep, Source, LockingSource
  <1>2. CASE ManagerStep
    <2>1. Untouched
      BY <1>2 DEF ManagerStep, Untouched
    <2>. QED BY <1>2, <2>1, ForwardStep, DropStep, HoleStep, NotifyStep, NotifyLockStep,
                NotifyBeginStep, NotifyEndStep, NotifyUnlockStep
             DEF ManagerStep, Manager
  <1>3. CASE ArbiterStep
    BY <1>3, ProcessedStep
  <1>4. CASE UNCHANGED vars
    <2>1. /\ UNCHANGED srcVars /\ mpc' = mpc /\ range' = range /\ handled' = handled
          /\ UNCHANGED <<last_processed_id, rangeVars, mgrVars, arb>>
          /\ dropped_ranges' = dropped_ranges /\ arb' = arb /\ pushed' = pushed /\ refs' = refs
      BY <1>4 DEF vars, srcVars, bufVars, rangeVars, mgrVars
    <2>2. Needed' = Needed /\ pushed' \in Nat /\ pushed <= pushed'
      BY <2>1, Typing DEF Needed
    <2>3. ManagerType' /\ ArbInv' /\ DropInv' /\ RangesInv'
      BY <2>1, <2>2, ManagerRests
    <2>. QED BY <2>1, <2>2, <2>3, Typing, OthersAct
  <1>. QED BY <1>1, <1>2, <1>3, <1>4 DEF Next, Finished

\* While the manager begins no slot of dropped_ranges again that the source has
\* begun to read in ab_was_dropped, strings are intact.
THEOREM StringsIntactWhileUnread == Spec /\ []SlotUnread => []StringsIntact
  <1>1. auxInv => StringsIntact
    BY DEF auxInv, StringsKept, StringKept, StringsIntact
  <1>. QED BY <1>1, InitAuxInv, StepAuxInv, PTL DEF Spec

\* If drop_ranges_lock kept source and manager apart, strings would be intact,
\* however many events there are and however often the slots are used again.
THEOREM StringsIntactWithLock == Spec /\ []LockExcludes => []StringsIntact
  <1>1. LockExcludes => SlotUnread
    BY DEF LockExcludes, SlotUnread
  <1>. QED BY <1>1, StringsIntactWhileUnread, PTL

-----------------------------------------------------------------------------
(* With no more events than slots, no slot is used twice.                  *)

\* The manager has chosen a slot and not written it yet.
Opening == mpc \in {"lock", "begin"}

\* The number of slots chosen so far; the slots 1, 2, ... come first, 0 is last.
Used ==
  IF dropped_ranges_next = 0 /\ (dropped_ranges[0].begin > 0 \/ Opening)
  THEN RangesNum ELSE dropped_ranges_next

\* A slot that was never used.
Untaken(d) == d.begin = 0 /\ d.end = 0

\* The begin of the slot that was chosen last.
CurBegin == dropped_ranges[dropped_ranges_next].begin

\* Each slot that is chosen stands for a later range than the one before, so that
\* the number of slots is bounded by the first event of the range.
SlotsInv ==
  /\ \A k \in Ranges :
       k > Used \/ (k = 0 /\ Used < RangesNum) => Untaken(dropped_ranges[k])
  /\ Opening => Untaken(dropped_ranges[dropped_ranges_next])
  /\ Used <= IF Opening THEN range.begin ELSE CurBegin

\* The ranges are reported in order of their first events.
RangeOrder ==
  /\ mpc # "run" => CurBegin <= range.begin
  /\ drop_begin_id > 0 => /\ CurBegin <= drop_begin_id
                          /\ mpc # "run" => range.begin <= drop_begin_id

\* The source stays within the bound on events.
PushedInv == pushed <= MaxEv /\ (wpc # "idle" => pushed < MaxEv)

\* So it does in every step.
LEMMA PushedStays ==
  ASSUME auxInv, PushedInv, [Next]_vars PROVE PushedInv'
  <1>1. CASE SourceStep
    <2>1. \/ pushed' = pushed /\ (wpc # "idle" \/ pushed < MaxEv)
          \/ wpc = "finish" /\ pushed' = pushed + 1 /\ wpc' = "idle"
      <3>1. ASSUME NEW size \in Sizes, buffer_push_strn(size)
            PROVE  pushed' = pushed /\ pushed < MaxEv
        BY <3>1 DEF buffer_push_strn
      <3>2. CASE scan
        BY <3>2 DEF scan
      <3>3. CASE was_dropped_end0
        BY <3>3 DEF was_dropped_end0
      <3>4. CASE was_dropped_begin
        BY <3>4 DEF was_dropped_begin
      <3>5. CASE was_dropped_end
        BY <3>5 DEF was_dropped_end
      <3>6. CASE reset
        BY <3>6 DEF reset
      <3>7. CASE take
        BY <3>7 DEF take
      <3>8. CASE new_aux_buffer
        BY <3>8 DEF new_aux_buffer
      <3>9. CASE finish_push
        BY <3>9 DEF finish_push
      <3>10. CASE was_dropped_lock
        BY <3>10 DEF was_dropped_lock, drop_ranges_lock
      <3>11. CASE was_dropped_unlock
        BY <3>11 DEF was_dropped_unlock
      <3>. QED BY <1>1, <3>1, <3>2, <3>3, <3>4, <3>5, <3>6, <3>7, <3>8, <3>9, <3>10, <3>11
               DEF SourceStep, Source, LockingSource
    <2>. QED BY <2>1, Typing DEF PushedInv
  <1>2. CASE UNCHANGED srcVars
    BY <1>2 DEF PushedInv, srcVars
  <1>3. CASE ~SourceStep
    BY <1>2, <1>3 DEF Next, ManagerStep, ArbiterStep, Finished, vars
  <1>. QED BY <1>1, <1>3

\* Steps that leave the slots and their order alone.
LEMMA SlotsRest ==
  ASSUME SlotsInv, dropped_ranges' = dropped_ranges,
         dropped_ranges_next' = dropped_ranges_next, Opening' <=> Opening,
         range'.begin = range.begin \/ ~Opening
  PROVE  SlotsInv' /\ CurBegin' = CurBegin
  <1>1. Used' = Used /\ CurBegin' = CurBegin
    BY DEF Used, CurBegin
  <1>2. \A k \in Ranges : k > Used' \/ (k = 0 /\ Used' < RangesNum) =>
                           Untaken(dropped_ranges'[k])
    BY <1>1 DEF SlotsInv
  <1>3. Opening' => Untaken(dropped_ranges'[dropped_ranges_next'])
    BY DEF SlotsInv
  <1>4. Used' <= IF Opening' THEN range'.begin ELSE CurBegin'
    BY <1>1 DEF SlotsInv
  <1>. QED BY <1>1, <1>2, <1>3, <1>4 DEF SlotsInv, Untaken

\* The current slot begins before the next event.
LEMMA CurBeginBound ==
  ASSUME auxInv
  PROVE  /\ CurBegin \in Nat /\ Used \in Nat /\ RangesNum \in Nat
         /\ mpc # "end" => CurBegin <= handled
         /\ mpc # "run" => range.begin <= handled /\ 0 < range.begin
         /\ mpc = "end" => CurBegin > 0
  <1>. DEFINE d == dropped_ranges[dropped_ranges_next]
  <1>1. d.begin \in Nat /\ d.end \in Nat /\ dropped_ranges_next \in Ranges
    BY Typing
  <1>2. SlotInv(Needed, d, range.end, mpc = "end" /\ dropped_ranges_next = dropped_ranges_next)
    BY <1>1 DEF auxInv, RangesInv
  <1>3. /\ range.end <= handled
        /\ mpc # "run" => 0 < range.begin /\ range.begin <= range.end
        /\ mpc = "end" => d.begin = range.begin
    BY DEF auxInv, RangesInv
  <1>4. mpc # "end" => d.begin <= handled
    BY <1>1, <1>2, <1>3, Typing DEF SlotInv
  <1>5. Used \in Nat /\ RangesNum \in Nat
    BY <1>1 DEF Used, Ranges
  <1>. QED BY <1>1, <1>3, <1>4, <1>5, Typing DEF CurBegin

\* A new slot: it is the next one, because its range begins after Used others.
LEMMA OpenSlot ==
  ASSUME auxInv, SlotsInv, RangeOrder, PushedInv, MaxEv <= RangesNum, notify_dropped
  PROVE  SlotsInv' /\ RangeOrder'
  <1>. DEFINE n == dropped_ranges_next
  <1>1. /\ mpc = "notify" /\ dropped_ranges' = dropped_ranges /\ range' = range
        /\ drop_begin_id' = drop_begin_id /\ handled' = handled
        /\ \/ mpc' = "lockend" /\ dropped_ranges_next' = n
           \/ /\ mpc' = "lock" /\ CurBegin # range.begin
              /\ dropped_ranges_next' = IF n + 1 = RangesNum THEN 0 ELSE n + 1
    BY DEF notify_dropped, CurBegin
  <1>2. n \in Ranges /\ range.begin \in Nat /\ RangesNum \in Nat
    BY Typing
  <1>3. CASE mpc' = "lockend"
    <2>1. dropped_ranges_next' = n /\ ~Opening /\ ~Opening'
      BY <1>1, <1>3 DEF Opening
    <2>2. SlotsInv' /\ CurBegin' = CurBegin
      BY <1>1, <2>1, SlotsRest
    <2>. QED BY <1>1, <1>3, <2>2 DEF RangeOrder
  <1>4. CASE mpc' = "lock"
    <2>1. ~Opening /\ Opening' /\ Used <= CurBegin /\ CurBegin < range.begin
      <3>1. ~Opening /\ Opening'
        BY <1>1, <1>4 DEF Opening
      <3>2. CurBegin # range.begin
        BY <1>1, <1>4
      <3>. QED BY <1>1, <1>2, <3>1, <3>2, CurBeginBound DEF SlotsInv, RangeOrder
    <2>2. range.begin <= MaxEv
      BY <1>1, <1>2, CurBeginBound, Typing DEF PushedInv
    <2>3. Used + 1 <= range.begin /\ Used < RangesNum
      BY <1>2, <2>1, <2>2, CurBeginBound
    <2>4. Used = n
      BY <2>3 DEF Used
    <2>5. Used' = n + 1
      <3>1. CASE n + 1 = RangesNum
        BY <1>1, <1>4, <2>1, <3>1 DEF Used
      <3>2. CASE n + 1 # RangesNum
        BY <1>1, <1>2, <1>4, <2>1, <3>2 DEF Used, Ranges
      <3>. QED BY <3>1, <3>2
    <2>6. \A k \in Ranges : k > n \/ k = 0 => Untaken(dropped_ranges[k])
      BY <2>3, <2>4 DEF SlotsInv
    <2>7. dropped_ranges_next' \in Ranges /\ (dropped_ranges_next' > n \/ dropped_ranges_next' = 0)
      BY <1>1, <1>2, <1>4 DEF Ranges
    <2>8. Untaken(dropped_ranges[dropped_ranges_next'])
      BY <2>6, <2>7
    <2>9. SlotsInv'
      <3>1. \A k \in Ranges : k > n + 1 \/ k = 0 => k > n \/ k = 0
        BY <1>2 DEF Ranges
      <3>2. \A k \in Ranges : k > Used' \/ (k = 0 /\ Used' < RangesNum) =>
                               Untaken(dropped_ranges'[k])
        BY <1>1, <2>5, <2>6, <3>1
      <3>3. Untaken(dropped_ranges'[dropped_ranges_next'])
        BY <1>1, <2>8
      <3>4. Used' <= range'.begin
        BY <1>1, <2>3, <2>4, <2>5
      <3>. QED BY <2>1, <3>2, <3>3, <3>4 DEF SlotsInv, Untaken
    <2>10. CurBegin' = 0
      BY <1>1, <2>8 DEF CurBegin, Untaken
    <2>11. RangeOrder'
      BY <1>1, <1>2, <2>10, Typing DEF RangeOrder
    <2>. QED BY <2>9, <2>11
  <1>. QED BY <1>1, <1>3, <1>4

\* The current slot is written.
LEMMA WriteSlot ==
  ASSUME auxInv, SlotsInv, RangeOrder, notify_begin \/ notify_end
  PROVE  SlotsInv' /\ RangeOrder'
  <1>. DEFINE n == dropped_ranges_next
  <1>1. /\ range' = range /\ drop_begin_id' = drop_begin_id /\ dropped_ranges_next' = n
        /\ \/ /\ mpc = "begin" /\ mpc' = "end"
              /\ dropped_ranges' = [dropped_ranges EXCEPT ![n].begin = range.begin]
           \/ /\ mpc = "end" /\ mpc' = "unlock"
              /\ dropped_ranges' = [dropped_ranges EXCEPT ![n].end = range.end]
    BY DEF notify_begin, notify_end
  <1>2. n \in Ranges /\ dropped_ranges \in [Ranges -> [begin : Nat, end : Nat]]
        /\ range.begin \in Nat /\ 0 < range.begin
        /\ (mpc = "end" => dropped_ranges[n].begin = range.begin)
    BY <1>1, Typing DEF auxInv, ManagerType, RangesInv
  <1>3. /\ \A k \in Ranges : k # n => dropped_ranges'[k] = dropped_ranges[k]
        /\ dropped_ranges'[n].begin = range.begin
    BY <1>1, <1>2
  <1>4. ~Opening' /\ (Opening <=> mpc = "begin")
    BY <1>1 DEF Opening
  <1>5. Used' = Used /\ (n = 0 => Used = RangesNum) /\ (n # 0 => Used = n)
    <2>1. CASE n = 0
      <3>1. Used = RangesNum
        BY <1>1, <1>2, <1>4, <2>1 DEF Used
      <3>2. Used' = RangesNum
        BY <1>1, <1>2, <1>3, <2>1 DEF Used
      <3>. QED BY <2>1, <3>1, <3>2
    <2>2. CASE n # 0
      BY <1>1, <2>2 DEF Used
    <2>. QED BY <2>1, <2>2
  <1>6. CurBegin' = range.begin
    BY <1>1, <1>3 DEF CurBegin
  <1>7. Used <= range.begin
    BY <1>1, <1>2, <1>4 DEF SlotsInv, CurBegin
  <1>8. SlotsInv'
    <2>1. ASSUME NEW k \in Ranges, k > Used \/ (k = 0 /\ Used < RangesNum)
          PROVE  Untaken(dropped_ranges'[k])
      <3>1. k # n
        BY <1>2, <1>5, <2>1, CurBeginBound DEF Ranges
      <3>. QED BY <1>3, <2>1, <3>1 DEF SlotsInv
    <2>. QED BY <1>4, <1>5, <1>6, <1>7, <2>1 DEF SlotsInv, Untaken
  <1>9. RangeOrder'
    BY <1>1, <1>2, <1>6 DEF RangeOrder
  <1>. QED BY <1>8, <1>9

\* Every step keeps the order of the slots.
LEMMA SlotsStep ==
  ASSUME auxInv, SlotsInv, RangeOrder, PushedInv, MaxEv <= RangesNum, [Next]_vars
  PROVE  SlotsInv' /\ RangeOrder'
  <1>1. CASE UNCHANGED <<rangeVars, mgrVars>>
    <2>1. /\ dropped_ranges' = dropped_ranges /\ dropped_ranges_next' = dropped_ranges_next
          /\ mpc' = mpc /\ range' = range /\ drop_begin_id' = drop_begin_id
      BY <1>1 DEF rangeVars, mgrVars
    <2>2. SlotsInv' /\ CurBegin' = CurBegin
      BY <2>1, SlotsRest DEF Opening
    <2>. QED BY <2>1, <2>2 DEF RangeOrder
  <1>2. CASE notify_dropped
    BY <1>2, OpenSlot
  <1>3. CASE notify_begin \/ notify_end
    BY <1>3, WriteSlot
  <1>4. CASE notify_lock \/ notify_unlock
    <2>1. /\ dropped_ranges' = dropped_ranges /\ dropped_ranges_next' = dropped_ranges_next
          /\ range' = range /\ drop_begin_id' = drop_begin_id /\ mpc # "run"
          /\ Opening' <=> Opening
      BY <1>4 DEF notify_lock, notify_unlock, drop_ranges_lock, rangeVars, Opening
    <2>2. SlotsInv' /\ CurBegin' = CurBegin
      BY <2>1, SlotsRest
    <2>. QED BY <2>1, <2>2 DEF RangeOrder
  <1>5. CASE forward \/ push_dropped_event \/ \E report \in BOOLEAN : drop_event(report)
    <2>1. /\ dropped_ranges' = dropped_ranges /\ dropped_ranges_next' = dropped_ranges_next
          /\ mpc = "run" /\ mpc' \in {"run", "notify"}
          /\ mpc' = "run" \/ (range'.begin = drop_begin_id /\ drop_begin_id > 0)
          /\ drop_begin_id' \in {0, drop_begin_id, handled + 1}
          /\ mpc' = "notify" => drop_begin_id' \in {0, drop_begin_id}
      BY <1>5 DEF forward, push_dropped_event, drop_event, rangeVars
    <2>2. ~Opening /\ ~Opening'
      BY <2>1 DEF Opening
    <2>3. SlotsInv' /\ CurBegin' = CurBegin
      BY <2>1, <2>2, SlotsRest
    <2>4. CurBegin <= handled /\ CurBegin \in Nat
      BY <2>1, CurBeginBound
    <2>5. /\ mpc' # "run" => CurBegin <= range'.begin
          /\ drop_begin_id' > 0 => /\ CurBegin <= drop_begin_id'
                                   /\ mpc' # "run" => range'.begin <= drop_begin_id'
      BY <2>1, <2>4, Typing DEF RangeOrder
    <2>. QED BY <2>3, <2>5 DEF RangeOrder
  <1>6. CASE ManagerStep
    BY <1>2, <1>3, <1>4, <1>5, <1>6 DEF ManagerStep, Manager
  <1>7. CASE ~ManagerStep
    <2>1. UNCHANGED <<rangeVars, mgrVars>>
      BY <1>7 DEF Next, SourceStep, ArbiterStep, Finished, vars
    <2>. QED BY <1>1, <2>1
  <1>. QED BY <1>6, <1>7

\* If there are no more events than slots in dropped_ranges, no slot is used twice,
\* and strings are intact whatever the source, the manager and the arbiter do.
THEOREM StringsAlwaysIntact ==
  ASSUME MaxEv <= RangesNum PROVE Spec => []StringsIntact
  <1>. DEFINE Inv == auxInv /\ SlotsInv /\ RangeOrder /\ PushedInv
  <1>1. Init => Inv
    <2>. SUFFICES ASSUME Init PROVE Inv
      OBVIOUS
    <2>1. 0 \in Ranges
      BY DEF Ranges
    <2>2. /\ \A k \in Ranges : Untaken(dropped_ranges[k])
          /\ mpc = "run" /\ dropped_ranges_next = 0 /\ drop_begin_id = 0
          /\ pushed = 0 /\ wpc = "idle"
      BY DEF Init, Untaken
    <2>3. CurBegin = 0 /\ ~Opening /\ Used = 0
      BY <2>1, <2>2 DEF CurBegin, Opening, Used, Untaken
    <2>4. SlotsInv /\ RangeOrder /\ PushedInv
      BY <2>2, <2>3 DEF SlotsInv, RangeOrder, PushedInv
    <2>. QED BY <2>4, InitAuxInv
  <1>2. Inv /\ [Next]_vars => Inv'
    <2>. SUFFICES ASSUME Inv, [Next]_vars PROVE Inv'
      OBVIOUS
    <2>1. SlotUnread
      BY DEF SlotUnread, SlotsInv, Opening, Untaken
    <2>2. auxInv'
      BY <2>1, StepAuxInv
    <2>3. PushedInv'
      BY PushedStays
    <2>4. SlotsInv' /\ RangeOrder'
      BY SlotsStep
    <2>. QED BY <2>2, <2>3, <2>4
  <1>3. Inv => StringsIntact
    BY DEF auxInv, StringsKept, StringKept, StringsIntact
  <1>. QED BY <1>1, <1>2, <1>3, PTL DEF Spec

=============================================================================
