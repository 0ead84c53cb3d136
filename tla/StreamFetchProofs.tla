------------------------- MODULE StreamFetchProofs -------------------------
(***************************************************************************)
(* Proofs about the path of an event from its source to the arbiter, for   *)
(* every number of events, all capacities, every drop threshold, filter    *)
(* and notification period, and any number of dropped ranges.              *)
(*                                                                         *)
(* BaseInv is inductive for both ways to fetch.  DropInv, which relates    *)
(* the log of the arbiter buffer to the ids of the dropped events, is      *)
(* inductive on top of it as long as no event is filtered by the fetch     *)
(* while others are being dropped (FilteredApart).  The fetch of the       *)
(* manager thread does not filter (~FilterFirst), so for it that is        *)
(* always so; for vms_stream_fetch_dropping_filter it need not be.         *)
(***************************************************************************)
EXTENDS StreamFetch, SequenceTheorems, FiniteSetTheorems, TLAPS

USE StreamFetchAssumption

-----------------------------------------------------------------------------
(* The inductive invariants.                                               *)

\* The event the manager handles, or will find next.
Current == next_id - Len(shm)

\* The SHM buffer holds consecutive ids that end with the last one written.
ShmInv ==
  /\ Current >= 1
  /\ \A i \in DOMAIN shm : shm[i] = Current + i - 1

\* What the manager's position says about the event at hand, the stream and
\* the counter of dropped events.
MgrInv ==
  /\ mpc \in {"handle", "reset", "forward", "skip", "consume"} =>
       shm # << >> /\ ev = Current
  /\ mpc \in {"size", "end", "endreset", "exited"} => destroyed
  /\ mpc \in {"end", "endreset", "exited"} => shm = << >>
  /\ mpc \in {"reset", "endreset"} => dropped_num > 0
  /\ mpc \in {"forward", "consume", "exited"} => dropped_num = 0
  /\ last_ev_id >= 1

\* What each passed test of is_done goes on to guarantee.
TestsInv ==
  /\ apc \in {"shm", "dropped2", "size2", "done"} => destroyed
  /\ apc \in {"dropped2", "size2", "done"} => shm = << >>
  /\ apc \in {"size2", "done"} => dropped_num = 0
  /\ apc = "done" => arb = << >>

BaseInv == fetchTypeOK /\ ShmInv /\ MgrInv /\ SpaceForForward /\ TestsInv

\* The first id that no element of the log stands for.
NextFree ==
  IF mpc \in {"reset", "endreset"} THEN Current
  ELSE IF dropped_num > 0 THEN drop_begin_id
  ELSE IF mpc = "consume" THEN Current + 1
  ELSE Current

\* While events are being dropped, the counter, the hole and the first dropped
\* id agree with the last event consumed or at hand.
CountInv ==
  /\ mpc = "skip" => IF dropped_num > 0 THEN drop_begin_id + dropped_num = ev + 1
                     ELSE ev \in Filtered
  /\ mpc # "skip" /\ dropped_num > 0 => drop_begin_id + dropped_num = Current
  /\ dropped_num > 0 => drop_begin_id >= 1 /\ hole_n = dropped_num
  /\ dropped_num > 0 /\ mpc \in {"get", "ready", "size", "end"} =>
       last_ev_id = Current - 1
  /\ mpc \in {"handle", "skip"} => last_ev_id = ev

\* An element stands for one event or more, and its id is at most one before
\* them.
ElementInv ==
  \A i \in DOMAIN Log :
    /\ Log[i].begin >= 1 /\ Log[i].n >= 1
    /\ Log[i].begin - 1 <= Log[i].id
    /\ Log[i].id <= Log[i].begin + Log[i].n - 1
    /\ ~Log[i].hole => Log[i].n = 1 /\ Log[i].id = Log[i].begin
    /\ Log[i].begin + Log[i].n <= NextFree

\* A hole whose id is not its last event was pushed by handle_stream_end.
Flushed == mpc \in {"endreset", "exited"} \/ (mpc = "end" /\ dropped_num = 0)

HoleInv ==
  \A i \in DOMAIN Log :
    Log[i].hole =>
      \/ Log[i].id = Log[i].begin + Log[i].n - 1
      \/ /\ Log[i].id = Log[i].begin + Log[i].n - 2
         /\ i = Len(Log) /\ Flushed

\* The hole that was just pushed stands for the pending events.
PushedInv ==
  mpc \in {"reset", "endreset"} =>
    \E i \in DOMAIN Log :
      Log[i].hole /\ Log[i].begin = drop_begin_id /\ Log[i].n = dropped_num

InLog(x) == \E i \in DOMAIN Log : x \in Covers(Log[i])

\* Nothing is lost.
CoverInv ==
  /\ \A x \in Consumed : x \in Filtered \/ x \in Pending \/ InLog(x)
  /\ mpc = "consume" => ev \in Filtered \/ InLog(ev)

\* A range that was reported is not empty, unless handle_stream_end reported it.
RangesInv ==
  ~Flushed =>
    \A i \in DOMAIN dropped_ranges :
      dropped_ranges[i].begin > 0 => dropped_ranges[i].begin <= dropped_ranges[i].end

\* Every element of the buffer has an id that may still be reported.
ReportedBehind ==
  /\ last_processed_id < NextFree
  /\ \A i \in DOMAIN arb :
       /\ last_processed_id <= arb[i].id
       /\ arb[i].hole \/ last_processed_id < arb[i].id

\* That is so unless the arbiter asked for an id beyond the buffer.
ProcessedInv == last_processed_id <= asked \/ ReportedBehind

\* No event is filtered inside the fetch while others are being dropped.
FilteredApart ==
  FilterFirst /\ mpc = "get" /\ dropped_num > 0 /\ shm # << >> =>
    Head(shm) \notin Filtered

DropInv ==
  /\ CountInv /\ ElementInv /\ LogOrdered /\ HoleInv /\ PushedInv
  /\ CoverInv /\ RangesInv /\ RangesOnlyDropped /\ ProcessedInv

-----------------------------------------------------------------------------
(* The log and the queues.                                                 *)

\* The elements of the buffer are the last ones of the log.
LEMMA LogFacts ==
  ASSUME fetchTypeOK
  PROVE  /\ Log \in Seq(Elements) /\ Len(Log) \in Nat /\ DOMAIN Log = 1..Len(Log)
         /\ Len(Log) = Len(taken) + Len(arb)
         /\ DOMAIN arb = 1..Len(arb) /\ Len(arb) \in Nat /\ Len(taken) \in Nat
         /\ \A i \in DOMAIN Log : Log[i] \in Elements
         /\ \A i \in DOMAIN arb :
              Len(taken) + i \in DOMAIN Log /\ Log[Len(taken) + i] = arb[i]
<1>1. taken \in Seq(Elements) /\ arb \in Seq(Elements)
  BY DEF fetchTypeOK
<1>2. /\ Log \in Seq(Elements) /\ Len(Log) = Len(taken) + Len(arb)
      /\ \A i \in 1..(Len(taken) + Len(arb)) :
           Log[i] = IF i <= Len(taken) THEN taken[i] ELSE arb[i - Len(taken)]
  BY <1>1, ConcatProperties DEF Log
<1>3. /\ Len(taken) \in Nat /\ Len(arb) \in Nat /\ DOMAIN arb = 1..Len(arb)
      /\ Len(Log) \in Nat /\ DOMAIN Log = 1..Len(Log)
  BY <1>1, <1>2, LenProperties
<1>4. \A i \in DOMAIN Log : Log[i] \in Elements
  BY <1>2, <1>3, ElementOfSeq
<1>5. \A i \in DOMAIN arb :
        Len(taken) + i \in DOMAIN Log /\ Log[Len(taken) + i] = arb[i]
  BY <1>2, <1>3
<1> QED BY <1>2, <1>3, <1>4, <1>5

\* Writing an element to the buffer appends it to the log.
LEMMA LogAppend ==
  ASSUME fetchTypeOK, NEW r \in Elements, arb' = Append(arb, r), taken' = taken
  PROVE  /\ Log' = Append(Log, r)
         /\ Len(Log') = Len(Log) + 1 /\ DOMAIN Log' = 1..(Len(Log) + 1)
         /\ \A i \in DOMAIN Log : Log'[i] = Log[i]
         /\ Log'[Len(Log) + 1] = r
         /\ arb' \in Seq(Elements) /\ Len(arb') = Len(arb) + 1
         /\ \A i \in DOMAIN arb : arb'[i] = arb[i]
         /\ arb'[Len(arb) + 1] = r
<1>1. taken \in Seq(Elements) /\ arb \in Seq(Elements) /\ <<r>> \in Seq(Elements)
  BY DEF fetchTypeOK
<1>2. arb' = arb \o <<r>>
  BY <1>1, AppendIsConcat
<1>3. Log' = Log \o <<r>>
  <2>1. (taken \o arb) \o <<r>> = taken \o (arb \o <<r>>)
    BY <1>1, SMT
  <2> QED BY <1>2, <2>1 DEF Log
<1>4. Log \in Seq(Elements)
  BY LogFacts
<1>5. Log' = Append(Log, r)
  BY <1>3, <1>4, AppendIsConcat
<1> QED BY <1>1, <1>4, <1>5, AppendProperties, LenProperties

\* Consuming moves elements from the buffer to what was taken: the log stays.
LEMMA ConsumeFacts ==
  ASSUME fetchTypeOK, NEW k \in 1..Len(arb), NEW id, Consume(k, id)
  PROVE  /\ arb' \in Seq(Elements) /\ taken' \in Seq(Elements)
         /\ Len(arb') = Len(arb) - k
         /\ \A j \in 1..(Len(arb) - k) : arb'[j] = arb[k + j]
         /\ Log' = Log
<1> DEFINE a == SubSeq(arb, 1, k)
           b == SubSeq(arb, k + 1, Len(arb))
<1>1. taken \in Seq(Elements) /\ arb \in Seq(Elements) /\ Len(arb) \in Nat
      /\ \A i \in 1..Len(arb) : arb[i] \in Elements
  BY LenProperties, ElementOfSeq DEF fetchTypeOK
<1>2. taken' = taken \o a /\ arb' = b
  BY DEF Consume
<1>3. a \in Seq(Elements)
  BY <1>1, SubSeqProperties
<1>4. /\ b \in Seq(Elements) /\ Len(b) = Len(arb) - k
      /\ \A j \in 1..(Len(arb) - k) : b[j] = arb[k + j]
  <2>1. k + 1 \in Int /\ \A i \in (k + 1)..Len(arb) : arb[i] \in Elements
    BY <1>1
  <2>2. /\ b \in Seq(Elements)
        /\ Len(b) = IF k + 1 <= Len(arb) THEN Len(arb) - (k + 1) + 1 ELSE 0
        /\ \A i \in 1..(Len(arb) - (k + 1) + 1) : b[i] = arb[(k + 1) + i - 1]
    BY <1>1, <2>1, SubSeqProperties
  <2>3. Len(arb) - (k + 1) + 1 = Len(arb) - k
    BY <1>1
  <2>4. \A j \in 1..(Len(arb) - k) : (k + 1) + j - 1 = k + j
    BY <1>1, SMTT(30)
  <2> HIDE DEF b
  <2>5. ASSUME NEW j \in 1..(Len(arb) - k) PROVE b[j] = arb[k + j]
    BY <2>2, <2>3, <2>4
  <2>6. Len(b) = Len(arb) - k
    BY <1>1, <2>2
  <2> QED BY <2>2, <2>5, <2>6
<1>5. a \o b = arb
  BY <1>1, ConcatAdjacentSubSeq, SubSeqFull
<1> HIDE DEF a, b
<1>6. (taken \o a) \o b = taken \o (a \o b)
  <2>1. taken \in Seq(Elements) /\ a \in Seq(Elements) /\ b \in Seq(Elements)
    BY <1>1, <1>3, <1>4
  <2> QED BY <2>1, SMT
<1>7. taken' \o arb' = taken \o arb
  BY <1>2, <1>5, <1>6
<1> QED BY <1>1, <1>2, <1>3, <1>4, <1>7, ConcatProperties DEF Log

\* Reporting a range keeps the type of the ranges.
LEMMA NotifyType ==
  ASSUME fetchTypeOK, NEW b \in Nat, NEW e \in Nat, notify_dropped(b, e)
  PROVE  /\ dropped_ranges' \in [0..(RangesNum - 1) -> [begin : Nat, end : Nat]]
         /\ dropped_ranges_next' \in 0..(RangesNum - 1)
         /\ last_processed_id' = last_processed_id
<1> DEFINE R == [begin : Nat, end : Nat]
           i == dropped_ranges_next
           r == dropped_ranges[i]
           j == IF i + 1 = RangesNum THEN 0 ELSE i + 1
<1>1. /\ dropped_ranges \in [0..(RangesNum - 1) -> R]
      /\ i \in 0..(RangesNum - 1) /\ j \in 0..(RangesNum - 1)
  BY SMTT(30) DEF fetchTypeOK
<1>2. [r EXCEPT !.end = e] \in R /\ [begin |-> b, end |-> e] \in R
  BY <1>1
<1>3. CASE r.begin = b \/ (r.begin > 0 /\ r.end = r.begin - 1)
  <2>1. dropped_ranges' = [dropped_ranges EXCEPT ![i] = [r EXCEPT !.end = e]]
    BY <1>3 DEF notify_dropped
  <2> QED BY <1>1, <1>2, <1>3, <2>1 DEF notify_dropped
<1>4. CASE ~(r.begin = b \/ (r.begin > 0 /\ r.end = r.begin - 1))
  <2>1. dropped_ranges' = [dropped_ranges EXCEPT ![j] = [begin |-> b, end |-> e]]
    BY <1>4 DEF notify_dropped
  <2> QED BY <1>1, <1>2, <1>4, <2>1 DEF notify_dropped
<1> QED BY <1>3, <1>4

\* A hole is an element.
LEMMA HoleType ==
  ASSUME fetchTypeOK, NEW id \in Nat
  PROVE  Hole(id) \in Elements
BY DEF fetchTypeOK, Hole, Elements

\* drop_older_than(id) notes an id beyond the buffer.
AskedFor(id) ==
  asked' = IF id > arb[Len(arb)].id /\ id > asked THEN id ELSE asked

\* Every way of the arbiter to take elements consumes some from the front; what
\* it reports is the id of one it took, the id it asked for, or the old one.
LEMMA TakesFront ==
  ASSUME fetchTypeOK,
         \/ \E n \in DropCounts : drop(n)
         \/ \E id \in OlderIds : drop_older_than(id)
         \/ pop
  PROVE  /\ asked' \in Nat
         /\ \E k \in 1..Len(arb), id \in Nat :
              /\ Consume(k, id)
              /\ \/ id = arb[k].id /\ UNCHANGED asked
                 \/ k \in OldUpTo(id) /\ AskedFor(id)
                 \/ id = last_processed_id /\ UNCHANGED asked
<1>1. /\ DOMAIN arb = 1..Len(arb) /\ Len(arb) \in Nat
      /\ arb # << >> => Len(arb) > 0
      /\ \A i \in 1..Len(arb) : arb[i].id \in Nat
  <2>1. arb \in Seq(Elements)
    BY DEF fetchTypeOK
  <2>2. \A i \in 1..Len(arb) : arb[i] \in Elements
    BY <2>1, ElementOfSeq
  <2> QED BY <2>1, <2>2, LenProperties, EmptySeq DEF Elements
<1>2. CASE \E n \in DropCounts : drop(n)
  <2> PICK n \in DropCounts : drop(n)
    BY <1>2
  <2> DEFINE k == IF n = 0 \/ n > Len(arb) THEN Len(arb) ELSE n
  <2>1. arb # << >> /\ Consume(k, arb[k].id) /\ UNCHANGED asked
    BY DEF drop
  <2>2. k \in 1..Len(arb)
    <3>1. n \in Nat
      BY StreamFetchAssumption
    <3> QED BY <1>1, <2>1, <3>1, SMTT(30)
  <2>3. asked' \in Nat
    BY <2>1 DEF fetchTypeOK
  <2> QED BY <1>1, <2>1, <2>2, <2>3
<1>3. CASE \E id \in OlderIds : drop_older_than(id)
  <2> PICK id \in OlderIds : drop_older_than(id)
    BY <1>3
  <2> PICK k \in OldUpTo(id) : Consume(k, id)
    BY DEF drop_older_than
  <2>1. id \in Nat /\ k \in 1..Len(arb)
    BY <1>1, StreamFetchAssumption DEF OldUpTo
  <2>2. AskedFor(id)
    BY DEF drop_older_than, AskedFor
  <2>3. asked' \in Nat
    BY <2>1, <2>2 DEF AskedFor, fetchTypeOK
  <2> QED BY <2>1, <2>2, <2>3
<1>4. CASE pop
  <2>1. Consume(1, last_processed_id) /\ 1 \in 1..Len(arb) /\ UNCHANGED asked
    BY <1>1, <1>4 DEF pop
  <2> QED BY <2>1 DEF fetchTypeOK
<1> QED BY <1>2, <1>3, <1>4

-----------------------------------------------------------------------------
(* The base invariant.                                                     *)

\* The base invariant holds initially.
LEMMA BaseInit == fetchInit => BaseInv
<1> SUFFICES ASSUME fetchInit PROVE BaseInv
  OBVIOUS
<1>1. << >> \in Seq(1..MaxEv) /\ << >> \in Seq(Elements) /\ Len(<< >>) = 0
  BY EmptySeq
<1>2. fetchTypeOK
  <2>1. dropped_ranges \in [0..(RangesNum - 1) -> [begin : Nat, end : Nat]]
    BY DEF fetchInit
  <2>2. next_id \in 1..(MaxEv + 1) /\ ev \in 0..MaxEv
        /\ dropped_ranges_next \in 0..(RangesNum - 1)
        /\ 0 <= ShmCap /\ 0 <= ArbCap
    BY DEF fetchInit
  <2> QED BY <1>1, <2>1, <2>2 DEF fetchInit, fetchTypeOK
<1>3. ShmInv /\ MgrInv /\ SpaceForForward /\ TestsInv
  BY <1>1 DEF fetchInit, ShmInv, MgrInv, SpaceForForward, TestsInv, Current
<1> QED BY <1>2, <1>3 DEF BaseInv

\* Every step keeps the base invariant.
LEMMA BaseStep == BaseInv /\ [fetchNext]_fetchVars => BaseInv'
<1> SUFFICES ASSUME BaseInv, [fetchNext]_fetchVars PROVE BaseInv'
  OBVIOUS
<1>0. /\ DOMAIN shm = 1..Len(shm) /\ Len(shm) \in Nat /\ Len(arb) \in Nat
      /\ shm # << >> => Len(shm) > 0
      /\ shm = << >> => Len(shm) = 0
      /\ arb = << >> => Len(arb) = 0
  BY LenProperties, EmptySeq DEF BaseInv, fetchTypeOK
<1>1. CASE shm_buffer_push
  <2>1. /\ shm' \in Seq(1..MaxEv) /\ Len(shm') = Len(shm) + 1 /\ shm' # << >>
        /\ DOMAIN shm' = 1..(Len(shm) + 1)
        /\ \A i \in 1..Len(shm) : shm'[i] = shm[i]
        /\ shm'[Len(shm) + 1] = next_id
    <3>1. next_id \in 1..MaxEv /\ shm \in Seq(1..MaxEv) /\ shm' = Append(shm, next_id)
      BY <1>1 DEF shm_buffer_push, BaseInv, fetchTypeOK
    <3> QED BY <3>1, AppendProperties, LenProperties
  <2>2. next_id' = next_id + 1 /\ next_id \in Int /\ Current' = Current
    BY <1>1, <1>0, <2>1 DEF shm_buffer_push, Current, BaseInv, fetchTypeOK
  <2>3. ShmInv'
    <3>1. ASSUME NEW i \in DOMAIN shm' PROVE shm'[i] = Current' + i - 1
      <4>1. CASE i \in DOMAIN shm
        BY <1>0, <2>1, <2>2, <4>1 DEF BaseInv, ShmInv
      <4>2. CASE i = Len(shm) + 1
        BY <1>0, <2>1, <2>2, <4>2 DEF Current
      <4> QED BY <1>0, <2>1, <4>1, <4>2
    <3> QED BY <2>2, <3>1 DEF BaseInv, ShmInv
  <2>4. fetchTypeOK'
    BY <1>1, <1>0, <2>1, <2>2, SMTT(30) DEF shm_buffer_push, BaseInv, fetchTypeOK, notifyVars,
       dropVars, mgrVars, arbiterVars
  <2> QED BY <1>1, <2>1, <2>2, <2>3, <2>4 DEF shm_buffer_push, BaseInv, MgrInv,
         TestsInv, SpaceForForward, free_space, notifyVars, dropVars, mgrVars,
         arbiterVars
<1>2. CASE shm_buffer_destroy
  BY <1>2, <1>0 DEF shm_buffer_destroy, BaseInv, fetchTypeOK, ShmInv, MgrInv, TestsInv, Current,
     SpaceForForward, free_space, Goto, shmVars, notifyVars, dropVars,
     mgrVars, arbiterVars
<1>3. CASE get_event
  <2>1. Head(shm) = Current /\ Current \in 1..MaxEv
    <3>1. shm \in Seq(1..MaxEv) /\ shm # << >> /\ 1 \in DOMAIN shm /\ Current \in Int
      BY <1>3, <1>0 DEF get_event, BaseInv, fetchTypeOK, Current
    <3>2. Head(shm) = shm[1]
      BY <3>1
    <3>3. shm[1] = Current
      BY <3>1 DEF BaseInv, ShmInv
    <3> QED BY <3>1, <3>2, <3>3, HeadTailProperties
  <2>2. ev' = Current /\ last_ev_id' = Current /\ mpc' \in {"skip", "handle"}
        /\ mpc = "get" /\ shm # << >>
    BY <1>3, <2>1 DEF get_event
  <2>3. UNCHANGED <<shmVars, notifyVars, arb, dropVars, arbiterVars>>
    BY <1>3 DEF get_event
  <2>4. fetchTypeOK'
    BY <2>1, <2>2, <2>3, SMTT(30) DEF BaseInv, fetchTypeOK, shmVars, notifyVars, dropVars,
       arbiterVars
  <2> QED BY <2>1, <2>2, <2>3, <2>4 DEF BaseInv, ShmInv, MgrInv, TestsInv,
         Current, SpaceForForward, shmVars, notifyVars, dropVars, arbiterVars
<1>4. CASE get_event_none
  BY <1>4, <1>0 DEF get_event_none, BaseInv, fetchTypeOK, ShmInv, MgrInv, TestsInv, Current,
     SpaceForForward, free_space, Goto, shmVars, notifyVars, dropVars,
     mgrVars, arbiterVars
<1>5. CASE is_ready_destroyed
  BY <1>5, <1>0 DEF is_ready_destroyed, BaseInv, fetchTypeOK, ShmInv, MgrInv, TestsInv, Current,
     SpaceForForward, free_space, Goto, shmVars, notifyVars, dropVars,
     mgrVars, arbiterVars
<1>6. CASE is_ready_size
  BY <1>6, <1>0 DEF is_ready_size, BaseInv, fetchTypeOK, ShmInv, MgrInv, TestsInv, Current,
     SpaceForForward, free_space, Goto, shmVars, notifyVars, dropVars,
     mgrVars, arbiterVars
<1>7. CASE send_dropped_event
  <2>1. ev - 1 \in Nat /\ free_space > Threshold /\ mpc = "handle" /\ dropped_num > 0
    BY <1>7, <1>0 DEF send_dropped_event, BaseInv, fetchTypeOK, MgrInv, ShmInv
  <2>2. /\ dropped_ranges' \in [0..(RangesNum - 1) -> [begin : Nat, end : Nat]]
        /\ dropped_ranges_next' \in 0..(RangesNum - 1)
        /\ last_processed_id' = last_processed_id
    BY <1>7, <2>1, NotifyType DEF send_dropped_event, push_dropped_event, BaseInv,
       fetchTypeOK
  <2>3. arb' \in Seq(Elements) /\ Len(arb') = Len(arb) + 1
    BY <1>7, <2>1, HoleType, LogAppend DEF send_dropped_event, push_dropped_event,
       BaseInv, arbiterVars
  <2>4. mpc' = "reset" /\ UNCHANGED <<ev, last_ev_id, shmVars, dropVars, arbiterVars>>
    BY <1>7 DEF send_dropped_event, Goto
  <2>5. Len(arb') < ArbCap /\ Len(arb') <= ArbCap
    BY <1>0, <2>1, <2>3 DEF free_space
  <2>6. apc \notin {"size2", "done"}
    BY <2>1 DEF BaseInv, TestsInv
  <2>7. fetchTypeOK'
    BY <2>2, <2>3, <2>4, <2>5 DEF BaseInv, fetchTypeOK, shmVars, dropVars, arbiterVars
  <2>8. SpaceForForward'
    BY <1>0, <2>3, <2>5 DEF SpaceForForward, free_space
  <2> QED BY <2>1, <2>4, <2>6, <2>7, <2>8 DEF BaseInv, ShmInv, MgrInv, TestsInv,
         Current, shmVars, dropVars, arbiterVars
<1>8. CASE send_dropped_reset
  BY <1>8, <1>0 DEF send_dropped_reset, BaseInv, fetchTypeOK, ShmInv, MgrInv, TestsInv, Current,
     SpaceForForward, free_space, Goto, shmVars, notifyVars, dropVars,
     mgrVars, arbiterVars
<1>9. CASE continue_dropping
  <2>1. ev - 1 \in Nat /\ mpc = "handle" /\ dropped_num > 0
    BY <1>9, <1>0 DEF continue_dropping, BaseInv, fetchTypeOK, MgrInv, ShmInv
  <2>2. /\ dropped_ranges' \in [0..(RangesNum - 1) -> [begin : Nat, end : Nat]]
        /\ dropped_ranges_next' \in 0..(RangesNum - 1)
        /\ last_processed_id' = last_processed_id
    <3>1. CASE notify_dropped(drop_begin_id, ev - 1)
      BY <2>1, <3>1, NotifyType DEF BaseInv, fetchTypeOK
    <3>2. CASE UNCHANGED notifyVars
      BY <3>2 DEF notifyVars, BaseInv, fetchTypeOK
    <3> QED BY <1>9, <3>1, <3>2 DEF continue_dropping
  <2>3. mpc' = "skip" /\ UNCHANGED <<ev, last_ev_id, shmVars, arb, drop_begin_id, arbiterVars>>
        /\ dropped_num' = dropped_num + 1 /\ hole_n' = hole_n + 1
    BY <1>9 DEF continue_dropping, Goto
  <2>4. fetchTypeOK'
    <3>1. dropped_num' \in Nat /\ hole_n' \in Nat
      BY <2>3 DEF BaseInv, fetchTypeOK
    <3>2. Len(arb') <= ArbCap /\ Len(shm') <= ShmCap
      BY <2>3 DEF BaseInv, fetchTypeOK, shmVars
    <3> QED BY <2>2, <2>3, <3>1, <3>2 DEF BaseInv, fetchTypeOK, shmVars, arbiterVars
  <2> QED BY <2>1, <2>3, <2>4 DEF BaseInv, fetchTypeOK, ShmInv, MgrInv, TestsInv,
         Current, SpaceForForward, shmVars, arbiterVars
<1>10. CASE start_dropping
  BY <1>10, <1>0, SMTT(30) DEF start_dropping, BaseInv, fetchTypeOK, ShmInv, MgrInv, TestsInv, Current,
     SpaceForForward, free_space, Goto, shmVars, notifyVars, dropVars,
     mgrVars, arbiterVars
<1>11. CASE fetched
  BY <1>11, <1>0 DEF fetched, BaseInv, fetchTypeOK, ShmInv, MgrInv, TestsInv, Current,
     SpaceForForward, free_space, Goto, shmVars, notifyVars, dropVars,
     mgrVars, arbiterVars
<1>12. CASE forward
  <2>1. mpc = "forward" /\ mpc' = "consume" /\ dropped_num = 0 /\ Len(arb) < ArbCap
        /\ UNCHANGED <<ev, last_ev_id, shmVars, notifyVars, dropVars, arbiterVars>>
    BY <1>12, <1>0 DEF forward, Goto, BaseInv, MgrInv, SpaceForForward, free_space
  <2>2. arb' \in Seq(Elements) /\ Len(arb') <= ArbCap
    <3>1. CASE arb' = arb
      BY <3>1 DEF BaseInv, fetchTypeOK
    <3>2. CASE arb' = Append(arb, Event(ev))
      <4>1. Event(ev) \in Elements
        BY DEF Event, Elements, BaseInv, fetchTypeOK
      <4> QED BY <1>0, <2>1, <3>2, <4>1, LogAppend DEF BaseInv, arbiterVars
    <3> QED BY <1>12, <3>1, <3>2 DEF forward
  <2>3. apc # "done"
    BY <1>0, <2>1 DEF BaseInv, TestsInv, MgrInv
  <2>4. fetchTypeOK'
    BY <2>1, <2>2 DEF BaseInv, fetchTypeOK, shmVars, notifyVars, dropVars, arbiterVars
  <2> QED BY <2>1, <2>3, <2>4 DEF BaseInv, ShmInv, MgrInv, TestsInv, Current,
         SpaceForForward, shmVars, dropVars, arbiterVars
<1>13. CASE stream_consume
  <2>1. /\ mpc \in {"skip", "consume"} /\ shm # << >>
        /\ shm' = Tail(shm) /\ mpc' = "get" /\ ev' = 0
        /\ last_ev_id' \in {last_ev_id, 1}
        /\ UNCHANGED <<next_id, destroyed, notifyVars, arb, dropVars, arbiterVars>>
    BY <1>13 DEF stream_consume, BaseInv, MgrInv
  <2>2. /\ shm' \in Seq(1..MaxEv) /\ Len(shm') = Len(shm) - 1
        /\ DOMAIN shm' = 1..(Len(shm) - 1)
        /\ \A i \in 1..(Len(shm) - 1) : shm'[i] = shm[i + 1]
    BY <2>1, HeadTailProperties, LenProperties DEF BaseInv, fetchTypeOK
  <2>3. Current' = Current + 1 /\ next_id' \in Int /\ next_id \in Int
    BY <1>0, <2>1, <2>2 DEF Current, BaseInv, fetchTypeOK
  <2>4. ShmInv'
    <3>1. ASSUME NEW i \in 1..(Len(shm) - 1) PROVE shm'[i] = Current' + i - 1
      <4>1. i + 1 \in DOMAIN shm
        BY <1>0
      <4>2. shm[i + 1] = Current + (i + 1) - 1
        BY <4>1 DEF BaseInv, ShmInv
      <4> QED BY <1>0, <2>2, <2>3, <4>2 DEF Current
    <3>2. Current' >= 1
      BY <1>0, <2>3 DEF BaseInv, ShmInv, Current
    <3> QED BY <2>2, <3>1, <3>2 DEF ShmInv
  <2>5. fetchTypeOK'
    BY <1>0, <2>1, <2>2, SMTT(30) DEF BaseInv, fetchTypeOK, notifyVars, dropVars, arbiterVars
  <2>6. apc \notin {"dropped2", "size2", "done"}
    BY <2>1 DEF BaseInv, TestsInv
  <2> QED BY <2>1, <2>4, <2>5, <2>6 DEF BaseInv, MgrInv, TestsInv, SpaceForForward,
         dropVars, arbiterVars
<1>14. CASE handle_stream_end_push
  <2>1. last_ev_id - 1 \in Nat /\ free_space > Threshold /\ mpc = "end" /\ dropped_num > 0
    BY <1>14 DEF handle_stream_end_push, BaseInv, fetchTypeOK, MgrInv
  <2>2. /\ dropped_ranges' \in [0..(RangesNum - 1) -> [begin : Nat, end : Nat]]
        /\ dropped_ranges_next' \in 0..(RangesNum - 1)
        /\ last_processed_id' = last_processed_id
    BY <1>14, <2>1, NotifyType DEF handle_stream_end_push, push_dropped_event,
       BaseInv, fetchTypeOK
  <2>3. arb' \in Seq(Elements) /\ Len(arb') = Len(arb) + 1
    BY <1>14, <2>1, HoleType, LogAppend DEF handle_stream_end_push,
       push_dropped_event, BaseInv, arbiterVars
  <2>4. mpc' = "endreset" /\ UNCHANGED <<ev, last_ev_id, shmVars, dropVars, arbiterVars>>
    BY <1>14 DEF handle_stream_end_push, Goto
  <2>5. Len(arb') < ArbCap /\ Len(arb') <= ArbCap
    BY <1>0, <2>1, <2>3 DEF free_space
  <2>6. apc \notin {"size2", "done"}
    BY <2>1 DEF BaseInv, TestsInv
  <2>7. fetchTypeOK'
    BY <2>2, <2>3, <2>4, <2>5 DEF BaseInv, fetchTypeOK, shmVars, dropVars, arbiterVars
  <2> QED BY <2>1, <2>4, <2>6, <2>7 DEF BaseInv, ShmInv, MgrInv, TestsInv, Current,
         SpaceForForward, shmVars, dropVars, arbiterVars
<1>15. CASE handle_stream_end_reset
  BY <1>15, <1>0 DEF handle_stream_end_reset, BaseInv, fetchTypeOK, ShmInv, MgrInv, TestsInv, Current,
     SpaceForForward, free_space, Goto, shmVars, notifyVars, dropVars,
     mgrVars, arbiterVars
<1>16. CASE handle_stream_end
  BY <1>16, <1>0 DEF handle_stream_end, BaseInv, fetchTypeOK, ShmInv, MgrInv, TestsInv, Current,
     SpaceForForward, free_space, Goto, shmVars, notifyVars, dropVars,
     mgrVars, arbiterVars
<1>17. CASE peek_none
  BY <1>17, <1>0 DEF peek_none, BaseInv, fetchTypeOK, ShmInv, MgrInv, TestsInv, Current,
     SpaceForForward, free_space, Goto, shmVars, notifyVars, dropVars,
     mgrVars, arbiterVars
<1>18. ASSUME NEW k \in 1..Len(arb), NEW id \in Nat, Consume(k, id), asked' \in Nat
       PROVE  BaseInv'
  <2>1. /\ arb' \in Seq(Elements) /\ taken' \in Seq(Elements)
        /\ Len(arb') = Len(arb) - k /\ Len(arb') <= ArbCap
    BY <1>0, <1>18, ConsumeFacts, SMTT(30) DEF BaseInv, fetchTypeOK
  <2>2. /\ apc = "poll" /\ apc' \in {"poll", "idle"} /\ last_processed_id' \in Nat
        /\ UNCHANGED <<shmVars, dropped_ranges, dropped_ranges_next, mgrVars, dropVars>>
    BY <1>18 DEF Consume
  <2>3. fetchTypeOK'
    BY <1>0, <1>18, <2>1, <2>2 DEF BaseInv, fetchTypeOK, shmVars, mgrVars, dropVars
  <2>4. SpaceForForward'
    BY <1>0, <2>1, <2>2 DEF BaseInv, SpaceForForward, free_space, mgrVars
  <2> QED BY <2>2, <2>3, <2>4 DEF BaseInv, ShmInv, MgrInv, TestsInv, Current,
         shmVars, mgrVars, dropVars
<1>19. CASE IsDone
  BY <1>19, <1>0 DEF IsDone, is_done_dropped, is_done_size, is_done_ready, is_done_shm,
     is_done_dropped2, is_done_size2, Test, BaseInv, fetchTypeOK, ShmInv, MgrInv,
     TestsInv, Current, SpaceForForward, free_space, shmVars, notifyVars, dropVars,
     mgrVars, arbiterVars
<1>20. CASE UNCHANGED fetchVars
  BY <1>20, SMTT(30) DEF fetchVars, BaseInv, fetchTypeOK, ShmInv, MgrInv, TestsInv, Current, SpaceForForward,
     free_space, shmVars, notifyVars, dropVars, mgrVars, arbiterVars
<1> QED BY <1>1, <1>2, <1>3, <1>4, <1>5, <1>6, <1>7, <1>8, <1>9, <1>10, <1>11, <1>12, <1>13, <1>14, <1>15, <1>16, <1>17, <1>18, <1>19, <1>20, TakesFront
     DEF fetchNext, Source, Manager, Arbiter, Finished, BaseInv

\* Type correctness, with either fetch: ids, counters and program counters stay
\* in their sets and no buffer holds more than it can.
THEOREM FetchTypeCorrect == fetchSpec => []fetchTypeOK
<1>1. BaseInv => fetchTypeOK
  BY DEF BaseInv
<1> QED BY BaseInit, BaseStep, <1>1, PTL DEF fetchSpec

\* The manager's assertion "No space in the buffer" never fails, with either
\* fetch: the space that drop_space_threshold keeps is enough for the event that
\* follows a hole, since only the arbiter, which removes, runs in between.
THEOREM AlwaysSpaceForForward == fetchSpec => []SpaceForForward
<1>1. BaseInv => SpaceForForward
  BY DEF BaseInv
<1> QED BY BaseInit, BaseStep, <1>1, PTL DEF fetchSpec

\* When vms_arbiter_buffer_is_done answers yes, which it finds out with six reads
\* while the other threads run, nothing is left and nothing will ever come.
THEOREM IsDoneAlwaysRight == fetchSpec => []IsDoneRight
<1>1. BaseInv => IsDoneRight
  BY DEF BaseInv, TestsInv, MgrInv, IsDoneRight
<1> QED BY BaseInit, BaseStep, <1>1, PTL DEF fetchSpec

-----------------------------------------------------------------------------
(* Steps that leave the log alone, and steps that extend it.               *)

\* The numbers the invariants compare.
LEMMA Numbers ==
  ASSUME fetchTypeOK
  PROVE  /\ Current \in Int /\ NextFree \in Int /\ Len(shm) \in Nat
         /\ dropped_num \in Nat /\ drop_begin_id \in Nat /\ last_ev_id \in Nat
         /\ ev \in Nat /\ hole_n \in Nat /\ last_processed_id \in Nat /\ asked \in Nat
         /\ Consumed = 1..(Current - 1)
         /\ \A i \in DOMAIN Log : /\ Log[i].id \in Nat /\ Log[i].begin \in Nat
                                  /\ Log[i].n \in Nat /\ Log[i].hole \in BOOLEAN
<1>1. Len(shm) \in Nat /\ next_id \in Int
  BY LenProperties DEF fetchTypeOK
<1>2. /\ dropped_num \in Nat /\ drop_begin_id \in Nat /\ last_ev_id \in Nat
      /\ ev \in Nat /\ hole_n \in Nat /\ last_processed_id \in Nat /\ asked \in Nat
  BY DEF fetchTypeOK
<1>3. Current \in Int /\ NextFree \in Int /\ Consumed = 1..(Current - 1)
  BY <1>1, <1>2 DEF Current, NextFree, Consumed
<1>4. \A i \in DOMAIN Log : /\ Log[i].id \in Nat /\ Log[i].begin \in Nat
                            /\ Log[i].n \in Nat /\ Log[i].hole \in BOOLEAN
  BY LogFacts DEF Elements
<1> QED BY <1>1, <1>2, <1>3, <1>4

\* The same of the state after a step.
LEMMA NumbersNext ==
  ASSUME fetchTypeOK'
  PROVE  /\ Current' \in Int /\ NextFree' \in Int /\ Len(shm') \in Nat
         /\ dropped_num' \in Nat /\ drop_begin_id' \in Nat
         /\ Consumed' = 1..(Current' - 1)
<1>1. Len(shm') \in Nat /\ next_id' \in Int
  BY LenProperties DEF fetchTypeOK
<1>2. dropped_num' \in Nat /\ drop_begin_id' \in Nat
  BY DEF fetchTypeOK
<1> QED BY <1>1, <1>2 DEF Current, NextFree, Consumed

\* What DropInv says of the log stays true while the log stays, the ids that are
\* free only grow and no hole is pending that was not before.
LEMMA LogKept ==
  ASSUME fetchTypeOK, fetchTypeOK', DropInv, Log' = Log, NextFree <= NextFree',
         Flushed => Flushed',
         mpc' \in {"reset", "endreset"} => mpc' = mpc /\ UNCHANGED dropVars
  PROVE  ElementInv' /\ LogOrdered' /\ HoleInv' /\ PushedInv'
<1>0. NextFree \in Int /\ NextFree' \in Int
  BY Numbers, NumbersNext
<1>1. ElementInv'
  BY <1>0, Numbers, SMTT(30) DEF DropInv, ElementInv
<1>2. LogOrdered'
  BY DEF DropInv, LogOrdered
<1>3. HoleInv'
  BY DEF DropInv, HoleInv
<1>4. PushedInv'
  BY DEF DropInv, PushedInv, dropVars
<1> QED BY <1>1, <1>2, <1>3, <1>4

\* An element that is written to the buffer continues the log.
LEMMA LogGrows ==
  ASSUME fetchTypeOK, fetchTypeOK', DropInv, NEW r \in Elements,
         arb' = Append(arb, r), taken' = taken,
         ~Flushed, NextFree <= r.begin, r.begin + r.n <= NextFree', r.begin >= 1,
         r.n >= 1, r.begin - 1 <= r.id, r.id <= r.begin + r.n - 1,
         ~r.hole => r.n = 1 /\ r.id = r.begin,
         r.hole => \/ r.id = r.begin + r.n - 1
                   \/ r.id = r.begin + r.n - 2 /\ Flushed'
  PROVE  ElementInv' /\ LogOrdered' /\ HoleInv'
<1>0. /\ NextFree \in Int /\ NextFree' \in Int
      /\ r.begin \in Nat /\ r.n \in Nat /\ r.id \in Nat
  BY Numbers, NumbersNext DEF Elements
<1>1. /\ DOMAIN Log' = 1..(Len(Log) + 1) /\ DOMAIN Log = 1..Len(Log)
      /\ Len(Log) \in Nat /\ Len(Log') = Len(Log) + 1
      /\ \A i \in DOMAIN Log : Log'[i] = Log[i]
      /\ Log'[Len(Log) + 1] = r
  BY LogAppend, LogFacts
<1>2. \A i \in DOMAIN Log' : i \in DOMAIN Log \/ i = Len(Log) + 1
  BY <1>1
<1>3. ElementInv'
  <2> SUFFICES ASSUME NEW i \in DOMAIN Log'
               PROVE  /\ Log'[i].begin >= 1 /\ Log'[i].n >= 1
                      /\ Log'[i].begin - 1 <= Log'[i].id
                      /\ Log'[i].id <= Log'[i].begin + Log'[i].n - 1
                      /\ ~Log'[i].hole => Log'[i].n = 1 /\ Log'[i].id = Log'[i].begin
                      /\ Log'[i].begin + Log'[i].n <= NextFree'
    BY DEF ElementInv
  <2>1. CASE i \in DOMAIN Log
    <3>0. NextFree <= NextFree'
      BY <1>0
    <3>1. /\ Log'[i] = Log[i] /\ Log[i].begin \in Nat /\ Log[i].n \in Nat
      BY <1>1, <2>1, Numbers
    <3>2. Log[i].begin + Log[i].n <= NextFree
      BY <2>1 DEF DropInv, ElementInv
    <3>3. Log[i].begin + Log[i].n <= NextFree'
      BY <1>0, <3>0, <3>1, <3>2, SMTT(30)
    <3>4. /\ Log[i].begin >= 1 /\ Log[i].n >= 1
          /\ Log[i].begin - 1 <= Log[i].id
          /\ Log[i].id <= Log[i].begin + Log[i].n - 1
          /\ ~Log[i].hole => Log[i].n = 1 /\ Log[i].id = Log[i].begin
      BY <2>1 DEF DropInv, ElementInv
    <3> QED BY <3>1, <3>3, <3>4
  <2>2. CASE i = Len(Log) + 1
    BY <1>1, <2>2
  <2> QED BY <1>2, <2>1, <2>2
<1>4. LogOrdered'
  <2> SUFFICES ASSUME NEW i \in DOMAIN Log', NEW j \in DOMAIN Log', i < j
               PROVE  Log'[i].begin + Log'[i].n <= Log'[j].begin
    BY DEF LogOrdered
  <2>1. i \in DOMAIN Log
    BY <1>1
  <2>2. CASE j \in DOMAIN Log
    BY <1>1, <2>1, <2>2 DEF DropInv, LogOrdered
  <2>3. CASE j = Len(Log) + 1
    <3>1. Log[i].begin + Log[i].n <= NextFree /\ Log[i].begin \in Nat /\ Log[i].n \in Nat
      BY <2>1, Numbers DEF DropInv, ElementInv
    <3> QED BY <1>0, <1>1, <2>1, <2>3, <3>1, SMTT(30)
  <2> QED BY <1>2, <2>2, <2>3
<1>5. HoleInv'
  <2> SUFFICES ASSUME NEW i \in DOMAIN Log', Log'[i].hole
               PROVE  \/ Log'[i].id = Log'[i].begin + Log'[i].n - 1
                      \/ /\ Log'[i].id = Log'[i].begin + Log'[i].n - 2
                         /\ i = Len(Log') /\ Flushed'
    BY DEF HoleInv
  <2>1. CASE i \in DOMAIN Log
    BY <1>1, <2>1 DEF DropInv, HoleInv
  <2>2. CASE i = Len(Log) + 1
    BY <1>1, <2>2
  <2> QED BY <1>2, <2>1, <2>2
<1> QED BY <1>3, <1>4, <1>5

\* Nothing taken from the buffer, nothing reported.
LEMMA ProcessedKept ==
  ASSUME fetchTypeOK, fetchTypeOK', DropInv, NextFree <= NextFree', UNCHANGED arb,
         UNCHANGED <<last_processed_id, asked>>
  PROVE  ProcessedInv'
<1>0. NextFree \in Int /\ NextFree' \in Int /\ last_processed_id \in Nat
  BY Numbers, NumbersNext
<1> QED BY <1>0 DEF DropInv, ProcessedInv, ReportedBehind

\* A new element has an id that was not reported yet.
LEMMA ProcessedGrows ==
  ASSUME fetchTypeOK, fetchTypeOK', DropInv, NEW r \in Elements,
         arb' = Append(arb, r), taken' = taken, UNCHANGED <<last_processed_id, asked>>,
         NextFree <= NextFree', NextFree <= r.begin, r.begin - 1 <= r.id,
         ~r.hole => r.id = r.begin
  PROVE  ProcessedInv'
<1> SUFFICES ASSUME ReportedBehind PROVE ReportedBehind'
  BY DEF DropInv, ProcessedInv
<1>0. /\ NextFree \in Int /\ NextFree' \in Int /\ last_processed_id \in Nat
      /\ last_processed_id < NextFree /\ r.begin \in Nat /\ r.id \in Nat
  BY Numbers, NumbersNext DEF Elements, ReportedBehind
<1>1. /\ DOMAIN arb' = 1..(Len(arb) + 1) /\ DOMAIN arb = 1..Len(arb)
      /\ \A i \in DOMAIN arb : arb'[i] = arb[i]
      /\ arb'[Len(arb) + 1] = r
  BY LogAppend, LogFacts, LenProperties
<1>2. \A i \in DOMAIN arb' : i \in DOMAIN arb \/ i = Len(arb) + 1
  BY <1>1, LogFacts
<1>3. ASSUME NEW i \in DOMAIN arb'
      PROVE  /\ last_processed_id <= arb'[i].id
             /\ arb'[i].hole \/ last_processed_id < arb'[i].id
  <2>1. CASE i \in DOMAIN arb
    BY <1>1, <2>1 DEF ReportedBehind
  <2>2. CASE i = Len(arb) + 1
    BY <1>0, <1>1, <2>2
  <2> QED BY <1>2, <1>3, <2>1, <2>2
<1> QED BY <1>0, <1>3 DEF ReportedBehind

\* x was dropped.
Gone(x) ==
  x \in Pending \/ \E j \in DOMAIN Log : Log[j].hole /\ x \in Covers(Log[j])

\* The ranges are not touched.
LEMMA RangesKept ==
  ASSUME DropInv, UNCHANGED dropped_ranges, Flushed => Flushed',
         \A x : Gone(x) => Gone(x)'
  PROVE  RangesInv' /\ RangesOnlyDropped'
<1>1. RangesInv'
  BY DEF DropInv, RangesInv
<1>2. RangesOnlyDropped'
  BY DEF DropInv, RangesOnlyDropped, Gone
<1> QED BY <1>1, <1>2

\* A range of pending events is reported: it replaces a range with the same begin
\* or another one.
LEMMA RangesReported ==
  ASSUME fetchTypeOK, DropInv, NEW e \in Nat, notify_dropped(drop_begin_id, e),
         ~Flushed, dropped_num > 0, e <= drop_begin_id + dropped_num - 1,
         ~Flushed' => drop_begin_id <= e,
         \A x : Gone(x) => Gone(x)'
  PROVE  RangesInv' /\ RangesOnlyDropped'
<1> DEFINE R == [begin : Nat, end : Nat]
           i == dropped_ranges_next
           r == dropped_ranges[i]
           j == IF i + 1 = RangesNum THEN 0 ELSE i + 1
           new == [begin |-> drop_begin_id, end |-> e]
<1>1. /\ dropped_ranges \in [0..(RangesNum - 1) -> R]
      /\ i \in 0..(RangesNum - 1) /\ j \in 0..(RangesNum - 1)
      /\ drop_begin_id \in Nat /\ dropped_num \in Nat
  BY DEF fetchTypeOK
<1>2. r \in R /\ new \in R
  BY <1>1
<1>3. /\ DOMAIN dropped_ranges' = DOMAIN dropped_ranges
      /\ \A k \in DOMAIN dropped_ranges :
           dropped_ranges'[k] = dropped_ranges[k] \/ dropped_ranges'[k] = new
  <2>1. CASE r.begin = drop_begin_id \/ (r.begin > 0 /\ r.end = r.begin - 1)
    <3>1. r.begin = drop_begin_id
      BY <1>1, <1>2, <2>1 DEF DropInv, RangesInv
    <3>2. dropped_ranges' = [dropped_ranges EXCEPT ![i] = [r EXCEPT !.end = e]]
      BY <2>1 DEF notify_dropped
    <3>3. [r EXCEPT !.end = e] = new
      BY <1>2, <3>1
    <3> QED BY <1>1, <3>2, <3>3
  <2>2. CASE ~(r.begin = drop_begin_id \/ (r.begin > 0 /\ r.end = r.begin - 1))
    <3>1. dropped_ranges' = [dropped_ranges EXCEPT ![j] = new]
      BY <2>2 DEF notify_dropped
    <3> QED BY <1>1, <3>1
  <2> QED BY <2>1, <2>2
<1> HIDE DEF new
<1>4. RangesInv'
  BY <1>1, <1>3, SMTT(30) DEF DropInv, RangesInv, new
<1>5. \A x \in drop_begin_id..e : Gone(x)
  BY <1>1 DEF Gone, Pending
<1>6. ASSUME NEW k \in DOMAIN dropped_ranges', dropped_ranges'[k].end > 0,
             NEW x \in dropped_ranges'[k].begin..dropped_ranges'[k].end
      PROVE  Gone(x)
  <2>1. CASE dropped_ranges'[k] = dropped_ranges[k]
    BY <1>3, <1>6, <2>1 DEF DropInv, RangesOnlyDropped, Gone
  <2>2. CASE dropped_ranges'[k] = new
    BY <1>5, <1>6, <2>2 DEF new
  <2> QED BY <1>3, <1>6, <2>1, <2>2
<1>7. RangesOnlyDropped'
  BY <1>6 DEF RangesOnlyDropped, Gone
<1> QED BY <1>4, <1>7

\* Steps that consume, drop, write and report nothing.
LEMMA IdleStep ==
  ASSUME fetchTypeOK, fetchTypeOK', DropInv, CountInv',
         UNCHANGED <<notifyVars, arb, dropVars, taken, asked, Current>>,
         Flushed => Flushed',
         \/ UNCHANGED <<mpc, ev>>
         \/ {mpc, mpc'} \subseteq {"get", "ready", "size", "handle", "forward", "skip",
                                   "end", "exited"}
  PROVE  DropInv'
<1>1. Log' = Log /\ Pending' = Pending
  BY DEF Log, Pending, dropVars
<1>2. NextFree' = NextFree /\ NextFree \in Int
  BY Numbers DEF NextFree, dropVars
<1>3. mpc' \in {"reset", "endreset"} => mpc' = mpc
  OBVIOUS
<1>4. ElementInv' /\ LogOrdered' /\ HoleInv' /\ PushedInv'
  BY <1>1, <1>2, <1>3, LogKept
<1>5. \A x : Gone(x) => Gone(x)'
  BY <1>1 DEF Gone, Covers
<1>6. RangesInv' /\ RangesOnlyDropped'
  BY <1>5, RangesKept DEF notifyVars
<1>7. ProcessedInv'
  BY <1>2, ProcessedKept DEF notifyVars
<1>8. CoverInv'
  <2>1. Consumed' = Consumed
    BY Numbers, NumbersNext
  <2>2. mpc' = "consume" => mpc = "consume" /\ ev' = ev
    OBVIOUS
  <2> QED BY <1>1, <2>1, <2>2 DEF DropInv, CoverInv, InLog, Covers
<1> QED BY <1>4, <1>6, <1>7, <1>8 DEF DropInv

\* The manager pushes a hole for the pending events.
LEMMA PushStep ==
  ASSUME fetchTypeOK, fetchTypeOK', ShmInv, DropInv, NEW id \in Nat, push_dropped_event(id),
         UNCHANGED <<taken, asked, dropVars, ev, last_ev_id, shmVars>>, dropped_num > 0,
         \/ mpc = "handle" /\ mpc' = "reset" /\ id = Current - 1
         \/ mpc = "end" /\ mpc' = "endreset" /\ id = Current - 2
  PROVE  DropInv'
<1> DEFINE r == Hole(id)
<1>1. /\ r \in Elements /\ arb' = Append(arb, r) /\ taken' = taken
      /\ r.hole = TRUE /\ r.id = id /\ r.begin = drop_begin_id /\ r.n = hole_n
  BY HoleType DEF push_dropped_event, Hole
<1>2. /\ drop_begin_id + dropped_num = Current /\ drop_begin_id >= 1
      /\ hole_n = dropped_num
      /\ Current \in Int /\ drop_begin_id \in Nat /\ dropped_num \in Nat
  BY Numbers DEF DropInv, CountInv
<1>3. Current' = Current
  BY DEF Current, shmVars
<1>4. NextFree = drop_begin_id /\ NextFree' = Current
  BY <1>3 DEF NextFree
<1>5. ~Flushed /\ (mpc = "end" => Flushed')
  BY DEF Flushed
<1>6. ElementInv' /\ LogOrdered' /\ HoleInv'
  <2> HIDE DEF r
  <2>1. /\ NextFree <= r.begin /\ r.begin + r.n <= NextFree' /\ r.begin >= 1 /\ r.n >= 1
        /\ r.begin - 1 <= r.id /\ r.id <= r.begin + r.n - 1
    BY <1>1, <1>2, <1>4
  <2>2. r.id = r.begin + r.n - 1 \/ (r.id = r.begin + r.n - 2 /\ Flushed')
    BY <1>1, <1>2, <1>5
  <2> QED BY <1>1, <1>5, <2>1, <2>2, LogGrows
<1>7. ProcessedInv'
  <2>1. notify_dropped(drop_begin_id, id)
    BY DEF push_dropped_event
  <2>2. last_processed_id' = last_processed_id
    BY <2>1 DEF notify_dropped
  <2> HIDE DEF r
  <2>3. NextFree <= NextFree' /\ NextFree <= r.begin /\ r.begin - 1 <= r.id
    BY <1>1, <1>2, <1>4
  <2> QED BY <1>1, <2>2, <2>3, ProcessedGrows
<1>8. /\ DOMAIN Log' = 1..(Len(Log) + 1) /\ DOMAIN Log = 1..Len(Log)
      /\ Len(Log) \in Nat
      /\ \A i \in DOMAIN Log : i \in DOMAIN Log' /\ Log'[i] = Log[i]
      /\ Len(Log) + 1 \in DOMAIN Log' /\ Log'[Len(Log) + 1] = r
  BY <1>1, LogAppend, LogFacts
<1>9. PushedInv'
  BY <1>1, <1>2, <1>8 DEF PushedInv, dropVars
<1>10. Pending' = Pending
  BY DEF Pending, dropVars
<1>11. \A x : Gone(x) => Gone(x)'
  BY <1>8, <1>10 DEF Gone, Covers
<1>12. RangesInv' /\ RangesOnlyDropped'
  <2>1. notify_dropped(drop_begin_id, id) /\ id <= drop_begin_id + dropped_num - 1
    BY <1>2 DEF push_dropped_event
  <2>2. ~Flushed' => drop_begin_id <= id
    BY <1>2, <1>5
  <2> QED BY <1>5, <1>11, <2>1, <2>2, RangesReported
<1>13. CoverInv'
  <2>1. Consumed' = Consumed /\ mpc' # "consume"
    BY <1>3, Numbers, NumbersNext
  <2> QED BY <1>8, <1>10, <2>1 DEF DropInv, CoverInv, InLog, Covers
<1>14. CountInv'
  BY <1>2, <1>3 DEF DropInv, CountInv, dropVars
<1> QED BY <1>6, <1>7, <1>9, <1>12, <1>13, <1>14 DEF DropInv

\* The pushed hole replaces the pending events.
LEMMA ResetStep ==
  ASSUME fetchTypeOK, fetchTypeOK', DropInv, mpc \in {"reset", "endreset"},
         mpc' = IF mpc = "reset" THEN "forward" ELSE "end",
         dropped_num' = 0,
         UNCHANGED <<notifyVars, arb, taken, asked, Current>>
  PROVE  DropInv'
<1>1. Log' = Log
  BY DEF Log
<1>2. NextFree' = Current /\ NextFree = Current /\ Current \in Int
  BY Numbers DEF NextFree
<1>3. Flushed => Flushed'
  BY DEF Flushed
<1>4. ElementInv' /\ LogOrdered' /\ HoleInv' /\ PushedInv'
  BY <1>1, <1>2, <1>3, LogKept
<1>5. PICK i \in DOMAIN Log :
        Log[i].hole /\ Log[i].begin = drop_begin_id /\ Log[i].n = dropped_num
  BY DEF DropInv, PushedInv
<1>6. \A x \in Pending : x \in Covers(Log[i])
  BY <1>5 DEF Pending, Covers
<1>7. \A x : Gone(x) => Gone(x)'
  BY <1>1, <1>5, <1>6 DEF Gone, Covers
<1>8. RangesInv' /\ RangesOnlyDropped'
  BY <1>3, <1>7, RangesKept DEF notifyVars
<1>9. ProcessedInv'
  BY <1>2, ProcessedKept DEF notifyVars
<1>10. CoverInv'
  <2>1. Consumed' = Consumed /\ mpc' # "consume"
    BY Numbers, NumbersNext
  <2> QED BY <1>1, <1>6, <2>1 DEF DropInv, CoverInv, InLog, Covers
<1>11. CountInv'
  BY DEF CountInv
<1> QED BY <1>4, <1>8, <1>9, <1>10, <1>11 DEF DropInv

\* An event is dropped: the first one, or one more.
LEMMA DroppingStep ==
  ASSUME fetchTypeOK, fetchTypeOK', ShmInv, DropInv, mpc = "handle", mpc' = "skip", ev = Current,
         UNCHANGED <<ev, last_ev_id, shmVars, arb, taken, asked>>,
         \/ /\ dropped_num = 0 /\ dropped_num' = 1 /\ hole_n' = 1
            /\ drop_begin_id' = ev /\ UNCHANGED notifyVars
         \/ /\ dropped_num > 0 /\ dropped_num' = dropped_num + 1
            /\ hole_n' = hole_n + 1 /\ UNCHANGED drop_begin_id
            /\ notify_dropped(drop_begin_id, ev - 1) \/ UNCHANGED notifyVars
  PROVE  DropInv'
<1>1. Log' = Log /\ Current' = Current
  BY DEF Log, Current, shmVars
<1>2. /\ Current \in Int /\ Current >= 1 /\ drop_begin_id \in Nat /\ dropped_num \in Nat
      /\ hole_n \in Nat
      /\ dropped_num > 0 => /\ drop_begin_id + dropped_num = Current
                            /\ drop_begin_id >= 1 /\ hole_n = dropped_num
  BY Numbers DEF ShmInv, DropInv, CountInv
<1>3. NextFree' = NextFree /\ NextFree \in Int
  BY <1>1, <1>2 DEF NextFree
<1>4. ~Flushed /\ ~Flushed'
  BY DEF Flushed
<1>5. ElementInv' /\ LogOrdered' /\ HoleInv' /\ PushedInv'
  BY <1>1, <1>3, <1>4, LogKept
<1>6. /\ dropped_num' > 0 /\ drop_begin_id' >= 1 /\ hole_n' = dropped_num'
      /\ drop_begin_id' + dropped_num' = Current + 1
  BY <1>2
<1>7. CountInv'
  BY <1>1, <1>6 DEF DropInv, CountInv
<1>8. Pending \subseteq Pending' /\ Current \in Pending'
  BY <1>2 DEF Pending
<1>9. \A x : Gone(x) => Gone(x)'
  BY <1>1, <1>8 DEF Gone, Covers
<1>10. RangesInv' /\ RangesOnlyDropped'
  <2>1. CASE UNCHANGED notifyVars
    BY <1>4, <1>9, <2>1, RangesKept DEF notifyVars
  <2>2. CASE dropped_num > 0 /\ notify_dropped(drop_begin_id, ev - 1)
    <3>1. ev - 1 \in Nat /\ ev - 1 <= drop_begin_id + dropped_num - 1
          /\ drop_begin_id <= ev - 1
      BY <1>2, <2>2
    <3> QED BY <1>4, <1>9, <2>2, <3>1, RangesReported
  <2> QED BY <2>1, <2>2
<1>11. ProcessedInv'
  <2>1. UNCHANGED last_processed_id
    BY DEF notify_dropped, notifyVars
  <2> QED BY <1>3, <2>1, ProcessedKept
<1>12. CoverInv'
  <2>1. Consumed' = Consumed
    BY <1>1, Numbers, NumbersNext
  <2> QED BY <1>1, <1>8, <2>1 DEF DropInv, CoverInv, InLog, Covers
<1> QED BY <1>5, <1>7, <1>10, <1>11, <1>12 DEF DropInv

\* The manager forwards the event at hand, or filters it.
LEMMA ForwardStep ==
  ASSUME fetchTypeOK, fetchTypeOK', ShmInv, DropInv, mpc = "forward", mpc' = "consume",
         ev = Current, dropped_num = 0,
         arb' = IF ~FilterFirst /\ ev \in Filtered THEN arb ELSE Append(arb, Event(ev)),
         UNCHANGED <<ev, last_ev_id, shmVars, notifyVars, dropVars, taken, asked>>
  PROVE  DropInv'
<1>1. Current' = Current /\ Current \in Int /\ Current >= 1
  BY Numbers DEF Current, shmVars, ShmInv
<1>2. NextFree = Current /\ NextFree' = Current + 1 /\ NextFree <= NextFree'
  BY <1>1 DEF NextFree, dropVars
<1>3. ~Flushed /\ ~Flushed'
  BY DEF Flushed
<1>4. Pending' = Pending
  BY DEF Pending, dropVars
<1>5. CountInv' /\ PushedInv'
  BY DEF CountInv, PushedInv, dropVars
<1>6. Consumed' = Consumed
  BY <1>1, Numbers, NumbersNext
<1>7. CASE ~FilterFirst /\ ev \in Filtered
  <2>1. Log' = Log /\ arb' = arb
    BY <1>7 DEF Log
  <2>2. ElementInv' /\ LogOrdered' /\ HoleInv'
    BY <1>2, <1>3, <2>1, LogKept
  <2>3. \A x : Gone(x) => Gone(x)'
    BY <1>4, <2>1 DEF Gone, Covers
  <2>4. RangesInv' /\ RangesOnlyDropped'
    BY <1>3, <2>3, RangesKept DEF notifyVars
  <2>5. ProcessedInv'
    BY <1>2, <2>1, ProcessedKept DEF notifyVars
  <2>6. CoverInv'
    BY <1>4, <1>6, <1>7, <2>1 DEF DropInv, CoverInv, InLog, Covers
  <2> QED BY <1>5, <2>2, <2>4, <2>5, <2>6 DEF DropInv
<1>8. CASE ~(~FilterFirst /\ ev \in Filtered)
  <2> DEFINE r == Event(ev)
  <2>1. /\ r \in Elements /\ arb' = Append(arb, r) /\ r.hole = FALSE
        /\ r.id = Current /\ r.begin = Current /\ r.n = 1
    BY <1>1, <1>8 DEF Event, Elements
  <2> HIDE DEF r
  <2>2. ElementInv' /\ LogOrdered' /\ HoleInv'
    <3>1. /\ NextFree <= r.begin /\ r.begin + r.n <= NextFree' /\ r.begin >= 1
          /\ r.n >= 1 /\ r.begin - 1 <= r.id /\ r.id <= r.begin + r.n - 1
      BY <1>1, <1>2, <2>1
    <3> QED BY <1>3, <2>1, <3>1, LogGrows
  <2>3. ProcessedInv'
    <3>1. NextFree <= r.begin /\ r.begin - 1 <= r.id
      BY <1>1, <1>2, <2>1
    <3> QED BY <1>2, <2>1, <3>1, ProcessedGrows DEF notifyVars
  <2>4. /\ \A i \in DOMAIN Log : i \in DOMAIN Log' /\ Log'[i] = Log[i]
        /\ Len(Log) + 1 \in DOMAIN Log' /\ Log'[Len(Log) + 1] = r
    <3>1. /\ DOMAIN Log' = 1..(Len(Log) + 1) /\ DOMAIN Log = 1..Len(Log)
          /\ Len(Log) \in Nat
          /\ \A i \in DOMAIN Log : Log'[i] = Log[i]
          /\ Log'[Len(Log) + 1] = r
      BY <2>1, LogAppend, LogFacts
    <3> QED BY <3>1, SMTT(30)
  <2>5. \A x : Gone(x) => Gone(x)'
    BY <1>4, <2>4 DEF Gone, Covers
  <2>6. RangesInv' /\ RangesOnlyDropped'
    BY <1>3, <2>5, RangesKept DEF notifyVars
  <2>7. InLog(Current)'
    BY <1>1, <2>1, <2>4 DEF InLog, Covers
  <2>8. CoverInv'
    BY <1>1, <1>4, <1>6, <2>4, <2>7 DEF DropInv, CoverInv, InLog, Covers
  <2> QED BY <1>5, <2>2, <2>3, <2>6, <2>8 DEF DropInv
<1> QED BY <1>7, <1>8

\* The manager consumes an event that it has dropped, forwarded or filtered.
LEMMA ConsumedStep ==
  ASSUME fetchTypeOK, fetchTypeOK', ShmInv, DropInv, mpc \in {"skip", "consume"}, mpc' = "get",
         ev = Current, Current' = Current + 1,
         mpc = "consume" => dropped_num = 0,
         mpc = "skip" => last_ev_id' = last_ev_id,
         UNCHANGED <<notifyVars, arb, dropVars, taken, asked>>
  PROVE  DropInv'
<1>1. Log' = Log /\ Pending' = Pending
  BY DEF Log, Pending, dropVars
<1>2. /\ NextFree \in Int /\ NextFree' \in Int /\ Current \in Int /\ Current >= 1
      /\ NextFree <= NextFree'
  <2>1. NextFree \in Int /\ NextFree' \in Int /\ Current \in Int /\ Current >= 1
    BY Numbers, NumbersNext DEF ShmInv
  <2>2. CASE dropped_num > 0
    BY <2>1, <2>2 DEF NextFree, dropVars
  <2>3. CASE ~(dropped_num > 0)
    BY <2>1, <2>3 DEF NextFree, dropVars
  <2> QED BY <2>1, <2>2, <2>3
<1>3. ~Flushed /\ ~Flushed'
  BY DEF Flushed
<1>4. ElementInv' /\ LogOrdered' /\ HoleInv' /\ PushedInv'
  BY <1>1, <1>2, <1>3, LogKept
<1>5. \A x : Gone(x) => Gone(x)'
  BY <1>1 DEF Gone, Covers
<1>6. RangesInv' /\ RangesOnlyDropped'
  BY <1>3, <1>5, RangesKept DEF notifyVars
<1>7. ProcessedInv'
  BY <1>2, ProcessedKept DEF notifyVars
<1>8. CountInv'
  BY <1>2 DEF DropInv, CountInv, dropVars
<1>9. CoverInv'
  <2>1. \A x \in Consumed' : x \in Consumed \/ x = Current
    BY <1>2, Numbers, NumbersNext
  <2>2. Current \in Filtered \/ Current \in Pending \/ InLog(Current)
    <3>1. CASE mpc = "consume"
      BY <3>1 DEF DropInv, CoverInv
    <3>2. CASE mpc = "skip"
      BY <1>2, <3>2, Numbers DEF DropInv, CountInv, Pending
    <3> QED BY <3>1, <3>2
  <2> QED BY <1>1, <2>1, <2>2 DEF DropInv, CoverInv, InLog, Covers
<1> QED BY <1>4, <1>6, <1>7, <1>8, <1>9 DEF DropInv

\* The ids in the buffer do not decrease, and those of events increase.
LEMMA BufferOrder ==
  ASSUME fetchTypeOK, DropInv
  PROVE  /\ \A i \in DOMAIN arb : arb[i].id \in Nat /\ arb[i].id < NextFree
         /\ \A i, j \in DOMAIN arb :
              i < j => /\ arb[i].id <= arb[j].id
                       /\ ~arb[j].hole => arb[i].id < arb[j].id
<1>1. ASSUME NEW i \in DOMAIN arb
      PROVE  arb[i].id \in Nat /\ arb[i].id < NextFree
  <2> DEFINE a == Len(taken) + i
  <2>1. a \in DOMAIN Log /\ Log[a] = arb[i]
    BY <1>1, LogFacts
  <2> HIDE DEF a
  <2>2. /\ Log[a].id <= Log[a].begin + Log[a].n - 1
        /\ Log[a].begin + Log[a].n <= NextFree
    BY <2>1 DEF DropInv, ElementInv
  <2>3. Log[a].id \in Nat /\ Log[a].begin \in Nat /\ Log[a].n \in Nat /\ NextFree \in Int
    BY <2>1, Numbers
  <2> QED BY <2>1, <2>2, <2>3
<1>2. ASSUME NEW i \in DOMAIN arb, NEW j \in DOMAIN arb, i < j
      PROVE  arb[i].id <= arb[j].id /\ (~arb[j].hole => arb[i].id < arb[j].id)
  <2> DEFINE a == Len(taken) + i
             b == Len(taken) + j
  <2>1. /\ a \in DOMAIN Log /\ b \in DOMAIN Log /\ a < b
        /\ Log[a] = arb[i] /\ Log[b] = arb[j]
    BY <1>2, LogFacts
  <2> HIDE DEF a, b
  <2>2. Log[a].begin + Log[a].n <= Log[b].begin
    BY <2>1 DEF DropInv, LogOrdered
  <2>3. /\ Log[a].id <= Log[a].begin + Log[a].n - 1
        /\ Log[b].begin - 1 <= Log[b].id
        /\ ~Log[b].hole => Log[b].id = Log[b].begin
    BY <2>1 DEF DropInv, ElementInv
  <2>4. /\ Log[a].id \in Nat /\ Log[a].begin \in Nat /\ Log[a].n \in Nat
        /\ Log[b].id \in Nat /\ Log[b].begin \in Nat
    BY <2>1, Numbers
  <2>5. Log[a].id <= Log[b].id /\ (~Log[b].hole => Log[a].id < Log[b].id)
    BY <2>2, <2>3, <2>4
  <2> QED BY <2>1, <2>5
<1> QED BY <1>1, <1>2

\* What a step may report.
MonotonicStep ==
  last_processed_id' >= last_processed_id \/ last_processed_id <= asked

\* The arbiter takes elements and reports an id.
LEMMA TakeStep ==
  ASSUME fetchTypeOK, fetchTypeOK', DropInv, NEW k \in 1..Len(arb), NEW id \in Nat,
         Consume(k, id),
         \/ id = arb[k].id /\ UNCHANGED asked
         \/ k \in OldUpTo(id) /\ AskedFor(id)
         \/ id = last_processed_id /\ UNCHANGED asked
  PROVE  DropInv' /\ MonotonicStep
<1>1. /\ DOMAIN arb = 1..Len(arb) /\ Len(arb) \in Nat /\ k \in DOMAIN arb
      /\ DOMAIN arb' = 1..(Len(arb) - k)
      /\ \A j \in DOMAIN arb' : k + j \in DOMAIN arb /\ arb'[j] = arb[k + j]
      /\ Log' = Log
  <2>1. DOMAIN arb = 1..Len(arb) /\ Len(arb) \in Nat
    BY LogFacts
  <2>2. /\ arb' \in Seq(Elements) /\ Len(arb') = Len(arb) - k /\ Log' = Log
        /\ \A j \in 1..(Len(arb) - k) : arb'[j] = arb[k + j]
    BY ConsumeFacts
  <2>3. DOMAIN arb' = 1..(Len(arb) - k)
    BY <2>2, LenProperties
  <2> QED BY <2>1, <2>2, <2>3
<1>2. /\ last_processed_id' = id
      /\ UNCHANGED <<shmVars, dropped_ranges, dropped_ranges_next, mgrVars, dropVars>>
  BY DEF Consume
<1>3. /\ NextFree' = NextFree /\ Current' = Current /\ Pending' = Pending
      /\ Flushed' = Flushed
  BY <1>2 DEF NextFree, Current, Pending, Flushed, shmVars, mgrVars, dropVars
<1>4. NextFree \in Int /\ last_processed_id \in Nat /\ asked \in Nat
  BY Numbers
<1>5. ElementInv' /\ LogOrdered' /\ HoleInv' /\ PushedInv'
  BY <1>1, <1>2, <1>3, <1>4, LogKept DEF mgrVars
<1>6. \A x : Gone(x) => Gone(x)'
  BY <1>1, <1>3 DEF Gone, Covers
<1>7. RangesInv' /\ RangesOnlyDropped'
  BY <1>2, <1>3, <1>6, RangesKept
<1>8. CountInv'
  BY <1>2, <1>3 DEF DropInv, CountInv, mgrVars, dropVars
<1>9. CoverInv'
  <2>1. Consumed' = Consumed
    BY <1>3, Numbers, NumbersNext
  <2> QED BY <1>1, <1>2, <1>3, <2>1 DEF DropInv, CoverInv, InLog, Covers, mgrVars
<1>10. arb[k].id \in Nat /\ arb[k].id < NextFree
  BY <1>1, BufferOrder
<1>11. ASSUME NEW j \in DOMAIN arb', id = last_processed_id => ReportedBehind
       PROVE  id <= arb'[j].id /\ (arb'[j].hole \/ id < arb'[j].id)
  <2> DEFINE m == k + j
  <2>1. m \in DOMAIN arb /\ arb'[j] = arb[m] /\ k < m /\ m \in Int /\ k + 1 <= m
    BY <1>1
  <2> HIDE DEF m
  <2>2. arb[k].id <= arb[m].id /\ (~arb[m].hole => arb[k].id < arb[m].id)
    BY <1>1, <2>1, BufferOrder
  <2>3. CASE id = arb[k].id
    BY <2>1, <2>2, <2>3
  <2>4. CASE id = last_processed_id
    BY <1>11, <2>1, <2>4 DEF ReportedBehind
  <2>5. CASE k \in OldUpTo(id) /\ id # arb[k].id
    <3>1. k + 1 \in DOMAIN arb
      BY <1>1, <2>1
    <3>2. arb[k + 1].id > id
      BY <1>1, <2>1, <2>5 DEF OldUpTo
    <3>3. arb[m].id \in Nat /\ arb[k + 1].id \in Nat
      BY <2>1, <3>1, BufferOrder
    <3>4. arb[k + 1].id <= arb[m].id
      <4>1. CASE k + 1 = m
        BY <3>3, <4>1
      <4>2. CASE k + 1 < m
        BY <2>1, <3>1, <4>2, BufferOrder
      <4> QED BY <2>1, <4>1, <4>2
    <3> QED BY <2>1, <3>2, <3>3, <3>4
  <2> QED BY <2>3, <2>4, <2>5
<1>12. ASSUME id < NextFree, id = last_processed_id => ReportedBehind
       PROVE  ReportedBehind'
  BY <1>2, <1>3, <1>11, <1>12 DEF ReportedBehind
<1>13. ProcessedInv'
  <2>1. CASE id = last_processed_id /\ UNCHANGED asked
    <3>1. CASE last_processed_id <= asked
      BY <1>2, <2>1, <3>1 DEF ProcessedInv
    <3>2. CASE ReportedBehind
      BY <1>12, <2>1, <3>2 DEF ProcessedInv, ReportedBehind
    <3> QED BY <3>1, <3>2 DEF DropInv, ProcessedInv
  <2>2. CASE id # last_processed_id /\ id < NextFree
    BY <1>12, <2>2 DEF ProcessedInv
  <2>3. CASE AskedFor(id) /\ id >= NextFree
    <3>1. arb[Len(arb)].id < NextFree /\ arb[Len(arb)].id \in Nat
      BY <1>1, BufferOrder
    <3>2. id <= asked'
      BY <1>4, <2>3, <3>1 DEF AskedFor
    <3> QED BY <1>2, <3>2 DEF ProcessedInv
  <2>4. CASE id = last_processed_id /\ AskedFor(id) /\ id < NextFree
    <3>1. asked <= asked'
      BY <1>4, <2>4 DEF AskedFor
    <3>2. CASE last_processed_id <= asked
      <4>1. asked' \in Nat
        BY DEF fetchTypeOK
      <4> QED BY <1>2, <1>4, <2>4, <3>1, <3>2, <4>1 DEF ProcessedInv
    <3>3. CASE ReportedBehind
      BY <1>12, <2>4, <3>3 DEF ProcessedInv
    <3> QED BY <3>2, <3>3 DEF DropInv, ProcessedInv
  <2> QED BY <1>4, <1>10, <2>1, <2>2, <2>3, <2>4
<1>14. MonotonicStep
  <2>1. arb[k].id <= id \/ id = last_processed_id
    BY <1>10 DEF OldUpTo
  <2>2. ReportedBehind => last_processed_id <= arb[k].id
    BY <1>1 DEF ReportedBehind
  <2>3. ReportedBehind => last_processed_id <= id
    BY <1>4, <1>10, <2>1, <2>2
  <2> QED BY <1>2, <1>4, <2>3 DEF DropInv, ProcessedInv, MonotonicStep
<1> QED BY <1>5, <1>7, <1>8, <1>9, <1>13, <1>14 DEF DropInv

-----------------------------------------------------------------------------
(* The invariant of the dropping.                                          *)

\* Nothing is dropped, written or reported initially.
LEMMA DropInit == fetchInit => DropInv
<1> SUFFICES ASSUME fetchInit PROVE DropInv
  OBVIOUS
<1>1. fetchTypeOK
  BY BaseInit DEF BaseInv
<1>2. Log \in Seq(Elements) /\ Len(Log) = 0 /\ DOMAIN Log = {} /\ Len(shm) = 0
  BY <1>1, LogFacts, EmptySeq DEF fetchInit
<1>3. Current = 1 /\ NextFree = 1 /\ Consumed = {}
  BY <1>2 DEF fetchInit, Current, NextFree, Consumed
<1>4. CountInv /\ PushedInv
  BY DEF fetchInit, CountInv, PushedInv
<1>5. ElementInv /\ LogOrdered /\ HoleInv
  BY <1>2 DEF ElementInv, LogOrdered, HoleInv
<1>6. CoverInv
  BY <1>3 DEF fetchInit, CoverInv
<1>7. RangesInv /\ RangesOnlyDropped
  BY DEF fetchInit, RangesInv, RangesOnlyDropped
<1>8. ProcessedInv
  <2>1. DOMAIN arb = {}
    BY <1>1, LogFacts, EmptySeq DEF fetchInit
  <2> QED BY <1>3, <2>1 DEF fetchInit, ProcessedInv, ReportedBehind
<1> QED BY <1>4, <1>5, <1>6, <1>7, <1>8 DEF DropInv

\* Every step keeps it, if filtered and dropped events are apart, and no step
\* reports a smaller id than before but after a call that was ahead.
LEMMA DropStep ==
  ASSUME FilteredApart, BaseInv, BaseInv', DropInv, [fetchNext]_fetchVars
  PROVE  DropInv' /\ MonotonicStep
<1>0. /\ fetchTypeOK /\ fetchTypeOK' /\ ShmInv /\ MgrInv /\ MgrInv' /\ Len(shm) \in Nat
      /\ UNCHANGED last_processed_id => MonotonicStep
  BY Numbers DEF BaseInv, MonotonicStep
<1>1. CASE Source
  <2>1. UNCHANGED <<notifyVars, mgrVars, arb, dropVars, arbiterVars>>
    BY <1>1 DEF Source, shm_buffer_push, shm_buffer_destroy
  <2>2. Current' = Current
    <3>1. CASE shm_buffer_push
      <4>1. Len(shm') = Len(shm) + 1 /\ next_id' = next_id + 1 /\ next_id \in Int
        BY <1>0, <3>1, AppendProperties DEF shm_buffer_push, fetchTypeOK
      <4> QED BY <1>0, <4>1 DEF Current
    <3>2. CASE shm_buffer_destroy
      BY <3>2 DEF shm_buffer_destroy, Current
    <3> QED BY <1>1, <3>1, <3>2 DEF Source
  <2>3. CountInv' /\ (Flushed => Flushed')
    BY <2>1, <2>2 DEF DropInv, CountInv, Flushed, mgrVars, dropVars
  <2> QED BY <1>0, <2>1, <2>2, <2>3, IdleStep DEF mgrVars, arbiterVars, notifyVars
<1>2. CASE get_event
  <2>1. /\ mpc = "get" /\ mpc' \in {"handle", "skip"} /\ ev' = last_ev_id'
        /\ mpc' = "skip" => dropped_num = 0 /\ ev' \in Filtered
        /\ UNCHANGED <<shmVars, notifyVars, arb, dropVars, arbiterVars>>
    BY <1>2, Numbers, <1>0 DEF get_event, FilteredApart
  <2>2. Current' = Current
    BY <2>1 DEF Current, shmVars
  <2>3. CountInv' /\ (Flushed => Flushed')
    BY <2>1, <2>2 DEF DropInv, CountInv, Flushed, dropVars
  <2> QED BY <1>0, <2>1, <2>2, <2>3, IdleStep DEF arbiterVars, notifyVars
<1>3. CASE get_event_none \/ is_ready_destroyed \/ is_ready_size \/ fetched
           \/ handle_stream_end
  <2>1. /\ UNCHANGED <<shmVars, notifyVars, arb, dropVars, arbiterVars, ev, last_ev_id>>
        /\ \/ mpc = "get" /\ mpc' = "ready"
           \/ mpc = "ready" /\ mpc' \in {"size", "get"}
           \/ mpc = "size" /\ mpc' \in {"end", "get"}
           \/ mpc = "handle" /\ mpc' = "forward" /\ dropped_num = 0
           \/ mpc = "end" /\ mpc' = "exited" /\ dropped_num = 0
    BY <1>3 DEF get_event_none, is_ready_destroyed, is_ready_size, fetched,
       handle_stream_end, Goto
  <2>2. Current' = Current
    BY <2>1 DEF Current, shmVars
  <2>3. CountInv' /\ (Flushed => Flushed')
    BY <2>1, <2>2 DEF DropInv, CountInv, Flushed, dropVars
  <2> QED BY <1>0, <2>1, <2>2, <2>3, IdleStep DEF arbiterVars, notifyVars
<1>4. CASE send_dropped_event
  <2>1. /\ mpc = "handle" /\ mpc' = "reset" /\ dropped_num > 0
        /\ push_dropped_event(ev - 1) /\ ev = Current
        /\ UNCHANGED <<shmVars, dropVars, arbiterVars, ev, last_ev_id>>
    BY <1>0, <1>4 DEF send_dropped_event, Goto, MgrInv
  <2>2. ev - 1 \in Nat
    BY <1>0, <2>1, Numbers DEF ShmInv
  <2>3. UNCHANGED last_processed_id
    BY <2>1 DEF push_dropped_event, notify_dropped
  <2> QED BY <1>0, <2>1, <2>2, <2>3, PushStep DEF arbiterVars
<1>5. CASE handle_stream_end_push
  <2>1. /\ mpc = "end" /\ mpc' = "endreset" /\ dropped_num > 0
        /\ push_dropped_event(last_ev_id - 1) /\ last_ev_id = Current - 1
        /\ UNCHANGED <<shmVars, dropVars, arbiterVars, ev, last_ev_id>>
    BY <1>5 DEF handle_stream_end_push, Goto, DropInv, CountInv
  <2>2. last_ev_id - 1 \in Nat /\ last_ev_id - 1 = Current - 2
    BY <1>0, <2>1, Numbers DEF MgrInv
  <2>3. UNCHANGED last_processed_id
    BY <2>1 DEF push_dropped_event, notify_dropped
  <2> QED BY <1>0, <2>1, <2>2, <2>3, PushStep DEF arbiterVars
<1>6. CASE send_dropped_reset \/ handle_stream_end_reset
  <2>1. /\ mpc \in {"reset", "endreset"} /\ dropped_num' = 0
        /\ mpc' = IF mpc = "reset" THEN "forward" ELSE "end"
        /\ UNCHANGED <<shmVars, notifyVars, arb, arbiterVars>>
    BY <1>6 DEF send_dropped_reset, handle_stream_end_reset, Goto
  <2>2. Current' = Current
    BY <2>1 DEF Current, shmVars
  <2> QED BY <1>0, <2>1, <2>2, ResetStep DEF arbiterVars, notifyVars
<1>7. CASE start_dropping \/ continue_dropping
  <2>1. /\ mpc = "handle" /\ mpc' = "skip" /\ ev = Current
        /\ UNCHANGED <<ev, last_ev_id, shmVars, arb, arbiterVars>>
    BY <1>0, <1>7 DEF start_dropping, continue_dropping, Goto, MgrInv
  <2>2. \/ /\ dropped_num = 0 /\ dropped_num' = 1 /\ hole_n' = 1
           /\ drop_begin_id' = ev /\ UNCHANGED notifyVars
        \/ /\ dropped_num > 0 /\ dropped_num' = dropped_num + 1
           /\ hole_n' = hole_n + 1 /\ UNCHANGED drop_begin_id
           /\ notify_dropped(drop_begin_id, ev - 1) \/ UNCHANGED notifyVars
    BY <1>7 DEF start_dropping, continue_dropping
  <2>3. UNCHANGED last_processed_id
    BY <2>2 DEF notify_dropped, notifyVars
  <2> QED BY <1>0, <2>1, <2>2, <2>3, DroppingStep DEF arbiterVars
<1>8. CASE forward
  <2>1. /\ mpc = "forward" /\ mpc' = "consume" /\ ev = Current /\ dropped_num = 0
        /\ arb' = IF ~FilterFirst /\ ev \in Filtered THEN arb
                  ELSE Append(arb, Event(ev))
        /\ UNCHANGED <<ev, last_ev_id, shmVars, notifyVars, dropVars, arbiterVars>>
    BY <1>0, <1>8 DEF forward, Goto, MgrInv
  <2> QED BY <1>0, <2>1, ForwardStep DEF arbiterVars, notifyVars
<1>9. CASE stream_consume
  <2>1. /\ mpc \in {"skip", "consume"} /\ mpc' = "get" /\ shm # << >>
        /\ shm' = Tail(shm) /\ UNCHANGED next_id
        /\ mpc = "skip" => last_ev_id' = last_ev_id
        /\ ev = Current /\ (mpc = "consume" => dropped_num = 0)
        /\ UNCHANGED <<notifyVars, arb, dropVars, arbiterVars>>
    BY <1>0, <1>9 DEF stream_consume, MgrInv
  <2>2. Len(shm') = Len(shm) - 1 /\ next_id \in Int
    BY <1>0, <2>1, HeadTailProperties DEF fetchTypeOK
  <2>3. Current' = Current + 1
    BY <1>0, <2>1, <2>2 DEF Current
  <2> QED BY <1>0, <2>1, <2>3, ConsumedStep DEF arbiterVars, notifyVars
<1>10. CASE \/ \E n \in DropCounts : drop(n)
            \/ \E id \in OlderIds : drop_older_than(id)
            \/ pop
  BY <1>0, <1>10, TakesFront, TakeStep
<1>11. CASE peek_none \/ IsDone \/ Finished \/ UNCHANGED fetchVars
  <2>1. UNCHANGED <<shmVars, notifyVars, mgrVars, arb, dropVars, taken, asked>>
    BY <1>11 DEF peek_none, IsDone, is_done_dropped, is_done_size, is_done_ready,
       is_done_shm, is_done_dropped2, is_done_size2, Test, Finished, fetchVars, arbiterVars
  <2>2. Current' = Current
    BY <2>1 DEF Current, shmVars
  <2>3. CountInv' /\ (Flushed => Flushed')
    BY <2>1, <2>2 DEF DropInv, CountInv, Flushed, mgrVars, dropVars
  <2> QED BY <1>0, <2>1, <2>2, <2>3, IdleStep DEF mgrVars, notifyVars
<1> QED BY <1>1, <1>2, <1>3, <1>4, <1>5, <1>6, <1>7, <1>8, <1>9, <1>10, <1>11
     DEF fetchNext, Manager, Arbiter

\* The manager's fetch never filters, whatever else it does.
LEMMA AlwaysApart ==
  ASSUME ~FilterFirst
  PROVE  fetchSpec => []FilteredApart
<1>1. FilteredApart
  BY DEF FilteredApart
<1> QED BY <1>1, PTL

\* The invariant holds in every state.
LEMMA DropAlways == fetchSpec /\ []FilteredApart => [](BaseInv /\ DropInv)
<1>1. FilteredApart /\ BaseInv /\ DropInv /\ [fetchNext]_fetchVars => (BaseInv /\ DropInv)'
  BY BaseStep, DropStep
<1> QED BY BaseInit, DropInit, <1>1, PTL DEF fetchSpec

-----------------------------------------------------------------------------
(* What it means for the arbiter and for the source.                       *)

\* An element stands for an event that no other element stands for, and that is
\* not pending.
LEMMA OnlyOnce ==
  ASSUME BaseInv, DropInv, mpc \in {"get", "exited"}, NEW x \in Int
  PROVE  /\ \A i, j \in DOMAIN Log :
              x \in Covers(Log[i]) /\ x \in Covers(Log[j]) => i = j
         /\ x \in Pending => \A i \in DOMAIN Log : x \notin Covers(Log[i])
<1>0. fetchTypeOK
  BY DEF BaseInv
<1>1. ASSUME NEW i \in DOMAIN Log, NEW j \in DOMAIN Log, i < j,
             x \in Covers(Log[i]), x \in Covers(Log[j])
      PROVE  FALSE
  <2>1. Log[i].begin + Log[i].n <= Log[j].begin
    BY <1>1 DEF DropInv, LogOrdered
  <2>2. Log[i].begin \in Nat /\ Log[i].n \in Nat /\ Log[j].begin \in Nat
        /\ Log[j].n \in Nat
    BY <1>0, <1>1, Numbers
  <2> QED BY <1>1, <2>1, <2>2 DEF Covers
<1>2. ASSUME NEW i \in DOMAIN Log, x \in Pending, x \in Covers(Log[i]) PROVE FALSE
  <2>1. dropped_num > 0 /\ drop_begin_id <= x /\ drop_begin_id \in Nat
    BY <1>0, <1>2, Numbers DEF Pending
  <2>2. NextFree = drop_begin_id
    BY <2>1 DEF NextFree
  <2>3. Log[i].begin + Log[i].n <= NextFree
    BY <1>2 DEF DropInv, ElementInv
  <2>4. Log[i].begin \in Nat /\ Log[i].n \in Nat
    BY <1>0, <1>2, Numbers
  <2> QED BY <1>2, <2>1, <2>2, <2>3, <2>4 DEF Covers
<1>3. \A i, j \in DOMAIN Log : i < j \/ j < i \/ i = j
  BY <1>0, LogFacts
<1> QED BY <1>1, <1>2, <1>3

\* The dropped events and the event at hand are consecutive.
LEMMA DropIdsMeaning == BaseInv /\ DropInv => DropIdsRight
  BY Numbers DEF BaseInv, MgrInv, DropInv, CountInv, DropIdsRight

\* Every event that is not filtered appears once, and everything is in order.
LEMMA LogMeaning == BaseInv /\ DropInv => LogRight
<1>1. BaseInv /\ DropInv => Accounted
  <2> SUFFICES ASSUME BaseInv, DropInv, mpc \in {"get", "exited"}, NEW x \in Consumed
               PROVE  LET times == Cardinality({i \in DOMAIN Log : x \in Covers(Log[i])})
                                     + (IF x \in Pending THEN 1 ELSE 0)
                      IN  IF x \in Filtered THEN times <= 1 ELSE times = 1
    BY DEF Accounted
  <2> DEFINE T == {i \in DOMAIN Log : x \in Covers(Log[i])}
  <2>0. x \in Int
    BY Numbers DEF BaseInv
  <2>1. CASE T = {}
    <3>1. Cardinality(T) = 0
      BY <2>1, FS_EmptySet
    <3>2. x \in Filtered \/ x \in Pending
      BY <2>1 DEF DropInv, CoverInv, InLog
    <3> QED BY <3>1, <3>2
  <2>2. CASE T # {}
    <3>1. PICK i \in DOMAIN Log : x \in Covers(Log[i])
      BY <2>2
    <3>2. T = {i} /\ x \notin Pending
      BY <2>0, <3>1, OnlyOnce
    <3>3. Cardinality(T) = 1
      BY <3>2, FS_Singleton
    <3> QED BY <3>2, <3>3
  <2> QED BY <2>1, <2>2
<1>2. DropInv => LogOrdered
  BY DEF DropInv
<1> QED BY <1>1, <1>2 DEF LogRight

\* A hole that something follows has the id of its last event.
LEMMA HoleMeaning == BaseInv /\ DropInv => HoleIdRight
<1> SUFFICES ASSUME BaseInv, DropInv, NEW i \in DOMAIN Log, Log[i].hole,
                    i < Len(Log) \/ mpc \notin {"endreset", "end", "exited"}
             PROVE  Log[i].id = Log[i].begin + Log[i].n - 1
  BY DEF HoleIdRight, LastOf
<1>1. Log[i].begin \in Nat /\ Log[i].n \in Nat /\ Len(Log) \in Nat
  BY Numbers, LogFacts DEF BaseInv
<1> QED BY <1>1, SMTT(30) DEF DropInv, HoleInv, Flushed

\* What was reported as dropped is in a hole or pending, and what was reported as
\* processed is not to be read.
LEMMA ReportsMeaning == BaseInv /\ DropInv => ReportsTrue
<1> SUFFICES ASSUME BaseInv, DropInv PROVE ReportsTrue
  OBVIOUS
<1>0. /\ fetchTypeOK /\ Current \in Int /\ NextFree \in Int /\ last_processed_id \in Nat
      /\ DOMAIN shm = 1..Len(shm) /\ Len(shm) \in Nat
      /\ drop_begin_id \in Nat /\ dropped_num \in Nat
  BY Numbers, LenProperties DEF BaseInv, fetchTypeOK
<1>1. NextFree <= IF mpc = "consume" THEN Current + 1 ELSE Current
  BY <1>0 DEF NextFree, BaseInv, MgrInv, DropInv, CountInv
<1>2. CASE ReportedBehind
  <2>1. \A i \in DOMAIN shm : (i = 1 /\ mpc = "consume") \/ shm[i] > last_processed_id
    BY <1>0, <1>1, <1>2 DEF BaseInv, ShmInv, ReportedBehind
  <2>2. \A i \in DOMAIN arb : arb[i].hole \/ arb[i].id > last_processed_id
    BY <1>0, <1>2, BufferOrder DEF ReportedBehind
  <2> QED BY <2>1, <2>2 DEF ReportsTrue, ProcessedNotLive, DropInv
<1>3. CASE last_processed_id <= asked
  <2>1. \A x \in Nat : x > last_processed_id \/ x <= asked
    BY <1>0, <1>3, Numbers
  <2>2. \A i \in DOMAIN shm : shm[i] \in Nat
    BY <1>0 DEF BaseInv, ShmInv, fetchTypeOK
  <2>3. \A i \in DOMAIN arb : arb[i].id \in Nat
    BY <1>0, BufferOrder
  <2> QED BY <2>1, <2>2, <2>3 DEF ReportsTrue, ProcessedNotLive, DropInv
<1> QED BY <1>2, <1>3 DEF DropInv, ProcessedInv

\* vms_stream_fetch_dropping_filter is right, too, as long as it meets no event to be
\* filtered while it is dropping others: that it does not count those is the only
\* reason why its assertion "Drop IDs are wrong" may fail.
THEOREM FetchRightWhileApart ==
  fetchSpec /\ []FilteredApart =>
    [](DropIdsRight /\ LogRight /\ HoleIdRight /\ ReportsTrue) /\ MonotonicUnlessAhead
<1>1. BaseInv /\ DropInv => DropIdsRight /\ LogRight /\ HoleIdRight /\ ReportsTrue
  BY DropIdsMeaning, LogMeaning, HoleMeaning, ReportsMeaning
<1>2. FilteredApart /\ BaseInv /\ DropInv /\ [fetchNext]_fetchVars =>
        [MonotonicStep]_fetchVars
  BY BaseStep, DropStep
<1> QED BY DropAlways, <1>1, <1>2, PTL DEF fetchSpec, MonotonicUnlessAhead, MonotonicStep

\* The assertion "Drop IDs are wrong" of send_dropped_event never fails in the
\* manager's fetch: the dropped events and the event at hand are consecutive.
THEOREM DropIdsAlwaysRight ==
  ASSUME ~FilterFirst
  PROVE  fetchSpec => []DropIdsRight
  BY AlwaysApart, FetchRightWhileApart, PTL

\* What the arbiter is given is what the source pushed: every event that is not
\* filtered appears once, as itself, in a hole or among those to be announced,
\* and everything is in the order of the ids.
THEOREM LogAlwaysRight ==
  ASSUME ~FilterFirst
  PROVE  fetchSpec => []LogRight
  BY AlwaysApart, FetchRightWhileApart, PTL

\* The hole that is pushed before an event has the id of its last event.
THEOREM HoleIdAlwaysRight ==
  ASSUME ~FilterFirst
  PROVE  fetchSpec => []HoleIdRight
  BY AlwaysApart, FetchRightWhileApart, PTL

\* What the source is told is true, whatever ids drop_older_than is called with:
\* a range that is reported as dropped holds dropped events only, and an event
\* that waits is reported as processed only if the arbiter asked for it, or for a
\* later one, before it came.
THEOREM ReportsAlwaysTrue ==
  ASSUME ~FilterFirst
  PROVE  fetchSpec => []ReportsTrue
  BY AlwaysApart, FetchRightWhileApart, PTL

\* A call of drop_older_than beyond the buffer is the only way to make the
\* assertion "The IDs are not monotonic" of set_last_processed_id fail.
THEOREM MonotonicAlwaysUnlessAhead ==
  ASSUME ~FilterFirst
  PROVE  fetchSpec => MonotonicUnlessAhead
  BY AlwaysApart, FetchRightWhileApart, PTL

\* Without such a call the assertion never fails, however the arbiter mixes drop,
\* drop_older_than and pop.
THEOREM MonotonicWhileBehind ==
  ASSUME ~FilterFirst
  PROVE  fetchSpec /\ [](asked = 0) => ProcessedMonotonic
<1>1. /\ BaseInv /\ BaseInv' /\ asked = 0 /\ [MonotonicStep]_fetchVars
      => [last_processed_id' >= last_processed_id]_fetchVars
  BY Numbers DEF BaseInv, fetchTypeOK, MonotonicStep
<1>2. FilteredApart /\ BaseInv /\ DropInv /\ [fetchNext]_fetchVars => BaseInv' /\ [MonotonicStep]_fetchVars
  BY BaseStep, DropStep
<1> QED BY AlwaysApart, DropAlways, <1>1, <1>2, PTL DEF fetchSpec, ProcessedMonotonic

=============================================================================
