---------------------------- MODULE ShamonProofs ----------------------------
(***************************************************************************)
(* Shamon, proved: how the arbiter buffers are served (RoundRobin), for    *)
(* up to ten streams and any capacity, how streams come and go             *)
(* (SubStreams), for any number of threads and sub-buffers, and the table  *)
(* of events that a source announces (SourceControl), for strings of any   *)
(* length, any kinds and any size of the cache.                            *)
(***************************************************************************)
EXTENDS RoundRobin, SubStreams, SourceControl, SequenceTheorems,
        FiniteSetTheorems, TLAPS

-----------------------------------------------------------------------------
(* RoundRobin: the inductive invariant.                                    *)

\* The number that x stands for.
Num(x) == IF x >= Numbers THEN x - Numbers ELSE x

\* The number of the next element of s that a call will return.
Pending(s) ==
  IF call = "returned" /\ ret.s = s THEN Num(got[s] + took) ELSE got[s]

\* The elements b are numbered from f on without a gap, and p comes after them.
Numbered(f, b, p) ==
  /\ \A i \in 1..Len(b) : b[i] = Num(f + i - 1)
  /\ p = Num(f + Len(b))

\* Every buffer holds what comes next, up to what its manager will write.
Consecutive == \A s \in AllStreams : Numbered(Pending(s), buffer[s], pushed[s])

\* t was served and the loop is on its way from there to s.
Between(t, s) == IF t < s THEN t < turn /\ turn <= s ELSE t < turn \/ turn <= s

\* A stream that was passed over has something, and the loop will come to it
\* before it comes again to the one that was served.
Waits ==
  \A s, t \in AllStreams :
    /\ passed[s][t] \in {0, 1}
    /\ passed[s][t] = 1 => s # t /\ buffer[s] # << >> /\ Between(t, s)

\* The invariant of the loop.
rrInv == rrTypeOK /\ Consecutive /\ Waits /\ NothingSkipped

-----------------------------------------------------------------------------
(* Numbers modulo Numbers.                                                 *)

\* What the operator % does to the numbers that occur.
LEMMA ModIsNum ==
  ASSUME NEW x \in 0..(2 * Numbers - 1)
  PROVE  x % Numbers = Num(x) /\ Num(x) \in 0..(Numbers - 1)
  <1>1. CASE x < Numbers
    BY <1>1, RoundRobinAssumption DEF Num
  <1>2. CASE x >= Numbers
    <2>1. x \in Numbers..(2 * Numbers - 1)
      BY <1>2, RoundRobinAssumption
    <2>2. \A y \in Numbers..(2 * Numbers - 1) : y % Numbers = y - Numbers
      BY RoundRobinAssumption
    <2>. QED BY <2>1, <2>2, RoundRobinAssumption DEF Num
  <1>. QED BY <1>1, <1>2, RoundRobinAssumption

\* A manager writes the next number.
LEMMA NumberedPush ==
  ASSUME NEW f \in 0..(Numbers - 1), NEW b \in Seq(0..(Numbers - 1)),
         NEW p \in 0..(Numbers - 1), Len(b) < BufCap, Numbered(f, b, p)
  PROVE  /\ (p + 1) % Numbers \in 0..(Numbers - 1)
         /\ Numbered(f, Append(b, p), (p + 1) % Numbers)
  <1>. DEFINE c == Append(b, p)
  <1>1. /\ Len(b) \in Nat /\ Len(c) = Len(b) + 1
        /\ \A i \in 1..Len(b) : c[i] = b[i]
        /\ c[Len(b) + 1] = p
    BY AppendProperties, LenProperties
  <1>. HIDE DEF c
  <1>2. (p + 1) % Numbers = Num(p + 1) /\ Num(p + 1) \in 0..(Numbers - 1)
    BY ModIsNum, RoundRobinAssumption, SMTT(30)
  <1>3. p = Num(f + Len(b))
    BY DEF Numbered
  <1>4. Num(p + 1) = Num(f + Len(c))
    BY <1>1, <1>3, RoundRobinAssumption, SMTT(30) DEF Num
  <1>5. ASSUME NEW i \in 1..Len(c) PROVE c[i] = Num(f + i - 1)
    <2>1. CASE i = Len(b) + 1
      <3>1. f + i - 1 = f + Len(b)
        BY <2>1, <1>1
      <3>. QED BY <2>1, <3>1, <1>1, <1>3
    <2>2. CASE i # Len(b) + 1
      <3>1. i \in 1..Len(b)
        BY <2>2, <1>1
      <3>. QED BY <3>1, <1>1 DEF Numbered
    <2>. QED BY <2>1, <2>2
  <1>. QED BY <1>2, <1>4, <1>5 DEF Numbered, c

\* The first element has the number f, and what is left after k is numbered from
\* there on.
LEMMA NumberedDrop ==
  ASSUME NEW f \in 0..(Numbers - 1), NEW b \in Seq(0..(Numbers - 1)), NEW p,
         NEW k \in 1..Len(b), Len(b) <= BufCap, Numbered(f, b, p)
  PROVE  /\ Head(b) = f
         /\ Numbered(Num(f + k), SubSeq(b, k + 1, Len(b)), p)
  <1>. DEFINE c == SubSeq(b, k + 1, Len(b))
  <1>1. /\ Len(b) \in Nat /\ Len(c) = Len(b) - k
        /\ \A i \in 1..(Len(b) - k) : c[i] = b[k + i]
    <2>1. Len(b) \in Nat
      BY LenProperties
    <2>2. Len(c) = Len(b) - k
      BY <2>1, SubSeqProperties
    <2>3. \A i \in 1..(Len(b) - k) : c[i] = b[k + i]
      BY <2>1, SubSeqProperties
    <2>. QED BY <2>1, <2>2, <2>3
  <1>. HIDE DEF c
  <1>2. Head(b) = f
    <2>1. Head(b) = b[1] /\ 1 \in 1..Len(b)
      BY <1>1
    <2>2. b[1] = Num(f + 1 - 1)
      BY <2>1 DEF Numbered
    <2>. QED BY <2>1, <2>2, RoundRobinAssumption DEF Num
  <1>3. ASSUME NEW i \in 1..Len(c) PROVE c[i] = Num(Num(f + k) + i - 1)
    <2>1. k + i \in 1..Len(b) /\ i \in 1..(Len(b) - k)
      BY <1>1
    <2>2. b[k + i] = Num(f + (k + i) - 1)
      BY <2>1 DEF Numbered
    <2>3. Num(f + (k + i) - 1) = Num(Num(f + k) + i - 1)
      <3>1. /\ f \in Nat /\ k \in Nat /\ i \in Nat /\ i >= 1 /\ Numbers \in Nat
            /\ f < Numbers /\ k + i < Numbers
        BY <2>1, <1>1, RoundRobinAssumption
      <3>. QED BY <3>1 DEF Num
    <2>. QED BY <2>1, <2>2, <2>3, <1>1
  <1>4. p = Num(Num(f + k) + Len(c))
    <2>1. p = Num(f + Len(b))
      BY DEF Numbered
    <2>. DEFINE n == Len(b)
                l == n - k
    <2>2. /\ Len(c) = l /\ n \in Nat /\ l \in Nat /\ k \in Nat /\ n = k + l
          /\ n < Numbers
      BY <1>1, RoundRobinAssumption
    <2>. HIDE DEF n, l
    <2>3. Num(f + n) = Num(Num(f + k) + l)
      BY <2>2, RoundRobinAssumption DEF Num
    <2>. QED BY <2>1, <2>2, <2>3 DEF n
  <1>. QED BY <1>2, <1>3, <1>4 DEF Numbered, c

\* The next element to be returned has a number.
LEMMA PendingType ==
  ASSUME rrTypeOK, NEW s \in AllStreams
  PROVE  Pending(s) \in 0..(Numbers - 1)
  BY RoundRobinAssumption, SMTT(30) DEF Pending, Num, rrTypeOK

-----------------------------------------------------------------------------
(* RoundRobin: every step preserves the invariant.                         *)

\* A manager adds an element to its buffer: it has the next number.
LEMMA ManagerPushStep ==
  ASSUME rrInv, NEW s \in AllStreams, ManagerPush(s)
  PROVE  rrInv'
  <1>. USE DEF rrInv
  <1>. DEFINE b == Append(buffer[s], pushed[s])
              p == (pushed[s] + 1) % Numbers
  <1>1. /\ buffer[s] \in Seq(0..(Numbers - 1)) /\ pushed[s] \in 0..(Numbers - 1)
        /\ s \in Streams /\ Len(buffer[s]) < BufCap
    BY DEF ManagerPush, rrTypeOK
  <1>2. Numbered(Pending(s), buffer[s], pushed[s])
    BY DEF Consecutive
  <1>3. p \in 0..(Numbers - 1) /\ Numbered(Pending(s), b, p)
    BY <1>1, <1>2, PendingType, NumberedPush
  <1>4. b \in Seq(0..(Numbers - 1)) /\ b # << >> /\ Len(b) <= BufCap
    <2>1. /\ b \in Seq(0..(Numbers - 1)) /\ Len(b) = Len(buffer[s]) + 1
          /\ Len(buffer[s]) \in Nat
      BY <1>1, AppendProperties, LenProperties
    <2>. HIDE DEF b
    <2>2. Len(b) # 0 /\ Len(b) <= BufCap
      BY <1>1, <2>1, RoundRobinAssumption
    <2>3. b # << >>
      BY <2>2, EmptySeq
    <2>. QED BY <2>1, <2>2, <2>3
  <1>5. /\ buffer' = [buffer EXCEPT ![s] = b] /\ pushed' = [pushed EXCEPT ![s] = p]
        /\ UNCHANGED <<size, active, turn, call, ret, took, got, passed>>
    BY DEF ManagerPush, rrHistory
  <1>. HIDE DEF b, p
  <1>6. rrTypeOK'
    BY <1>1, <1>3, <1>4, <1>5 DEF rrTypeOK, Streams, AllStreams
  <1>7. Consecutive'
    <2>. SUFFICES ASSUME NEW u \in AllStreams
                  PROVE  Numbered(Pending(u), buffer'[u], pushed'[u])
      BY <1>5 DEF Consecutive, Pending
    <2>1. CASE u = s
      BY <2>1, <1>3, <1>5 DEF rrTypeOK
    <2>2. CASE u # s
      BY <2>2, <1>5 DEF rrTypeOK, Consecutive
    <2>. QED BY <2>1, <2>2
  <1>8. Waits'
    <2>1. \A u \in AllStreams : buffer[u] # << >> => buffer'[u] # << >>
      BY <1>4, <1>5 DEF rrTypeOK
    <2>. QED BY <2>1, <1>5 DEF Waits, Between
  <1>9. NothingSkipped'
    BY <1>5 DEF NothingSkipped
  <1>. QED BY <1>6, <1>7, <1>8, <1>9

\* The first k elements of the buffer whose turn it is are taken.
LEMMA TakeFirstStep ==
  ASSUME rrInv, call = "loop", turn < size,
         NEW k \in 1..Len(buffer[turn]), TakeFirst(k)
  PROVE  rrInv'
  <1>. USE DEF rrInv
  <1>. DEFINE b == buffer[turn]
              c == SubSeq(b, k + 1, Len(b))
  <1>1. /\ turn \in AllStreams /\ turn \in Streams /\ turn \in Nat /\ size \in Nat
        /\ b \in Seq(0..(Numbers - 1)) /\ Len(b) \in Nat /\ Len(b) <= BufCap
        /\ pushed[turn] \in 0..(Numbers - 1)
    <2>1. turn \in Nat /\ size \in Nat /\ turn \in AllStreams /\ turn \in Streams
      BY RoundRobinAssumption DEF rrTypeOK, AllStreams, Streams
    <2>2. /\ b \in Seq(0..(Numbers - 1)) /\ Len(b) <= BufCap
          /\ pushed[turn] \in 0..(Numbers - 1)
      BY <2>1 DEF rrTypeOK
    <2>. QED BY <2>1, <2>2, LenProperties
  <1>2. Pending(turn) = got[turn] /\ got[turn] \in 0..(Numbers - 1)
    BY <1>1 DEF Pending, rrTypeOK
  <1>3. /\ Head(b) = got[turn]
        /\ Numbered(Num(got[turn] + k), c, pushed[turn])
    <2>1. Numbered(got[turn], b, pushed[turn])
      BY <1>1, <1>2 DEF Consecutive
    <2>. QED BY <2>1, <1>1, <1>2, NumberedDrop
  <1>4. c \in Seq(0..(Numbers - 1)) /\ Len(c) <= BufCap
    <2>1. \A i \in (k + 1)..Len(b) : b[i] \in 0..(Numbers - 1)
      <3>. \A i \in (k + 1)..Len(b) : i \in 1..Len(b)
        BY <1>1
      <3>. QED BY <1>1, ElementOfSeq
    <2>2. c \in Seq(0..(Numbers - 1)) /\ Len(c) = Len(b) - k
      BY <1>1, <2>1, SubSeqProperties
    <2>. QED BY <2>2, <1>1, RoundRobinAssumption
  <1>5. /\ buffer' = [buffer EXCEPT ![turn] = c]
        /\ ret' = [s |-> turn, first |-> Head(b)] /\ took' = k
        /\ passed' = Served(turn)
        /\ turn' = turn + 1 /\ call' = "returned"
        /\ UNCHANGED <<size, pushed, active, got>>
    BY DEF TakeFirst
  <1>6. b # << >> /\ k \in 1..Len(b)
    BY EmptySeq, <1>1
  <1>. HIDE DEF b, c
  <1>7. passed' \in [AllStreams -> [AllStreams -> Nat]]
    <2>. SUFFICES ASSUME NEW s \in AllStreams
                  PROVE  Served(turn)[s] \in [AllStreams -> Nat]
      BY <1>5 DEF Served
    <2>. QED BY <1>1, SMTT(30) DEF rrTypeOK, Served
  <1>8. rrTypeOK'
    <2>1. ret' \in [s : AllStreams, first : 0..(Numbers - 1)] /\ took' \in 0..BufCap
      <3>1. k \in 0..BufCap
        BY <1>1, <1>6, RoundRobinAssumption
      <3>2. turn \in AllStreams /\ Head(b) \in 0..(Numbers - 1)
        BY <1>1, <1>2, <1>3
      <3>. QED BY <1>5, <3>1, <3>2
    <2>2. /\ buffer' \in [AllStreams -> Seq(0..(Numbers - 1))]
          /\ \A s \in AllStreams :
               Len(buffer'[s]) <= (IF s \in Streams THEN BufCap ELSE 0)
      BY <1>1, <1>4, <1>5 DEF rrTypeOK
    <2>3. turn' \in 0..size'
      BY <1>1, <1>5
    <2>. QED BY <1>5, <1>7, <2>1, <2>2, <2>3 DEF rrTypeOK, Streams
  <1>9. Consecutive'
    <2>. SUFFICES ASSUME NEW u \in AllStreams
                  PROVE  Numbered(Pending(u)', buffer'[u], pushed[u])
      BY <1>5 DEF Consecutive
    <2>1. CASE u = turn
      <3>1. Pending(u)' = Num(got[turn] + k)
        BY <2>1, <1>5 DEF Pending, Num
      <3>. QED BY <2>1, <3>1, <1>1, <1>3, <1>5 DEF rrTypeOK
    <2>2. CASE u # turn
      <3>1. Pending(u)' = Pending(u) /\ buffer'[u] = buffer[u]
        BY <2>2, <1>5 DEF Pending, rrTypeOK
      <3>. QED BY <3>1 DEF Consecutive
    <2>. QED BY <2>1, <2>2
  <1>10. Waits'
    <2>. SUFFICES ASSUME NEW s \in AllStreams, NEW t \in AllStreams
                  PROVE  /\ passed'[s][t] \in {0, 1}
                         /\ passed'[s][t] = 1 =>
                              s # t /\ buffer'[s] # << >> /\ Between(t, s)'
      BY DEF Waits
    <2>1. CASE s = turn \/ buffer[s] = << >>
      BY <2>1, <1>5 DEF Served
    <2>2. CASE s # turn /\ buffer[s] # << >>
      <3>1. buffer'[s] # << >> /\ passed'[s] = [passed[s] EXCEPT ![turn] = @ + 1]
        BY <2>2, <1>5 DEF Served, rrTypeOK
      <3>2. s \in Nat /\ t \in Nat
        BY DEF AllStreams
      <3>3. CASE t = turn
        <4>1. passed[s][t] = 0
          BY <3>2, <3>3, <1>1 DEF Waits, Between
        <4>. QED BY <2>2, <3>1, <3>2, <3>3, <4>1, <1>1, <1>5 DEF Between, rrTypeOK
      <3>4. CASE t # turn
        <4>1. passed'[s][t] = passed[s][t]
          BY <3>1, <3>4, <1>1 DEF rrTypeOK
        <4>2. passed[s][t] = 1 => s # t /\ Between(t, s)'
          BY <2>2, <3>2, <3>4, <1>1, <1>5, SMTT(30) DEF Between, Waits
        <4>. QED BY <3>1, <4>1, <4>2 DEF Waits
      <3>. QED BY <3>3, <3>4
    <2>. QED BY <2>1, <2>2
  <1>11. NothingSkipped'
    BY <1>3, <1>5 DEF NothingSkipped
  <1>. QED BY <1>8, <1>9, <1>10, <1>11

\* No stream goes away when the vector grows.
LEMMA MoreStreams ==
  ASSUME size \in Nat, size' \in {size, size + 1}, NEW s \in Streams
  PROVE  s \in Streams'
  <1>1. CASE size' = size
    BY <1>1 DEF Streams
  <1>2. CASE size' = size + 1
    <2>1. s \in 0..(size - 1)
      BY DEF Streams
    <2>2. s \in 0..((size + 1) - 1)
      BY <2>1
    <2>. QED BY <1>2, <2>2 DEF Streams
  <1>. QED BY <1>1, <1>2

\* The loop, the client and shamon_add_stream move the turn and the flags only.
LEMMA TurnStep ==
  ASSUME rrInv,
         \/ \E s \in AllStreams, val \in BOOLEAN : set_active(s, val)
         \/ add_stream \/ process_events \/ peek_empty \/ return_null
  PROVE  rrInv'
  <1>. USE RoundRobinAssumption DEF rrInv, rrHistory
  <1>1. UNCHANGED <<buffer, pushed, ret, took, got, passed>>
    BY DEF set_active, add_stream, process_events, peek_empty, return_null
  <1>2. /\ call # "returned" <=> call' # "returned"
        /\ call' \in {"none", "loop", "returned"}
    BY DEF set_active, add_stream, process_events, peek_empty, return_null, rrTypeOK
  <1>3. Consecutive' /\ NothingSkipped'
    BY <1>1, <1>2 DEF Consecutive, NothingSkipped, Pending
  <1>4. rrTypeOK'
    <2>1. /\ size \in 1..MaxStreams /\ turn \in 0..size
          /\ active \in [AllStreams -> BOOLEAN]
      BY DEF rrTypeOK
    <2>2. active' \in [AllStreams -> BOOLEAN]
      BY <2>1 DEF set_active, add_stream, process_events, peek_empty, return_null
    <2>3. size' \in 1..MaxStreams /\ size' \in {size, size + 1} /\ turn' \in 0..size'
      BY <2>1 DEF set_active, add_stream, process_events, peek_empty, return_null
    <2>4. ASSUME NEW s \in AllStreams
          PROVE  Len(buffer[s]) <= (IF s \in Streams' THEN BufCap ELSE 0)
      <3>1. Len(buffer[s]) \in Nat
        BY LenProperties DEF rrTypeOK
      <3>2. s \in Streams => s \in Streams'
        BY <2>1, <2>3, MoreStreams
      <3>3. Len(buffer[s]) <= (IF s \in Streams THEN BufCap ELSE 0)
        BY DEF rrTypeOK
      <3>. QED BY <3>1, <3>2, <3>3
    <2>. QED BY <1>1, <1>2, <2>2, <2>3, <2>4 DEF rrTypeOK
  <1>5. Waits'
    <2>. SUFFICES ASSUME NEW s \in AllStreams, NEW t \in AllStreams,
                         passed[s][t] = 1
                  PROVE  Between(t, s)'
      BY <1>1 DEF Waits
    <2>1. s # t /\ buffer[s] # << >> /\ Between(t, s)
      BY DEF Waits
    <2>2. s < size /\ s \in Nat /\ t \in Nat /\ turn \in Nat /\ size \in Nat
      <3>1. Len(buffer[s]) \in Nat \ {0}
        BY <2>1, EmptySeq DEF rrTypeOK
      <3>. QED BY <3>1 DEF rrTypeOK, Streams, AllStreams
    <2>3. CASE turn' = turn
      BY <2>1, <2>3 DEF Between
    <2>4. CASE process_events
      BY <2>1, <2>2, <2>4 DEF process_events, Between
    <2>5. CASE peek_empty
      BY <2>1, <2>2, <2>5 DEF peek_empty, Between
    <2>. QED BY <2>3, <2>4, <2>5 DEF set_active, add_stream, return_null
  <1>. QED BY <1>3, <1>4, <1>5

\* The monitor has handled the event.
LEMMA HandleStep ==
  ASSUME rrInv, handle_event
  PROVE  rrInv'
  <1>. USE RoundRobinAssumption DEF rrInv
  <1>. DEFINE g == (got[ret.s] + took) % Numbers
  <1>1. /\ call = "returned" /\ call' = "none" /\ got' = [got EXCEPT ![ret.s] = g]
        /\ UNCHANGED <<size, buffer, pushed, active, turn, ret, took, passed>>
    BY DEF handle_event
  <1>2. /\ ret.s \in AllStreams
        /\ g = Num(got[ret.s] + took) /\ g \in 0..(Numbers - 1)
    <2>1. ret.s \in AllStreams /\ took \in 0..BufCap
      BY DEF rrTypeOK
    <2>2. got[ret.s] + took \in 0..(2 * Numbers - 1)
      BY <2>1 DEF rrTypeOK
    <2>. QED BY <2>1, <2>2, ModIsNum
  <1>. HIDE DEF g
  <1>3. rrTypeOK'
    BY <1>1, <1>2 DEF rrTypeOK, Streams
  <1>4. ASSUME NEW s \in AllStreams PROVE Pending(s)' = Pending(s)
    BY <1>1, <1>2 DEF Pending, rrTypeOK
  <1>5. Consecutive' /\ Waits' /\ NothingSkipped'
    BY <1>1, <1>4 DEF Consecutive, Waits, Between, NothingSkipped
  <1>. QED BY <1>3, <1>5

\* The invariant of the loop holds initially.
LEMMA rrInitInv == rrInit => rrInv
  <1>. SUFFICES ASSUME rrInit PROVE rrInv
    OBVIOUS
  <1>. USE RoundRobinAssumption DEF rrInit
  <1>1. rrTypeOK
    <2>1. buffer \in [AllStreams -> Seq(0..(Numbers - 1))]
      BY EmptySeq
    <2>2. ret \in [s : AllStreams, first : 0..(Numbers - 1)] /\ took \in 0..BufCap
      BY DEF AllStreams
    <2>3. \A s \in AllStreams : Len(buffer[s]) = 0
      OBVIOUS
    <2>4. passed \in [AllStreams -> [AllStreams -> Nat]]
      OBVIOUS
    <2>5. /\ size \in 1..MaxStreams /\ turn \in 0..size
          /\ pushed \in [AllStreams -> 0..(Numbers - 1)]
          /\ got \in [AllStreams -> 0..(Numbers - 1)]
          /\ active \in [AllStreams -> BOOLEAN] /\ call = "none"
      OBVIOUS
    <2>. HIDE DEF rrInit
    <2>. QED BY <2>1, <2>2, <2>3, <2>4, <2>5, SMTT(30) DEF rrTypeOK
  <1>2. Consecutive
    BY DEF Consecutive, Numbered, Pending, Num
  <1>3. Waits /\ NothingSkipped
    BY DEF Waits, NothingSkipped
  <1>. QED BY <1>1, <1>2, <1>3 DEF rrInv

\* Every step of the loop and of the managers keeps it.
LEMMA rrNextInv == rrInv /\ [rrNext]_rrVars => rrInv'
  <1>. SUFFICES ASSUME rrInv, [rrNext]_rrVars PROVE rrInv'
    OBVIOUS
  <1>1. ASSUME NEW s \in AllStreams, ManagerPush(s) PROVE rrInv'
    BY <1>1, ManagerPushStep
  <1>2. ASSUME NEW q \in 1..BufCap, drop_half(q) PROVE rrInv'
    <2>1. call = "loop" /\ turn < size /\ TakeFirst(BufCap \div 2)
      BY <1>2 DEF drop_half
    <2>2. BufCap \div 2 \in 1..q
      BY <1>2, RoundRobinAssumption DEF drop_half, NearlyFull
    <2>3. Len(buffer[turn]) \in Nat /\ q <= Len(buffer[turn])
      <3>1. turn \in AllStreams
        BY <2>1, RoundRobinAssumption DEF rrInv, rrTypeOK, AllStreams
      <3>. QED BY <3>1, <1>2, LenProperties DEF drop_half, rrInv, rrTypeOK
    <2>4. BufCap \div 2 \in 1..Len(buffer[turn])
      BY <2>2, <2>3
    <2>. QED BY <2>1, <2>4, TakeFirstStep
  <1>3. ASSUME NEW q \in 1..BufCap, copy_one(q) PROVE rrInv'
    <2>1. call = "loop" /\ turn < size /\ TakeFirst(1)
      BY <1>3 DEF copy_one
    <2>2. 1 \in 1..Len(buffer[turn])
      <3>1. turn \in AllStreams
        BY <2>1, RoundRobinAssumption DEF rrInv, rrTypeOK, AllStreams
      <3>2. Len(buffer[turn]) \in Nat
        BY <3>1, LenProperties DEF rrInv, rrTypeOK
      <3>. QED BY <3>2, <1>3 DEF copy_one
    <2>. QED BY <2>1, <2>2, TakeFirstStep
  <1>4. CASE UNCHANGED rrVars
    BY <1>4 DEF rrVars, rrHistory, rrInv, rrTypeOK, Streams, Consecutive, Pending,
                Waits, Between, NothingSkipped
  <1>. QED BY <1>1, <1>2, <1>3, <1>4, TurnStep, HandleStep DEF rrNext, Loop, spin

\* So it always holds.
LEMMA rrInvAlways == rrSpec => []rrInv
  BY rrInitInv, rrNextInv, PTL DEF rrSpec

-----------------------------------------------------------------------------
(* RoundRobin: the properties.                                             *)

\* The buffers keep to their capacity and the turn is at most one past the end.
THEOREM RoundRobinTypeCorrect == rrSpec => []rrTypeOK
  <1>1. rrInv => rrTypeOK
    BY DEF rrInv
  <1>. QED BY <1>1, rrInvAlways, PTL

\* default_process_events returns every element of every stream once and in order,
\* alone or in a summary that says where it begins, for up to ten streams and any
\* capacity.
THEOREM AlwaysNothingSkipped == rrSpec => []NothingSkipped
  <1>1. rrInv => NothingSkipped
    BY DEF rrInv
  <1>. QED BY <1>1, rrInvAlways, PTL

\* The static variable i does what its comment promises: no stream is served twice
\* while another one has something and waits, whenever streams are added (up to
\* ten) and whatever the number of the elements.
THEOREM TurnsAlwaysFair == rrSpec => []FairTurns
  <1>1. rrInv => FairTurns
    BY DEF rrInv, Waits, FairTurns
  <1>. QED BY <1>1, rrInvAlways, PTL

-----------------------------------------------------------------------------
(* SubStreams: the inductive invariant.                                    *)

Busy == {t \in Threads : tpc[t] # "idle"}
Counting == {t \in Threads : tpc[t] = "count"}
Created == {k \in 1..MaxSubs : file[k] # "none"}

\* A number is taken before the sub-buffer is created, and the sub-buffer is
\* created before it is counted.
CountInv ==
  /\ subbuffers_no + Cardinality(Busy) <= last_subbufer_no
  /\ Cardinality(Created) <= subbuffers_no + Cardinality(Counting)

\* What has become of every number that was taken.
NumberInv ==
  /\ \A t \in Busy : tno[t] \in 1..last_subbufer_no
  /\ \A t \in Counting : file[tno[t]] # "none" \/ tno[t] \in failed
  /\ \A k \in 1..last_subbufer_no :
       file[k] # "none" \/ k \in failed \/ \E t \in Busy : tno[t] = k

\* The main buffer is there from the beginning, its creation of sub-buffers has
\* ended when it is destroyed; only the monitor unlinks sub-buffers.
FileInv ==
  /\ file[0] # "none"
  /\ destroyed[0] => file[0] = "gone" /\ Busy = {}
  /\ \A k \in 1..MaxSubs : file[k] = "gone" => pc \in {"release", "ended"}

Scanning == pc \in {"destroyed", "shm", "new", "arb"}
Opening == pc \in {"open", "aborted"}

\* The monitor has connected to all substreams, but for the one it is opening,
\* and an element is in the SHM buffer until its manager has consumed it.
StreamInv ==
  /\ substreams_no <= subbuffers_no
  /\ \A k \in 0..substreams_no :
       (mpc[k] # "none" /\ file[k] # "none") \/ (Opening /\ k = substreams_no)
  /\ Opening => at = substreams_no /\ at > 0
  /\ pc = "open" => tries > 0
  /\ Scanning \/ pc = "join" => at <= substreams_no
  /\ \A k \in AllSubs : mpc[k] = "consume" => shm[k] > 0

\* Nothing but holes will come from stream k.
Quiet(k) ==
  /\ destroyed[k] /\ shm[k] = 0
  /\ \A i \in 1..Len(arb[k]) : arb[k][i] = "hole"

\* There will be no more sub-buffers than the monitor knows of.
NoneNew == destroyed[0] /\ subbuffers_no <= substreams_no

\* What shamon_is_ready has seen so far is still so.
ScanInv ==
  /\ Scanning => \A k \in 0..(at - 1) : Quiet(k)
  /\ pc \in {"shm", "new", "arb"} => destroyed[at]
  /\ pc \in {"new", "arb"} => shm[at] = 0
  /\ (Scanning /\ at > 0) \/ pc = "arb" => NoneNew
  /\ Stopped => NoneNew /\ \A k \in 0..substreams_no : Quiet(k)

\* shamon_destroy unlinks the files one by one.
ReleaseInv ==
  /\ pc = "release" => at > 0 /\ \A k \in 1..(at - 1) : file[k] = "gone"
  /\ pc = "ended" => \A k \in 1..substreams_no : file[k] = "gone"

ssInv ==
  /\ ssTypeOK /\ CountInv /\ NumberInv /\ FileInv
  /\ StreamInv /\ ScanInv /\ ReleaseInv /\ MissingExplained

-----------------------------------------------------------------------------
(* SubStreams: the source creates sub-buffers.                             *)

\* The sets that are counted are finite.
LEMMA CountedFinite ==
  /\ \A S \in SUBSET Threads : IsFiniteSet(S) /\ Cardinality(S) \in Nat
  /\ \A S \in SUBSET (1..MaxSubs) : IsFiniteSet(S) /\ Cardinality(S) \in Nat
  <1>1. IsFiniteSet(1..MaxSubs)
    BY FS_Interval, SubStreamsAssumption
  <1>. QED BY <1>1, FS_Subset, FS_CardinalityType, SubStreamsAssumption

\* What a thread counts when it goes from one location to another.
LEMMA CountStep ==
  ASSUME NEW S \in SUBSET Threads, NEW t \in Threads
  PROVE  /\ Cardinality(S) \in Nat /\ Cardinality(S \ {t}) \in Nat
         /\ Cardinality(S \cup {t}) \in Nat
         /\ t \in S => Cardinality(S \ {t}) = Cardinality(S) - 1
         /\ t \notin S => Cardinality(S \cup {t}) = Cardinality(S) + 1
  BY CountedFinite, FS_AddElement, FS_RemoveElement

\* One more file is at most one more created sub-buffer.
LEMMA CreatedStep ==
  ASSUME NEW S \in SUBSET (1..MaxSubs), NEW k \in 1..MaxSubs
  PROVE  /\ Cardinality(S) \in Nat /\ Cardinality(S \cup {k}) \in Nat
         /\ Cardinality(S \cup {k}) <= Cardinality(S) + 1
  <1>1. CASE k \in S
    <2>1. S \cup {k} = S
      BY <1>1
    <2>. QED BY <2>1, CountedFinite
  <1>2. CASE k \notin S
    BY <1>2, CountedFinite, FS_AddElement
  <1>. QED BY <1>1, <1>2

\* As long as the main buffer is not destroyed, shamon_is_ready cannot have got
\* past it, so that what it has seen is not disturbed by a creation.
LEMMA CreationKeeps ==
  ASSUME ssInv, ~destroyed[0], UNCHANGED <<ssShm, ssManager, ssMonitor>>,
         subbuffers_no' \in {subbuffers_no, subbuffers_no + 1},
         failed \subseteq failed',
         \A k \in AllSubs : file'[k] = file[k] \/ file'[k] = "there"
  PROVE  /\ FileInv' /\ StreamInv' /\ ScanInv' /\ ReleaseInv' /\ MissingExplained'
  <1>. USE SubStreamsAssumption DEF ssInv, ssShm, ssManager, ssMonitor, AllSubs
  <1>1. /\ ~NoneNew /\ pc # "arb" /\ ~Stopped /\ (Scanning => ~(at > 0))
    BY DEF ScanInv, NoneNew
  <1>2. FileInv'
    BY DEF FileInv
  <1>3. StreamInv'
    <2>1. \A k \in 0..substreams_no : k \in AllSubs
      BY DEF ssTypeOK
    <2>2. substreams_no <= subbuffers_no'
      BY DEF ssTypeOK, StreamInv
    <2>3. \A k \in AllSubs : file[k] # "none" => file'[k] # "none"
      OBVIOUS
    <2>. QED BY <2>1, <2>2, <2>3 DEF StreamInv, Opening, Scanning
  <1>4. ScanInv'
    <2>1. at \in Nat
      BY DEF ssTypeOK
    <2>2. Scanning => \A k \in 0..(at - 1) : Quiet(k)'
      BY <1>1, <2>1
    <2>. QED BY <1>1, <2>2 DEF ScanInv, Stopped, Scanning
  <1>5. ReleaseInv'
    BY <1>1 DEF ReleaseInv, Stopped
  <1>6. MissingExplained'
    BY DEF MissingExplained
  <1>. QED BY <1>2, <1>3, <1>4, <1>5, <1>6

\* A busy thread is working for a main buffer that is not destroyed.
LEMMA BusyMain ==
  ASSUME ssInv, NEW t \in Threads, tpc[t] # "idle"
  PROVE  ~destroyed[0] /\ t \in Busy /\ tno[t] \in 1..last_subbufer_no
  BY DEF ssInv, FileInv, NumberInv, Busy

\* Its number is one of those that the model has.
LEMMA BusyNumber ==
  ASSUME ssInv, NEW t \in Threads, tpc[t] # "idle"
  PROVE  tno[t] \in 1..MaxSubs
  <1>1. tno[t] \in 1..last_subbufer_no /\ last_subbufer_no \in 0..MaxSubs
    BY BusyMain DEF ssInv, ssTypeOK
  <1>. QED BY <1>1, SubStreamsAssumption

\* vms_shm_buffer_create_sub_buffer takes a number.
LEMMA TakeNumberStep ==
  ASSUME ssInv, NEW t \in Threads, take_number(t), UNCHANGED <<ssManager, ssMonitor>>
  PROVE  ssInv'
  <1>. USE SubStreamsAssumption DEF ssInv, AllSubs
  <1>1. /\ tpc[t] = "idle" /\ ~destroyed[0]
        /\ tpc' = [tpc EXCEPT ![t] = "create"]
        /\ UNCHANGED <<subbuffers_no, failed, file, ssShm, ssManager, ssMonitor>>
    BY DEF take_number
  <1>2. /\ last_subbufer_no' = last_subbufer_no + 1 /\ last_subbufer_no < MaxSubs
        /\ tno' = [tno EXCEPT ![t] = last_subbufer_no + 1]
    BY DEF take_number
  <1>3. /\ tpc \in [Threads -> {"idle", "create", "count"}]
        /\ tno \in [Threads -> AllSubs] /\ failed \subseteq AllSubs
        /\ file \in [AllSubs -> {"none", "there", "gone"}]
        /\ last_subbufer_no \in 0..MaxSubs /\ subbuffers_no \in 0..last_subbufer_no
    BY DEF ssTypeOK
  <1>4. FileInv' /\ StreamInv' /\ ScanInv' /\ ReleaseInv' /\ MissingExplained'
    <2>1. /\ subbuffers_no' \in {subbuffers_no, subbuffers_no + 1}
          /\ failed \subseteq failed'
          /\ \A k \in AllSubs : file'[k] = file[k] \/ file'[k] = "there"
      BY <1>1, <1>2, <1>3
    <2>. QED BY <1>1, <2>1, CreationKeeps
  <1>5. CountInv'
    <2>1. Busy' = Busy \cup {t} /\ Counting' = Counting
      BY <1>1, <1>3 DEF Busy, Counting
    <2>2. Created' = Created
      BY <1>1, <1>2, <1>3 DEF Created
    <2>3. Busy \in SUBSET Threads /\ Counting \in SUBSET Threads
          /\ Created \in SUBSET (1..MaxSubs) /\ t \notin Busy
      BY <1>1 DEF Busy, Counting, Created
    <2>4. /\ subbuffers_no + Cardinality(Busy) <= last_subbufer_no
          /\ Cardinality(Created) <= subbuffers_no + Cardinality(Counting)
      BY DEF CountInv
    <2>5. /\ Cardinality(Busy) \in Nat /\ Cardinality(Counting) \in Nat
          /\ Cardinality(Created) \in Nat
      BY <2>3, CountedFinite
    <2>6. /\ Cardinality(Busy') = Cardinality(Busy) + 1
          /\ Cardinality(Counting') = Cardinality(Counting)
          /\ Cardinality(Created') = Cardinality(Created)
      BY <2>1, <2>2, <2>3, CountStep
    <2>7. /\ subbuffers_no' + Cardinality(Busy') <= last_subbufer_no'
          /\ Cardinality(Created') <= subbuffers_no' + Cardinality(Counting')
      BY <1>1, <1>2, <1>3, <2>4, <2>5, <2>6, SMTT(30)
    <2>. QED BY <2>7 DEF CountInv
  <1>6. NumberInv'
    <2>1. \A u \in Busy' : tno'[u] \in 1..last_subbufer_no'
      BY <1>1, <1>2, <1>3 DEF NumberInv, Busy
    <2>2. \A u \in Counting' : file'[tno'[u]] # "none" \/ tno'[u] \in failed'
      BY <1>1, <1>2, <1>3 DEF NumberInv, Counting, Busy
    <2>3. \A k \in 1..last_subbufer_no' :
            file'[k] # "none" \/ k \in failed' \/ \E u \in Busy' : tno'[u] = k
      BY <1>1, <1>2, <1>3 DEF NumberInv, Busy, Counting
    <2>. QED BY <2>1, <2>2, <2>3 DEF NumberInv
  <1>7. ssTypeOK'
    <2>1. subbuffers_no' \in 0..last_subbufer_no' /\ last_subbufer_no' \in 0..MaxSubs
      <3>1. Cardinality(Busy') \in Nat
        BY CountedFinite DEF Busy
      <3>. QED BY <1>1, <1>2, <1>3, <1>5, <3>1 DEF CountInv
    <2>. QED BY <1>1, <1>2, <1>3, <2>1 DEF ssTypeOK, ssShm, ssManager, ssMonitor
  <1>. QED BY <1>4, <1>5, <1>6, <1>7

\* The control buffer cannot be created.
LEMMA ControlFailedStep ==
  ASSUME ssInv, NEW t \in Threads, create_control_failed(t), UNCHANGED <<ssManager, ssMonitor>>
  PROVE  ssInv'
  <1>. USE SubStreamsAssumption DEF ssInv, AllSubs
  <1>1. /\ tpc[t] = "create" /\ ~destroyed[0]
        /\ tpc' = [tpc EXCEPT ![t] = "idle"]
        /\ UNCHANGED <<last_subbufer_no, subbuffers_no, tno, file, ssShm, ssManager, ssMonitor>>
    BY BusyMain DEF create_control_failed
  <1>2. failed' = failed \cup {tno[t]}
    BY DEF create_control_failed
  <1>3. /\ tpc \in [Threads -> {"idle", "create", "count"}]
        /\ tno \in [Threads -> AllSubs] /\ failed \subseteq AllSubs
        /\ file \in [AllSubs -> {"none", "there", "gone"}]
        /\ last_subbufer_no \in 0..MaxSubs /\ subbuffers_no \in 0..last_subbufer_no
    BY DEF ssTypeOK
  <1>4. FileInv' /\ StreamInv' /\ ScanInv' /\ ReleaseInv' /\ MissingExplained'
    <2>1. /\ subbuffers_no' \in {subbuffers_no, subbuffers_no + 1}
          /\ failed \subseteq failed'
          /\ \A k \in AllSubs : file'[k] = file[k] \/ file'[k] = "there"
      BY <1>1, <1>2, <1>3
    <2>. QED BY <1>1, <2>1, CreationKeeps
  <1>5. CountInv'
    <2>1. Busy' = Busy \ {t} /\ Counting' = Counting
      BY <1>1, <1>3 DEF Busy, Counting
    <2>2. Created' = Created
      BY <1>1, <1>2, <1>3 DEF Created
    <2>3. Busy \in SUBSET Threads /\ Counting \in SUBSET Threads
          /\ Created \in SUBSET (1..MaxSubs) /\ t \in Busy
      BY <1>1 DEF Busy, Counting, Created
    <2>4. /\ subbuffers_no + Cardinality(Busy) <= last_subbufer_no
          /\ Cardinality(Created) <= subbuffers_no + Cardinality(Counting)
      BY DEF CountInv
    <2>5. /\ Cardinality(Busy) \in Nat /\ Cardinality(Counting) \in Nat
          /\ Cardinality(Created) \in Nat
      BY <2>3, CountedFinite
    <2>6. /\ Cardinality(Busy') = Cardinality(Busy) - 1
          /\ Cardinality(Counting') = Cardinality(Counting)
          /\ Cardinality(Created') = Cardinality(Created)
      BY <2>1, <2>2, <2>3, CountStep
    <2>7. /\ subbuffers_no' + Cardinality(Busy') <= last_subbufer_no'
          /\ Cardinality(Created') <= subbuffers_no' + Cardinality(Counting')
      BY <1>1, <1>2, <1>3, <2>4, <2>5, <2>6
    <2>. QED BY <2>7 DEF CountInv
  <1>6. NumberInv'
    <2>1. \A u \in Busy' : tno'[u] \in 1..last_subbufer_no'
      BY <1>1, <1>2, <1>3 DEF NumberInv, Busy
    <2>2. \A u \in Counting' : file'[tno'[u]] # "none" \/ tno'[u] \in failed'
      BY <1>1, <1>2, <1>3 DEF NumberInv, Counting, Busy
    <2>3. \A k \in 1..last_subbufer_no' :
            file'[k] # "none" \/ k \in failed' \/ \E u \in Busy' : tno'[u] = k
      BY <1>1, <1>2, <1>3 DEF NumberInv, Busy, Counting
    <2>. QED BY <2>1, <2>2, <2>3 DEF NumberInv
  <1>7. ssTypeOK'
    <2>1. subbuffers_no' \in 0..last_subbufer_no' /\ last_subbufer_no' \in 0..MaxSubs
      <3>1. Cardinality(Busy') \in Nat
        BY CountedFinite DEF Busy
      <3>. QED BY <1>1, <1>2, <1>3, <1>5, <3>1 DEF CountInv
    <2>. QED BY <1>1, <1>2, <1>3, <2>1 DEF ssTypeOK, ssShm, ssManager, ssMonitor
  <1>. QED BY <1>4, <1>5, <1>6, <1>7

\* The sub-buffer is there.
LEMMA InitializeStep ==
  ASSUME ssInv, NEW t \in Threads, initialize(t), UNCHANGED <<ssManager, ssMonitor>>
  PROVE  ssInv'
  <1>. USE SubStreamsAssumption DEF ssInv, AllSubs
  <1>1. /\ tpc[t] = "create" /\ tno[t] \in 1..MaxSubs /\ ~destroyed[0]
        /\ tpc' = [tpc EXCEPT ![t] = "count"]
        /\ UNCHANGED <<last_subbufer_no, subbuffers_no, tno, failed, ssShm, ssManager, ssMonitor>>
    BY BusyMain, BusyNumber DEF initialize
  <1>2. file' = [file EXCEPT ![tno[t]] = "there"]
    BY DEF initialize
  <1>3. /\ tpc \in [Threads -> {"idle", "create", "count"}]
        /\ tno \in [Threads -> AllSubs] /\ failed \subseteq AllSubs
        /\ file \in [AllSubs -> {"none", "there", "gone"}]
        /\ last_subbufer_no \in 0..MaxSubs /\ subbuffers_no \in 0..last_subbufer_no
    BY DEF ssTypeOK
  <1>4. FileInv' /\ StreamInv' /\ ScanInv' /\ ReleaseInv' /\ MissingExplained'
    <2>1. /\ subbuffers_no' \in {subbuffers_no, subbuffers_no + 1}
          /\ failed \subseteq failed'
          /\ \A k \in AllSubs : file'[k] = file[k] \/ file'[k] = "there"
      BY <1>1, <1>2, <1>3
    <2>. QED BY <1>1, <2>1, CreationKeeps
  <1>5. CountInv'
    <2>1. Busy' = Busy /\ Counting' = Counting \cup {t}
      BY <1>1, <1>3 DEF Busy, Counting
    <2>2. Created' = Created \cup {tno[t]}
      BY <1>1, <1>2, <1>3 DEF Created
    <2>3. Busy \in SUBSET Threads /\ Counting \in SUBSET Threads
          /\ Created \in SUBSET (1..MaxSubs) /\ t \notin Counting
      BY <1>1 DEF Busy, Counting, Created
    <2>4. /\ subbuffers_no + Cardinality(Busy) <= last_subbufer_no
          /\ Cardinality(Created) <= subbuffers_no + Cardinality(Counting)
      BY DEF CountInv
    <2>5. /\ Cardinality(Busy) \in Nat /\ Cardinality(Counting) \in Nat
          /\ Cardinality(Created) \in Nat
      BY <2>3, CountedFinite
    <2>6. /\ Cardinality(Busy') = Cardinality(Busy)
          /\ Cardinality(Counting') = Cardinality(Counting) + 1
          /\ Cardinality(Created') <= Cardinality(Created) + 1 /\ Cardinality(Created') \in Nat
      <3>1. /\ Cardinality(Busy') = Cardinality(Busy)
            /\ Cardinality(Counting') = Cardinality(Counting) + 1
        BY <2>1, <2>3, CountStep
      <3>2. tno[t] \in 1..MaxSubs
        BY <1>1
      <3>3. /\ Cardinality(Created \cup {tno[t]}) \in Nat
            /\ Cardinality(Created \cup {tno[t]}) <= Cardinality(Created) + 1
        BY <2>3, <3>2, CreatedStep
      <3>. QED BY <2>2, <3>1, <3>3
    <2>7. /\ subbuffers_no' + Cardinality(Busy') <= last_subbufer_no'
          /\ Cardinality(Created') <= subbuffers_no' + Cardinality(Counting')
      BY <1>1, <1>2, <1>3, <2>4, <2>5, <2>6, SMTT(30)
    <2>. QED BY <2>7 DEF CountInv
  <1>6. NumberInv'
    <2>1. \A u \in Busy' : tno'[u] \in 1..last_subbufer_no'
      BY <1>1, <1>2, <1>3 DEF NumberInv, Busy
    <2>2. \A u \in Counting' : file'[tno'[u]] # "none" \/ tno'[u] \in failed'
      BY <1>1, <1>2, <1>3 DEF NumberInv, Counting, Busy
    <2>3. \A k \in 1..last_subbufer_no' :
            file'[k] # "none" \/ k \in failed' \/ \E u \in Busy' : tno'[u] = k
      BY <1>1, <1>2, <1>3 DEF NumberInv, Busy, Counting
    <2>. QED BY <2>1, <2>2, <2>3 DEF NumberInv
  <1>7. ssTypeOK'
    <2>1. subbuffers_no' \in 0..last_subbufer_no' /\ last_subbufer_no' \in 0..MaxSubs
      <3>1. Cardinality(Busy') \in Nat
        BY CountedFinite DEF Busy
      <3>. QED BY <1>1, <1>2, <1>3, <1>5, <3>1 DEF CountInv
    <2>. QED BY <1>1, <1>2, <1>3, <2>1 DEF ssTypeOK, ssShm, ssManager, ssMonitor
  <1>. QED BY <1>4, <1>5, <1>6, <1>7

\* The sub-buffer cannot be created.
LEMMA InitializeFailedStep ==
  ASSUME ssInv, NEW t \in Threads, initialize_failed(t), UNCHANGED <<ssManager, ssMonitor>>
  PROVE  ssInv'
  <1>. USE SubStreamsAssumption DEF ssInv, AllSubs
  <1>1. /\ tpc[t] = "create" /\ ~destroyed[0]
        /\ tpc' = [tpc EXCEPT ![t] = "count"]
        /\ UNCHANGED <<last_subbufer_no, subbuffers_no, tno, file, ssShm, ssManager, ssMonitor>>
    BY BusyMain DEF initialize_failed
  <1>2. failed' = failed \cup {tno[t]}
    BY DEF initialize_failed
  <1>3. /\ tpc \in [Threads -> {"idle", "create", "count"}]
        /\ tno \in [Threads -> AllSubs] /\ failed \subseteq AllSubs
        /\ file \in [AllSubs -> {"none", "there", "gone"}]
        /\ last_subbufer_no \in 0..MaxSubs /\ subbuffers_no \in 0..last_subbufer_no
    BY DEF ssTypeOK
  <1>4. FileInv' /\ StreamInv' /\ ScanInv' /\ ReleaseInv' /\ MissingExplained'
    <2>1. /\ subbuffers_no' \in {subbuffers_no, subbuffers_no + 1}
          /\ failed \subseteq failed'
          /\ \A k \in AllSubs : file'[k] = file[k] \/ file'[k] = "there"
      BY <1>1, <1>2, <1>3
    <2>. QED BY <1>1, <2>1, CreationKeeps
  <1>5. CountInv'
    <2>1. Busy' = Busy /\ Counting' = Counting \cup {t}
      BY <1>1, <1>3 DEF Busy, Counting
    <2>2. Created' = Created
      BY <1>1, <1>2, <1>3 DEF Created
    <2>3. Busy \in SUBSET Threads /\ Counting \in SUBSET Threads
          /\ Created \in SUBSET (1..MaxSubs) /\ t \notin Counting
      BY <1>1 DEF Busy, Counting, Created
    <2>4. /\ subbuffers_no + Cardinality(Busy) <= last_subbufer_no
          /\ Cardinality(Created) <= subbuffers_no + Cardinality(Counting)
      BY DEF CountInv
    <2>5. /\ Cardinality(Busy) \in Nat /\ Cardinality(Counting) \in Nat
          /\ Cardinality(Created) \in Nat
      BY <2>3, CountedFinite
    <2>6. /\ Cardinality(Busy') = Cardinality(Busy)
          /\ Cardinality(Counting') = Cardinality(Counting) + 1
          /\ Cardinality(Created') = Cardinality(Created)
      BY <2>1, <2>2, <2>3, CountStep
    <2>7. /\ subbuffers_no' + Cardinality(Busy') <= last_subbufer_no'
          /\ Cardinality(Created') <= subbuffers_no' + Cardinality(Counting')
      BY <1>1, <1>2, <1>3, <2>4, <2>5, <2>6
    <2>. QED BY <2>7 DEF CountInv
  <1>6. NumberInv'
    <2>1. \A u \in Busy' : tno'[u] \in 1..last_subbufer_no'
      BY <1>1, <1>2, <1>3 DEF NumberInv, Busy
    <2>2. \A u \in Counting' : file'[tno'[u]] # "none" \/ tno'[u] \in failed'
      BY <1>1, <1>2, <1>3 DEF NumberInv, Counting, Busy
    <2>3. \A k \in 1..last_subbufer_no' :
            file'[k] # "none" \/ k \in failed' \/ \E u \in Busy' : tno'[u] = k
      BY <1>1, <1>2, <1>3 DEF NumberInv, Busy, Counting
    <2>. QED BY <2>1, <2>2, <2>3 DEF NumberInv
  <1>7. ssTypeOK'
    <2>1. subbuffers_no' \in 0..last_subbufer_no' /\ last_subbufer_no' \in 0..MaxSubs
      <3>1. Cardinality(Busy') \in Nat
        BY CountedFinite DEF Busy
      <3>. QED BY <1>1, <1>2, <1>3, <1>5, <3>1 DEF CountInv
    <2>. QED BY <1>1, <1>2, <1>3, <2>1 DEF ssTypeOK, ssShm, ssManager, ssMonitor
  <1>. QED BY <1>4, <1>5, <1>6, <1>7

\* The sub-buffer is counted.
LEMMA CountSubBufferStep ==
  ASSUME ssInv, NEW t \in Threads, count_sub_buffer(t), UNCHANGED <<ssManager, ssMonitor>>
  PROVE  ssInv'
  <1>. USE SubStreamsAssumption DEF ssInv, AllSubs
  <1>1. /\ tpc[t] = "count" /\ ~destroyed[0]
        /\ tpc' = [tpc EXCEPT ![t] = "idle"]
        /\ UNCHANGED <<last_subbufer_no, tno, failed, file, ssShm, ssManager, ssMonitor>>
    BY BusyMain DEF count_sub_buffer
  <1>2. subbuffers_no' = subbuffers_no + 1
    BY DEF count_sub_buffer
  <1>3. /\ tpc \in [Threads -> {"idle", "create", "count"}]
        /\ tno \in [Threads -> AllSubs] /\ failed \subseteq AllSubs
        /\ file \in [AllSubs -> {"none", "there", "gone"}]
        /\ last_subbufer_no \in 0..MaxSubs /\ subbuffers_no \in 0..last_subbufer_no
    BY DEF ssTypeOK
  <1>4. FileInv' /\ StreamInv' /\ ScanInv' /\ ReleaseInv' /\ MissingExplained'
    <2>1. /\ subbuffers_no' \in {subbuffers_no, subbuffers_no + 1}
          /\ failed \subseteq failed'
          /\ \A k \in AllSubs : file'[k] = file[k] \/ file'[k] = "there"
      BY <1>1, <1>2, <1>3
    <2>. QED BY <1>1, <2>1, CreationKeeps
  <1>5. CountInv'
    <2>1. Busy' = Busy \ {t} /\ Counting' = Counting \ {t}
      BY <1>1, <1>3 DEF Busy, Counting
    <2>2. Created' = Created
      BY <1>1, <1>2, <1>3 DEF Created
    <2>3. Busy \in SUBSET Threads /\ Counting \in SUBSET Threads
          /\ Created \in SUBSET (1..MaxSubs) /\ t \in Busy /\ t \in Counting
      BY <1>1 DEF Busy, Counting, Created
    <2>4. /\ subbuffers_no + Cardinality(Busy) <= last_subbufer_no
          /\ Cardinality(Created) <= subbuffers_no + Cardinality(Counting)
      BY DEF CountInv
    <2>5. /\ Cardinality(Busy) \in Nat /\ Cardinality(Counting) \in Nat
          /\ Cardinality(Created) \in Nat
      BY <2>3, CountedFinite
    <2>6. /\ Cardinality(Busy') = Cardinality(Busy) - 1
          /\ Cardinality(Counting') = Cardinality(Counting) - 1
          /\ Cardinality(Created') = Cardinality(Created)
      BY <2>1, <2>2, <2>3, CountStep
    <2>7. /\ subbuffers_no' + Cardinality(Busy') <= last_subbufer_no'
          /\ Cardinality(Created') <= subbuffers_no' + Cardinality(Counting')
      BY <1>1, <1>2, <1>3, <2>4, <2>5, <2>6, SMTT(30)
    <2>. QED BY <2>7 DEF CountInv
  <1>6. NumberInv'
    <2>1. \A u \in Busy' : tno'[u] \in 1..last_subbufer_no'
      BY <1>1, <1>2, <1>3 DEF NumberInv, Busy
    <2>2. \A u \in Counting' : file'[tno'[u]] # "none" \/ tno'[u] \in failed'
      BY <1>1, <1>2, <1>3 DEF NumberInv, Counting, Busy
    <2>3. \A k \in 1..last_subbufer_no' :
            file'[k] # "none" \/ k \in failed' \/ \E u \in Busy' : tno'[u] = k
      BY <1>1, <1>2, <1>3 DEF NumberInv, Busy, Counting
    <2>. QED BY <2>1, <2>2, <2>3 DEF NumberInv
  <1>7. ssTypeOK'
    <2>1. subbuffers_no' \in 0..last_subbufer_no' /\ last_subbufer_no' \in 0..MaxSubs
      <3>1. Cardinality(Busy') \in Nat
        BY CountedFinite DEF Busy
      <3>. QED BY <1>1, <1>2, <1>3, <1>5, <3>1 DEF CountInv
    <2>. QED BY <1>1, <1>2, <1>3, <2>1 DEF ssTypeOK, ssShm, ssManager, ssMonitor
  <1>. QED BY <1>4, <1>5, <1>6, <1>7

-----------------------------------------------------------------------------
(* SubStreams: the buffers are used and destroyed, and the managers run.   *)

\* What shamon_is_ready has seen of a stream stays so while others run.
LEMMA ScanKeeps ==
  ASSUME ssInv, UNCHANGED <<ssMonitor, subbuffers_no>>,
         \A k \in AllSubs :
           /\ destroyed[k] => destroyed'[k]
           /\ destroyed[k] /\ shm[k] = 0 => shm'[k] = 0
           /\ Quiet(k) => Quiet(k)'
  PROVE  ScanInv'
  <1>. USE SubStreamsAssumption DEF ssInv, ssMonitor
  <1>1. /\ substreams_no \in 0..MaxSubs /\ at \in 0..(MaxSubs + 1)
        /\ Scanning => at <= substreams_no
    BY DEF ssTypeOK, StreamInv, AllSubs
  <1>2. /\ \A k \in 0..substreams_no : k \in AllSubs
        /\ Scanning => at \in AllSubs /\ \A k \in 0..(at - 1) : k \in AllSubs
    BY <1>1 DEF AllSubs
  <1>3. NoneNew => NoneNew'
    BY DEF NoneNew, AllSubs
  <1>4. Scanning' = Scanning /\ Stopped' = Stopped
    BY DEF Scanning, Stopped
  <1>5. Scanning => \A k \in 0..(at - 1) : Quiet(k)'
    BY <1>2 DEF ScanInv
  <1>6. Stopped => \A k \in 0..substreams_no : Quiet(k)'
    BY <1>2 DEF ScanInv
  <1>7. /\ pc \in {"shm", "new", "arb"} => destroyed'[at]
        /\ pc \in {"new", "arb"} => shm'[at] = 0
    <2>1. pc \in {"shm", "new", "arb"} => at \in AllSubs
      BY <1>2 DEF Scanning
    <2>. QED BY <2>1 DEF ScanInv
  <1>. QED BY <1>3, <1>4, <1>5, <1>6, <1>7 DEF ScanInv

\* The source leaves the files of sub-buffers and its counters alone.
LEMMA SourceKeeps ==
  ASSUME ssInv, UNCHANGED <<ssSource, ssMonitor>>,
         \A k \in 1..MaxSubs : file'[k] = file[k]
  PROVE  CountInv' /\ NumberInv' /\ ReleaseInv' /\ MissingExplained'
  <1>. USE SubStreamsAssumption DEF ssInv, ssSource, ssMonitor
  <1>1. Busy' = Busy /\ Counting' = Counting /\ Created' = Created
    BY DEF Busy, Counting, Created
  <1>2. CountInv'
    BY <1>1 DEF CountInv
  <1>3. NumberInv'
    <2>1. \A k \in 1..last_subbufer_no : k \in 1..MaxSubs
      BY DEF ssTypeOK
    <2>2. \A u \in Busy : tno[u] \in 1..last_subbufer_no
      BY DEF NumberInv
    <2>3. Counting \subseteq Busy
      BY DEF Counting, Busy
    <2>. QED BY <1>1, <2>1, <2>2, <2>3 DEF NumberInv
  <1>4. ReleaseInv'
    <2>1. pc = "release" => \A k \in 1..(at - 1) : k \in 1..MaxSubs
      BY DEF ssTypeOK
    <2>2. \A k \in 1..substreams_no : k \in 1..MaxSubs
      BY DEF ssTypeOK, AllSubs
    <2>. QED BY <2>1, <2>2 DEF ReleaseInv
  <1>5. MissingExplained'
    BY DEF MissingExplained
  <1>. QED BY <1>2, <1>3, <1>4, <1>5

\* A thread of the source pushes into a sub-buffer that it has not destroyed.
LEMMA PushStep ==
  ASSUME ssInv, NEW k \in AllSubs, push(k), UNCHANGED <<ssManager, ssMonitor>>
  PROVE  ssInv'
  <1>. USE SubStreamsAssumption DEF ssInv
  <1>1. /\ ~destroyed[k] /\ shm[k] < QueueCap
        /\ shm' = [shm EXCEPT ![k] = @ + 1] /\ written' = [written EXCEPT ![k] = @ + 1]
        /\ UNCHANGED <<ssSource, file, destroyed, ssManager, ssMonitor>>
    BY DEF push, Usable
  <1>2. shm \in [AllSubs -> 0..QueueCap] /\ written \in [AllSubs -> Nat]
    BY DEF ssTypeOK
  <1>3. shm' \in [AllSubs -> 0..QueueCap] /\ written' \in [AllSubs -> Nat]
    BY <1>1, <1>2
  <1>4. ssTypeOK'
    BY <1>1, <1>3 DEF ssTypeOK, ssSource, ssManager, ssMonitor
  <1>5. CountInv' /\ NumberInv' /\ ReleaseInv' /\ MissingExplained'
    BY <1>1, SourceKeeps
  <1>6. FileInv'
    BY <1>1 DEF FileInv, Busy, ssSource, ssMonitor
  <1>7. StreamInv'
    BY <1>1, <1>2 DEF StreamInv, Opening, Scanning, ssSource, ssManager, ssMonitor
  <1>8. ScanInv'
    <2>1. UNCHANGED <<ssMonitor, subbuffers_no>>
      BY <1>1 DEF ssSource
    <2>2. ASSUME NEW u \in AllSubs
          PROVE  /\ destroyed[u] => destroyed'[u]
                 /\ destroyed[u] /\ shm[u] = 0 => shm'[u] = 0
                 /\ Quiet(u) => Quiet(u)'
      BY <1>1, <1>2 DEF Quiet, ssManager
    <2>. QED BY <2>1, <2>2, ScanKeeps
  <1>. QED BY <1>4, <1>5, <1>6, <1>7, <1>8

\* A thread destroys its sub-buffer.
LEMMA DestroySubStep ==
  ASSUME ssInv, NEW k \in AllSubs, destroy_sub_buffer(k),
         UNCHANGED <<ssManager, ssMonitor>>
  PROVE  ssInv'
  <1>. USE SubStreamsAssumption DEF ssInv
  <1>1. /\ k # 0 /\ destroyed' = [destroyed EXCEPT ![k] = TRUE]
        /\ UNCHANGED <<ssSource, file, written, shm, ssManager, ssMonitor>>
    BY DEF destroy_sub_buffer
  <1>2. destroyed \in [AllSubs -> BOOLEAN] /\ 0 \in AllSubs
    BY DEF ssTypeOK, AllSubs
  <1>3. destroyed' \in [AllSubs -> BOOLEAN] /\ destroyed'[0] = destroyed[0]
    BY <1>1, <1>2
  <1>4. ssTypeOK'
    BY <1>1, <1>3 DEF ssTypeOK, ssSource, ssManager, ssMonitor
  <1>5. CountInv' /\ NumberInv' /\ ReleaseInv' /\ MissingExplained'
    BY <1>1, SourceKeeps
  <1>6. FileInv'
    BY <1>1, <1>3 DEF FileInv, Busy, ssSource, ssMonitor
  <1>7. StreamInv'
    BY <1>1 DEF StreamInv, Opening, Scanning, ssSource, ssManager, ssMonitor
  <1>8. ScanInv'
    <2>1. UNCHANGED <<ssMonitor, subbuffers_no>>
      BY <1>1 DEF ssSource
    <2>2. ASSUME NEW u \in AllSubs
          PROVE  /\ destroyed[u] => destroyed'[u]
                 /\ destroyed[u] /\ shm[u] = 0 => shm'[u] = 0
                 /\ Quiet(u) => Quiet(u)'
      BY <1>1, <1>2 DEF Quiet, ssManager
    <2>. QED BY <2>1, <2>2, ScanKeeps
  <1>. QED BY <1>4, <1>5, <1>6, <1>7, <1>8

\* The source destroys its main buffer while no thread is making a sub-buffer.
LEMMA DestroyMainStep ==
  ASSUME ssInv, destroy_main, UNCHANGED <<ssManager, ssMonitor>>
  PROVE  ssInv'
  <1>. USE SubStreamsAssumption DEF ssInv
  <1>1. /\ \A t \in Threads : tpc[t] = "idle"
        /\ destroyed' = [destroyed EXCEPT ![0] = TRUE]
        /\ file' = [file EXCEPT ![0] = "gone"]
        /\ UNCHANGED <<ssSource, written, shm, ssManager, ssMonitor>>
    BY DEF destroy_main
  <1>2. /\ destroyed \in [AllSubs -> BOOLEAN] /\ 0 \in AllSubs
        /\ file \in [AllSubs -> {"none", "there", "gone"}]
    BY SMTT(30) DEF ssTypeOK, AllSubs
  <1>3. /\ destroyed' \in [AllSubs -> BOOLEAN]
        /\ file' \in [AllSubs -> {"none", "there", "gone"}]
        /\ file'[0] = "gone" /\ \A k \in AllSubs \ {0} : file'[k] = file[k]
    BY <1>1, <1>2
  <1>4. ssTypeOK'
    BY <1>1, <1>3, SMTT(30) DEF ssTypeOK, ssSource, ssManager, ssMonitor
  <1>5. \A k \in 1..MaxSubs : k \in AllSubs \ {0}
    BY DEF AllSubs
  <1>6. CountInv' /\ NumberInv' /\ ReleaseInv' /\ MissingExplained'
    BY <1>1, <1>3, <1>5, SourceKeeps
  <1>7. FileInv'
    BY <1>1, <1>3, <1>5 DEF FileInv, Busy, ssSource, ssMonitor
  <1>8. StreamInv'
    <2>1. \A k \in 0..substreams_no : k \in AllSubs
      BY DEF ssTypeOK, AllSubs
    <2>2. \A k \in AllSubs : file[k] # "none" => file'[k] # "none"
      BY <1>3
    <2>. QED BY <1>1, <2>1, <2>2
             DEF StreamInv, Opening, Scanning, ssSource, ssManager, ssMonitor
  <1>9. ScanInv'
    <2>1. UNCHANGED <<ssMonitor, subbuffers_no>>
      BY <1>1 DEF ssSource
    <2>2. ASSUME NEW u \in AllSubs
          PROVE  /\ destroyed[u] => destroyed'[u]
                 /\ destroyed[u] /\ shm[u] = 0 => shm'[u] = 0
                 /\ Quiet(u) => Quiet(u)'
      BY <1>1, <1>2 DEF Quiet, ssManager
    <2>. QED BY <2>1, <2>2, ScanKeeps
  <1>. QED BY <1>4, <1>6, <1>7, <1>8, <1>9

\* A manager step that respects the types, keeps elements in the SHM buffer until
\* they are consumed, and adds nothing but holes to a stream that is done.
LEMMA ManagerKeeps ==
  ASSUME ssInv, UNCHANGED <<ssSource, file, written, destroyed, ssMonitor>>,
         shm' \in [AllSubs -> 0..QueueCap],
         mpc' \in [AllSubs -> {"none", "get", "consume", "exited"}],
         arb' \in [AllSubs -> Seq({"event", "hole"})],
         \A k \in AllSubs : Len(arb'[k]) <= QueueCap,
         pending' \in [AllSubs -> Nat],
         \A k \in AllSubs :
           /\ mpc[k] # "none" => mpc'[k] # "none"
           /\ mpc'[k] = "consume" => shm'[k] > 0
           /\ shm[k] = 0 => shm'[k] = 0
           /\ Quiet(k) => Quiet(k)'
  PROVE  ssInv'
  <1>. USE SubStreamsAssumption DEF ssInv
  <1>1. ssTypeOK'
    BY DEF ssTypeOK, ssSource, ssMonitor
  <1>2. CountInv' /\ NumberInv' /\ ReleaseInv' /\ MissingExplained'
    BY SourceKeeps
  <1>3. FileInv'
    BY DEF FileInv, Busy, ssSource, ssMonitor
  <1>4. StreamInv'
    <2>1. \A k \in 0..substreams_no : k \in AllSubs
      BY DEF ssTypeOK, AllSubs
    <2>. QED BY <2>1 DEF StreamInv, Opening, Scanning, ssSource, ssMonitor
  <1>5. ScanInv'
    BY ScanKeeps DEF ssSource
  <1>. QED BY <1>1, <1>2, <1>3, <1>4, <1>5

\* The manager of a sub-buffer moves an event, counts it or ends.
LEMMA ManagerStep ==
  ASSUME ssInv, NEW k \in AllSubs, SubManager(k)
  PROVE  ssInv'
  <1>. USE SubStreamsAssumption DEF ssInv
  <1>1. /\ shm \in [AllSubs -> 0..QueueCap]
        /\ mpc \in [AllSubs -> {"none", "get", "consume", "exited"}]
        /\ arb \in [AllSubs -> Seq({"event", "hole"})]
        /\ \A u \in AllSubs : Len(arb[u]) <= QueueCap
        /\ pending \in [AllSubs -> Nat]
        /\ \A u \in AllSubs : mpc[u] = "consume" => shm[u] > 0
    BY DEF ssTypeOK, StreamInv
  <1>2. UNCHANGED <<ssSource, file, written, destroyed, ssMonitor>>
    BY DEF SubManager
  <1>3. UNCHANGED destroyed
    BY <1>2
  <1>4. Len(arb[k]) \in Nat
    BY <1>1, LenProperties
  <1>5. ASSUME NEW d \in {"event", "hole"}
        PROVE  /\ Append(arb[k], d) \in Seq({"event", "hole"})
               /\ Len(Append(arb[k], d)) = Len(arb[k]) + 1
               /\ \A i \in 1..Len(arb[k]) : Append(arb[k], d)[i] = arb[k][i]
               /\ Append(arb[k], d)[Len(arb[k]) + 1] = d
    BY <1>1, AppendProperties
  <1>6. CASE manager_forward(k)
    <2>. DEFINE a == Append(arb[k], "event")
    <2>1. /\ mpc[k] = "get" /\ shm[k] > 0 /\ QueueCap - Len(arb[k]) > 0
          /\ arb' = [arb EXCEPT ![k] = a] /\ mpc' = [mpc EXCEPT ![k] = "consume"]
          /\ UNCHANGED <<shm, pending>>
      BY <1>6 DEF manager_forward, FreeSlots
    <2>2. a \in Seq({"event", "hole"}) /\ Len(a) <= QueueCap
      BY <1>4, <1>5, <2>1
    <2>. HIDE DEF a
    <2>3. /\ arb' \in [AllSubs -> Seq({"event", "hole"})]
          /\ \A u \in AllSubs : Len(arb'[u]) <= QueueCap
      BY <1>1, <2>1, <2>2
    <2>4. mpc' \in [AllSubs -> {"none", "get", "consume", "exited"}]
      BY <1>1, <2>1
    <2>5. ASSUME NEW u \in AllSubs
          PROVE  /\ mpc[u] # "none" => mpc'[u] # "none"
                 /\ mpc'[u] = "consume" => shm'[u] > 0
                 /\ shm[u] = 0 => shm'[u] = 0
                 /\ Quiet(u) => Quiet(u)'
      BY <1>1, <1>3, <2>1 DEF Quiet
    <2>. QED BY <1>1, <1>2, <2>1, <2>3, <2>4, <2>5, ManagerKeeps
  <1>7. CASE manager_drop(k)
    <2>1. /\ mpc[k] = "get" /\ shm[k] > 0
          /\ pending' = [pending EXCEPT ![k] = @ + 1]
          /\ mpc' = [mpc EXCEPT ![k] = "consume"]
          /\ UNCHANGED <<shm, arb>>
      BY <1>7 DEF manager_drop
    <2>2. /\ mpc' \in [AllSubs -> {"none", "get", "consume", "exited"}]
          /\ pending' \in [AllSubs -> Nat]
      BY <1>1, <2>1
    <2>3. ASSUME NEW u \in AllSubs
          PROVE  /\ mpc[u] # "none" => mpc'[u] # "none"
                 /\ mpc'[u] = "consume" => shm'[u] > 0
                 /\ shm[u] = 0 => shm'[u] = 0
                 /\ Quiet(u) => Quiet(u)'
      BY <1>1, <1>3, <2>1 DEF Quiet
    <2>. QED BY <1>1, <1>2, <2>1, <2>2, <2>3, ManagerKeeps
  <1>8. CASE manager_consume(k)
    <2>1. /\ mpc[k] = "consume" /\ shm[k] > 0
          /\ shm' = [shm EXCEPT ![k] = @ - 1] /\ mpc' = [mpc EXCEPT ![k] = "get"]
          /\ UNCHANGED <<arb, pending>>
      BY <1>8, <1>1 DEF manager_consume
    <2>2. /\ mpc' \in [AllSubs -> {"none", "get", "consume", "exited"}]
          /\ shm' \in [AllSubs -> 0..QueueCap]
      BY <1>1, <2>1
    <2>3. ASSUME NEW u \in AllSubs
          PROVE  /\ mpc[u] # "none" => mpc'[u] # "none"
                 /\ mpc'[u] = "consume" => shm'[u] > 0
                 /\ shm[u] = 0 => shm'[u] = 0
                 /\ Quiet(u) => Quiet(u)'
      BY <1>1, <1>3, <2>1 DEF Quiet
    <2>. QED BY <1>1, <1>2, <2>1, <2>2, <2>3, ManagerKeeps
  <1>9. CASE manager_hole(k)
    <2>. DEFINE a == Append(arb[k], "hole")
    <2>1. /\ mpc[k] = "get" /\ QueueCap - Len(arb[k]) > KeepFree
          /\ arb' = [arb EXCEPT ![k] = a] /\ pending' = [pending EXCEPT ![k] = 0]
          /\ UNCHANGED <<shm, mpc>>
      BY <1>9 DEF manager_hole, FreeSlots
    <2>2. /\ a \in Seq({"event", "hole"}) /\ Len(a) <= QueueCap
          /\ Len(a) = Len(arb[k]) + 1 /\ a[Len(arb[k]) + 1] = "hole"
          /\ \A i \in 1..Len(arb[k]) : a[i] = arb[k][i]
      BY <1>4, <1>5, <2>1
    <2>. HIDE DEF a
    <2>3. /\ arb' \in [AllSubs -> Seq({"event", "hole"})]
          /\ \A u \in AllSubs : Len(arb'[u]) <= QueueCap
          /\ pending' \in [AllSubs -> Nat]
      BY <1>1, <2>1, <2>2
    <2>4. Quiet(k) => Quiet(k)'
      <3>. SUFFICES ASSUME Quiet(k), NEW i \in 1..Len(a) PROVE a[i] = "hole"
        BY <1>1, <1>3, <2>1 DEF Quiet
      <3>1. i \in 1..Len(arb[k]) \/ i = Len(arb[k]) + 1
        BY <1>4, <2>2
      <3>. QED BY <3>1, <2>2 DEF Quiet
    <2>5. ASSUME NEW u \in AllSubs
          PROVE  /\ mpc[u] # "none" => mpc'[u] # "none"
                 /\ mpc'[u] = "consume" => shm'[u] > 0
                 /\ shm[u] = 0 => shm'[u] = 0
                 /\ Quiet(u) => Quiet(u)'
      <3>1. CASE u = k
        BY <3>1, <1>1, <2>1, <2>4
      <3>2. CASE u # k
        BY <3>2, <1>1, <1>3, <2>1 DEF Quiet
      <3>. QED BY <3>1, <3>2
    <2>. QED BY <1>1, <1>2, <2>1, <2>3, <2>5, ManagerKeeps
  <1>10. CASE manager_exit(k)
    <2>1. /\ mpc' = [mpc EXCEPT ![k] = "exited"] /\ UNCHANGED <<shm, arb, pending>>
      BY <1>10 DEF manager_exit
    <2>2. mpc' \in [AllSubs -> {"none", "get", "consume", "exited"}]
      BY <1>1, <2>1
    <2>3. ASSUME NEW u \in AllSubs
          PROVE  /\ mpc[u] # "none" => mpc'[u] # "none"
                 /\ mpc'[u] = "consume" => shm'[u] > 0
                 /\ shm[u] = 0 => shm'[u] = 0
                 /\ Quiet(u) => Quiet(u)'
      BY <1>1, <1>3, <2>1 DEF Quiet
    <2>. QED BY <1>1, <1>2, <2>1, <2>2, <2>3, ManagerKeeps
  <1>. QED BY <1>6, <1>7, <1>8, <1>9, <1>10 DEF SubManager

-----------------------------------------------------------------------------
(* SubStreams: the monitor.                                                *)

\* A step of the monitor that leaves the files alone.
LEMMA MonitorKeeps ==
  ASSUME ssInv, NoSourceStep, UNCHANGED file,
         pc \in {"release", "ended"} => pc' \in {"release", "ended"}
  PROVE  CountInv' /\ NumberInv' /\ FileInv'
  <1>. USE DEF ssInv, NoSourceStep, ssSource, ssShm
  <1>1. Busy' = Busy /\ Counting' = Counting /\ Created' = Created
    BY DEF Busy, Counting, Created
  <1>. QED BY <1>1 DEF CountInv, NumberInv, FileInv

\* The reads of shamon_is_ready.
LEMMA ReadyStep ==
  ASSUME ssInv, NoSourceStep,
         ready_destroyed \/ ready_shm \/ ready_new \/ ready_arb
  PROVE  ssInv'
  <1>. USE SubStreamsAssumption DEF ssInv
  <1>1. UNCHANGED <<substreams_no, tries, late, mpc, arb, file>>
    BY DEF ready_destroyed, ready_shm, ready_new, ready_arb, ReadyTest
  <1>2. /\ UNCHANGED <<last_subbufer_no, subbuffers_no, tpc, tno, failed>>
        /\ UNCHANGED <<written, shm, destroyed, pending>>
    BY DEF NoSourceStep, ssSource, ssShm
  <1>3. /\ Scanning /\ at \in 0..substreams_no /\ substreams_no \in 0..MaxSubs
        /\ subbuffers_no \in Nat
    <2>1. Scanning
      BY DEF ready_destroyed, ready_shm, ready_new, ready_arb, ReadyTest, Scanning
    <2>. QED BY <2>1 DEF ssTypeOK, StreamInv, AllSubs
  <1>4. /\ pc' \in {"shm", "new", "arb", "create", "destroyed", "join"}
        /\ (pc' # "create" => at' <= substreams_no) /\ at' \in 0..substreams_no
    BY <1>3 DEF ready_destroyed, ready_shm, ready_new, ready_arb, ReadyTest
  <1>5. ssTypeOK'
    <2>1. at' \in 0..(MaxSubs + 1)
      BY <1>3, <1>4
    <2>. QED BY <1>1, <1>2, <1>4, <2>1 DEF ssTypeOK
  <1>6. CountInv' /\ NumberInv' /\ FileInv'
    <2>1. pc \notin {"release", "ended"}
      BY <1>3 DEF Scanning
    <2>. QED BY <1>1, <2>1, MonitorKeeps
  <1>7. StreamInv'
    BY <1>1, <1>2, <1>3, <1>4 DEF StreamInv, Opening, Scanning
  <1>8. ASSUME NEW k PROVE Quiet(k)' <=> Quiet(k)
    BY <1>1, <1>2 DEF Quiet
  <1>9. NoneNew' <=> NoneNew
    BY <1>1, <1>2 DEF NoneNew
  <1>10. ScanInv'
    <2>1. CASE ready_destroyed
      <3>1. at' = at /\ pc = "destroyed"
            /\ pc' \in {"create", "shm"} /\ (pc' = "shm" => destroyed[at])
        BY <2>1 DEF ready_destroyed, ReadyTest
      <3>. QED BY <3>1, <1>2, <1>8, <1>9 DEF ScanInv, Scanning, Stopped
    <2>2. CASE ready_shm
      <3>1. at' = at /\ pc = "shm" /\ pc' \in {"create", "new"}
            /\ (pc' = "new" => ~(shm[at] > 0))
        BY <2>2 DEF ready_shm, ReadyTest
      <3>2. at \in AllSubs /\ shm[at] \in Nat
        BY <1>3 DEF AllSubs, ssTypeOK
      <3>3. pc' = "new" => shm[at] = 0
        BY <3>1, <3>2
      <3>. QED BY <3>1, <3>3, <1>2, <1>8, <1>9 DEF ScanInv, Scanning, Stopped
    <2>3. CASE ready_new
      <3>1. at' = at /\ pc = "new" /\ pc' \in {"create", "arb"}
            /\ (pc' = "arb" => ~has_new_substreams(at))
        BY <2>3 DEF ready_new, ReadyTest
      <3>2. pc' = "arb" => NoneNew
        <4>1. CASE at = 0
          BY <4>1, <3>1, <1>3 DEF has_new_substreams, ScanInv, NoneNew
        <4>2. CASE at > 0
          BY <4>2, <3>1 DEF ScanInv, Scanning
        <4>. QED BY <4>1, <4>2, <1>3
      <3>. QED BY <3>1, <3>2, <1>2, <1>8, <1>9 DEF ScanInv, Scanning, Stopped
    <2>4. CASE ready_arb
      <3>1. pc = "arb" /\ NoneNew /\ destroyed[at] /\ shm[at] = 0
            /\ \A k \in 0..(at - 1) : Quiet(k)
        BY <2>4 DEF ready_arb, ScanInv, Scanning
      <3>2. CASE arb[at] # << >>
        <4>1. pc' = "create"
          BY <2>4, <3>2 DEF ready_arb
        <4>. QED BY <4>1 DEF ScanInv, Scanning, Stopped
      <3>3. CASE arb[at] = << >>
        <4>1. Quiet(at)
          BY <3>1, <3>3 DEF Quiet
        <4>2. \A k \in 0..at : k \in 0..(at - 1) \/ k = at
          BY <1>3
        <4>3. \A k \in 0..at : Quiet(k)
          BY <3>1, <4>1, <4>2
        <4>4. CASE at < substreams_no
          <5>1. pc' = "destroyed" /\ at' = at + 1
            BY <2>4, <3>3, <4>4 DEF ready_arb
          <5>2. \A k \in 0..(at' - 1) : k \in 0..at
            BY <5>1, <1>3
          <5>. QED BY <5>1, <5>2, <4>3, <3>1, <1>8, <1>9
                   DEF ScanInv, Scanning, Stopped
        <4>5. CASE ~(at < substreams_no)
          <5>1. pc' = "join" /\ at' = 0
            BY <2>4, <3>3, <4>5 DEF ready_arb
          <5>2. \A k \in 0..substreams_no : k \in 0..at
            BY <4>5, <1>3
          <5>. QED BY <5>1, <5>2, <4>3, <3>1, <1>1, <1>8, <1>9
                   DEF ScanInv, Scanning, Stopped
        <4>. QED BY <4>4, <4>5
      <3>. QED BY <3>2, <3>3
    <2>. QED BY <2>1, <2>2, <2>3, <2>4
  <1>11. ReleaseInv' /\ MissingExplained'
    BY <1>4 DEF ReleaseInv, MissingExplained
  <1>. QED BY <1>5, <1>6, <1>7, <1>10, <1>11

\* The monitor takes the number of a new sub-buffer.
LEMMA CreateSubstreamStep ==
  ASSUME ssInv, NoSourceStep, create_substream
  PROVE  ssInv'
  <1>. USE SubStreamsAssumption DEF ssInv
  <1>1. /\ pc = "create" /\ UNCHANGED <<late, mpc, arb, file>>
        /\ UNCHANGED <<last_subbufer_no, subbuffers_no, tpc, tno, failed>>
        /\ UNCHANGED <<written, shm, destroyed, pending>>
    BY DEF create_substream, NoSourceStep, ssSource, ssShm
  <1>2. /\ substreams_no \in 0..MaxSubs /\ last_subbufer_no \in 0..MaxSubs
        /\ subbuffers_no \in 0..last_subbufer_no
    BY DEF ssTypeOK, AllSubs
  <1>3. CountInv' /\ NumberInv' /\ FileInv'
    BY <1>1, MonitorKeeps
  <1>4. CASE subbuffers_no > substreams_no
    <2>1. /\ substreams_no' = substreams_no + 1 /\ at' = substreams_no + 1
          /\ tries' = Tries /\ pc' = "open"
      BY <1>4 DEF create_substream, has_new_substreams
    <2>2. substreams_no' \in 0..MaxSubs /\ substreams_no' <= subbuffers_no
      BY <1>2, <1>4, <2>1
    <2>3. ssTypeOK'
      <3>1. at' \in 0..(MaxSubs + 1) /\ substreams_no' \in AllSubs
        BY <1>2, <2>1, <2>2 DEF AllSubs
      <3>2. tries' \in 0..Tries
        BY <2>1
      <3>. QED BY <1>1, <2>1, <3>1, <3>2 DEF ssTypeOK
    <2>4. StreamInv'
      <3>1. \A k \in 0..substreams_no' : k \in 0..substreams_no \/ k = substreams_no'
        BY <1>2, <2>1
      <3>2. \A k \in 0..substreams_no : mpc[k] # "none" /\ file[k] # "none"
        BY <1>1 DEF StreamInv, Opening
      <3>3. at' = substreams_no' /\ at' > 0 /\ tries' > 0
        BY <1>2, <2>1
      <3>. QED BY <1>1, <2>1, <2>2, <3>1, <3>2, <3>3
               DEF StreamInv, Opening, Scanning
    <2>5. ScanInv' /\ ReleaseInv' /\ MissingExplained'
      BY <2>1 DEF ScanInv, ReleaseInv, MissingExplained, Scanning, Stopped
    <2>. QED BY <1>3, <2>3, <2>4, <2>5
  <1>5. CASE ~(subbuffers_no > substreams_no)
    <2>1. pc' = "process" /\ UNCHANGED <<at, substreams_no, tries>>
      BY <1>5 DEF create_substream, has_new_substreams
    <2>2. ssTypeOK' /\ StreamInv'
      BY <1>1, <2>1 DEF ssTypeOK, StreamInv, Opening, Scanning
    <2>3. ScanInv' /\ ReleaseInv' /\ MissingExplained'
      BY <2>1 DEF ScanInv, ReleaseInv, MissingExplained, Scanning, Stopped
    <2>. QED BY <1>3, <2>2, <2>3
  <1>. QED BY <1>4, <1>5

\* The monitor connects to the sub-buffer, or the assertion fails.
LEMMA ConnectStep ==
  ASSUME ssInv, NoSourceStep, connect
  PROVE  ssInv'
  <1>. USE SubStreamsAssumption DEF ssInv
  <1>1. /\ pc = "open" /\ file[at] = "there" /\ pc' = "process"
        /\ mpc' = [mpc EXCEPT ![at] = "get"]
        /\ UNCHANGED <<at, substreams_no, tries, late, arb, file>>
        /\ UNCHANGED <<last_subbufer_no, subbuffers_no, tpc, tno, failed>>
        /\ UNCHANGED <<written, shm, destroyed, pending>>
    BY DEF connect, NoSourceStep, ssSource, ssShm
  <1>2. /\ mpc \in [AllSubs -> {"none", "get", "consume", "exited"}]
        /\ at = substreams_no /\ substreams_no \in AllSubs
    BY <1>1 DEF ssTypeOK, StreamInv, Opening
  <1>3. CountInv' /\ NumberInv' /\ FileInv'
    BY <1>1, MonitorKeeps
  <1>4. ssTypeOK'
    BY <1>1, <1>2 DEF ssTypeOK
  <1>5. StreamInv'
    <2>1. \A k \in 0..substreams_no : k \in AllSubs
      BY <1>2 DEF AllSubs
    <2>. QED BY <1>1, <1>2, <2>1 DEF StreamInv, Opening, Scanning
  <1>6. ScanInv' /\ ReleaseInv' /\ MissingExplained'
    BY <1>1 DEF ScanInv, ReleaseInv, MissingExplained, Scanning, Stopped
  <1>. QED BY <1>3, <1>4, <1>5, <1>6

\* The file is not there: its creation has failed, or the thread that has taken
\* its number was overtaken by one with a larger number.
LEMMA ConnectAgainStep ==
  ASSUME ssInv, NoSourceStep, connect_again
  PROVE  ssInv'
  <1>. USE SubStreamsAssumption DEF ssInv
  <1>1. /\ pc = "open" /\ file[at] # "there" /\ tries' = tries - 1
        /\ pc' = (IF tries' > 0 THEN "open" ELSE "aborted")
        /\ late' = (IF tries' > 0 THEN late ELSE {tno[t] : t \in Busy})
        /\ UNCHANGED <<at, substreams_no, mpc, arb, file>>
        /\ UNCHANGED <<last_subbufer_no, subbuffers_no, tpc, tno, failed>>
        /\ UNCHANGED <<written, shm, destroyed, pending>>
    BY DEF connect_again, NoSourceStep, ssSource, ssShm, Busy
  <1>2. /\ tries \in 0..Tries /\ tries > 0 /\ late \subseteq AllSubs
        /\ tno \in [Threads -> AllSubs]
        /\ file \in [AllSubs -> {"none", "there", "gone"}]
    BY <1>1 DEF ssTypeOK, StreamInv
  <1>3. at = substreams_no /\ at \in 1..last_subbufer_no /\ at \in 1..MaxSubs
    <2>1. /\ at = substreams_no /\ at > 0 /\ substreams_no <= subbuffers_no
          /\ substreams_no \in 0..MaxSubs /\ subbuffers_no \in 0..last_subbufer_no
          /\ last_subbufer_no \in 0..MaxSubs
      BY <1>1 DEF ssTypeOK, StreamInv, Opening, AllSubs
    <2>. QED BY <2>1
  <1>4. CountInv' /\ NumberInv' /\ FileInv'
    BY <1>1, MonitorKeeps
  <1>5. ssTypeOK'
    <2>1. tries' \in 0..Tries /\ pc' \in {"open", "aborted"}
      BY <1>1, <1>2
    <2>2. late' \subseteq AllSubs
      BY <1>1, <1>2 DEF Busy
    <2>. QED BY <1>1, <2>1, <2>2 DEF ssTypeOK
  <1>6. StreamInv'
    BY <1>1, <1>3 DEF StreamInv, Opening, Scanning
  <1>7. ScanInv' /\ ReleaseInv'
    BY <1>1 DEF ScanInv, ReleaseInv, Scanning, Stopped
  <1>8. MissingExplained'
    <2>. SUFFICES ASSUME pc' = "aborted" PROVE at \in failed \cup late'
      BY <1>1 DEF MissingExplained
    <2>1. late' = {tno[t] : t \in Busy}
      BY <1>1
    <2>2. file[at] = "none"
      <3>1. file[at] # "gone"
        BY <1>1, <1>3 DEF FileInv
      <3>2. at \in AllSubs
        BY <1>3 DEF AllSubs
      <3>. QED BY <1>1, <1>2, <3>1, <3>2
    <2>. QED BY <1>3, <2>1, <2>2 DEF NumberInv
  <1>. QED BY <1>4, <1>5, <1>6, <1>7, <1>8

\* The monitor takes from an arbiter buffer, or finds them empty.
LEMMA ProcessStep ==
  ASSUME ssInv, NoSourceStep, Take \/ process_events_none
  PROVE  ssInv'
  <1>. USE SubStreamsAssumption DEF ssInv
  <1>1. /\ pc = "process" /\ pc' = "destroyed" /\ at' = 0
        /\ UNCHANGED <<substreams_no, tries, late, mpc, file>>
        /\ UNCHANGED <<last_subbufer_no, subbuffers_no, tpc, tno, failed>>
        /\ UNCHANGED <<written, shm, destroyed, pending>>
    BY DEF Take, process_events_take, process_events_none, NoSourceStep, ssSource,
           ssShm
  <1>2. /\ arb' \in [AllSubs -> Seq({"event", "hole"})]
        /\ \A k \in AllSubs : Len(arb'[k]) <= QueueCap
    <2>1. /\ arb \in [AllSubs -> Seq({"event", "hole"})]
          /\ \A k \in AllSubs : Len(arb[k]) <= QueueCap
      BY DEF ssTypeOK
    <2>2. CASE UNCHANGED arb
      BY <2>1, <2>2
    <2>3. ASSUME NEW k \in AllSubs, NEW n \in DOMAIN arb[k],
                 arb' = [arb EXCEPT ![k] = SubSeq(@, n + 1, Len(@))]
          PROVE  /\ arb' \in [AllSubs -> Seq({"event", "hole"})]
                 /\ \A u \in AllSubs : Len(arb'[u]) <= QueueCap
      <3>. DEFINE a == SubSeq(arb[k], n + 1, Len(arb[k]))
      <3>1. arb[k] \in Seq({"event", "hole"}) /\ Len(arb[k]) <= QueueCap
        BY <2>1
      <3>2. Len(arb[k]) \in Nat /\ n \in 1..Len(arb[k])
        BY <3>1, LenProperties
      <3>3. \A i \in (n + 1)..Len(arb[k]) : arb[k][i] \in {"event", "hole"}
        <4>1. \A i \in (n + 1)..Len(arb[k]) : i \in 1..Len(arb[k])
          BY <3>2
        <4>. QED BY <3>1, <4>1, ElementOfSeq
      <3>4. a \in Seq({"event", "hole"}) /\ Len(a) = Len(arb[k]) - n
        <4>1. n + 1 \in Int /\ Len(arb[k]) \in Int
          BY <3>2
        <4>2. /\ a \in Seq({"event", "hole"})
              /\ Len(a) = IF n + 1 <= Len(arb[k]) THEN Len(arb[k]) - (n + 1) + 1
                         ELSE 0
          BY <4>1, <3>3, SubSeqProperties
        <4>. QED BY <4>2, <3>2
      <3>5. Len(a) <= QueueCap
        BY <3>1, <3>2, <3>4
      <3>. HIDE DEF a
      <3>6. arb' = [arb EXCEPT ![k] = a]
        BY <2>3 DEF a
      <3>. QED BY <2>1, <3>4, <3>5, <3>6
    <2>. QED BY <2>2, <2>3 DEF Take, process_events_take, process_events_none
  <1>3. CountInv' /\ NumberInv' /\ FileInv'
    BY <1>1, MonitorKeeps
  <1>4. ssTypeOK'
    BY <1>1, <1>2 DEF ssTypeOK
  <1>5. StreamInv'
    <2>1. substreams_no \in Nat
      BY DEF ssTypeOK, AllSubs
    <2>. QED BY <1>1, <2>1 DEF StreamInv, Opening, Scanning
  <1>6. ScanInv' /\ ReleaseInv' /\ MissingExplained'
    BY <1>1 DEF ScanInv, ReleaseInv, MissingExplained, Scanning, Stopped
  <1>. QED BY <1>3, <1>4, <1>5, <1>6

\* shamon_destroy.
LEMMA JoinStep ==
  ASSUME ssInv, NoSourceStep, destroy_join
  PROVE  ssInv'
  <1>. USE SubStreamsAssumption DEF ssInv
  <1>1. /\ pc = "join" /\ UNCHANGED <<substreams_no, tries, late, mpc, arb, file>>
        /\ UNCHANGED <<last_subbufer_no, subbuffers_no, tpc, tno, failed>>
        /\ UNCHANGED <<written, shm, destroyed, pending>>
    BY DEF destroy_join, NoSourceStep, ssSource, ssShm
  <1>2. substreams_no \in 0..MaxSubs /\ at \in 0..substreams_no
    BY <1>1 DEF ssTypeOK, StreamInv, AllSubs
  <1>3. \/ pc' = "join" /\ at' \in 0..substreams_no
        \/ pc' = "release" /\ at' = 1
    BY <1>2 DEF destroy_join
  <1>4. CountInv' /\ NumberInv' /\ FileInv'
    BY <1>1, MonitorKeeps
  <1>5. ssTypeOK'
    <2>1. at' \in 0..(MaxSubs + 1) /\ pc' \in {"join", "release"}
      BY <1>2, <1>3
    <2>. QED BY <1>1, <2>1 DEF ssTypeOK
  <1>6. StreamInv'
    BY <1>1, <1>2, <1>3 DEF StreamInv, Opening, Scanning
  <1>7. ScanInv'
    <2>1. Stopped /\ Stopped' /\ ~Scanning'
      BY <1>1, <1>3 DEF Stopped, Scanning
    <2>. QED BY <1>1, <1>3, <2>1 DEF ScanInv, NoneNew, Quiet
  <1>8. ReleaseInv' /\ MissingExplained'
    BY <1>3 DEF ReleaseInv, MissingExplained
  <1>. QED BY <1>4, <1>5, <1>6, <1>7, <1>8

\* shamon_destroy releases a sub-buffer and unlinks its file.
LEMMA ReleaseStep ==
  ASSUME ssInv, NoSourceStep, release_sub_buffer
  PROVE  ssInv'
  <1>. USE SubStreamsAssumption DEF ssInv
  <1>1. /\ pc = "release" /\ UNCHANGED <<substreams_no, tries, late, mpc, arb>>
        /\ UNCHANGED <<last_subbufer_no, subbuffers_no, tpc, tno, failed>>
        /\ UNCHANGED <<written, shm, destroyed, pending>>
    BY DEF release_sub_buffer, NoSourceStep, ssSource, ssShm
  <1>2. /\ substreams_no \in 0..MaxSubs /\ at \in 0..(MaxSubs + 1) /\ at > 0
        /\ \A k \in 1..(at - 1) : file[k] = "gone"
        /\ file \in [AllSubs -> {"none", "there", "gone"}]
    BY <1>1 DEF ssTypeOK, ReleaseInv, AllSubs
  <1>3. pc' \in {"release", "ended"}
    BY <1>1 DEF release_sub_buffer
  <1>4. ScanInv'
    <2>1. Stopped /\ Stopped' /\ ~Scanning'
      BY <1>1, <1>3 DEF Stopped, Scanning
    <2>. QED BY <1>1, <1>3, <2>1 DEF ScanInv, NoneNew, Quiet
  <1>5. CASE at <= substreams_no
    <2>1. /\ file' = [file EXCEPT ![at] = "gone"] /\ at' = at + 1 /\ pc' = "release"
      BY <1>1, <1>5 DEF release_sub_buffer
    <2>2. at \in AllSubs /\ at \in 0..substreams_no /\ at # 0
      BY <1>2, <1>5 DEF AllSubs
    <2>3. file[at] # "none"
      BY <1>1, <2>2 DEF StreamInv, Opening
    <2>4. /\ file' \in [AllSubs -> {"none", "there", "gone"}]
          /\ \A k \in AllSubs : file'[k] = "none" <=> file[k] = "none"
          /\ \A k \in AllSubs : k # at => file'[k] = file[k]
          /\ file'[at] = "gone"
      BY <1>2, <2>1, <2>2, <2>3
    <2>5. ssTypeOK'
      <3>1. at' \in 0..(MaxSubs + 1)
        BY <1>2, <1>5, <2>1
      <3>. QED BY <1>1, <2>1, <2>4, <3>1 DEF ssTypeOK
    <2>6. Busy' = Busy /\ Counting' = Counting /\ Created' = Created
      <3>1. \A k \in 1..MaxSubs : k \in AllSubs
        BY DEF AllSubs
      <3>. QED BY <1>1, <2>4, <3>1 DEF Busy, Counting, Created
    <2>7. CountInv'
      BY <1>1, <2>6 DEF CountInv
    <2>8. NumberInv'
      <3>1. \A k \in 1..last_subbufer_no : k \in AllSubs
        BY DEF ssTypeOK, AllSubs
      <3>2. Counting \subseteq Busy
        BY DEF Counting, Busy
      <3>. QED BY <1>1, <2>4, <2>6, <3>1, <3>2 DEF NumberInv
    <2>9. FileInv'
      <3>1. 0 \in AllSubs
        BY DEF AllSubs
      <3>. QED BY <1>1, <2>1, <2>2, <2>4, <2>6, <3>1 DEF FileInv
    <2>10. StreamInv'
      <3>1. \A k \in 0..substreams_no : k \in AllSubs
        BY <1>2 DEF AllSubs
      <3>. QED BY <1>1, <2>1, <2>4, <3>1 DEF StreamInv, Opening, Scanning
    <2>11. ReleaseInv' /\ MissingExplained'
      <3>1. at' > 0 /\ \A k \in 1..(at' - 1) : k \in 1..(at - 1) \/ k = at
        BY <1>2, <2>1
      <3>2. \A k \in 1..(at - 1) : k \in AllSubs /\ k # at
        BY <1>2 DEF AllSubs
      <3>. QED BY <1>2, <2>1, <2>4, <3>1, <3>2 DEF ReleaseInv, MissingExplained
    <2>. QED BY <1>4, <2>5, <2>7, <2>8, <2>9, <2>10, <2>11
  <1>6. CASE ~(at <= substreams_no)
    <2>1. pc' = "ended" /\ UNCHANGED <<at, file>>
      BY <1>1, <1>6 DEF release_sub_buffer
    <2>2. CountInv' /\ NumberInv' /\ FileInv'
      BY <2>1, MonitorKeeps
    <2>3. ssTypeOK' /\ StreamInv'
      BY <1>1, <2>1 DEF ssTypeOK, StreamInv, Opening, Scanning
    <2>4. ReleaseInv' /\ MissingExplained'
      <3>1. \A k \in 1..substreams_no : k \in 1..(at - 1)
        BY <1>2, <1>6
      <3>. QED BY <1>1, <1>2, <2>1, <3>1 DEF ReleaseInv, MissingExplained
    <2>. QED BY <1>4, <2>2, <2>3, <2>4
  <1>. QED BY <1>5, <1>6

-----------------------------------------------------------------------------
(* SubStreams: the properties.                                             *)

\* The invariant holds initially.
LEMMA ssInitInv == ssInit => ssInv
  <1>. SUFFICES ASSUME ssInit PROVE ssInv
    OBVIOUS
  <1>. USE SubStreamsAssumption DEF ssInit
  <1>1. ssTypeOK
    <2>1. arb \in [AllSubs -> Seq({"event", "hole"})]
      BY EmptySeq
    <2>2. \A k \in AllSubs : Len(arb[k]) = 0
      OBVIOUS
    <2>3. /\ file \in [AllSubs -> {"none", "there", "gone"}]
          /\ mpc \in [AllSubs -> {"none", "get", "consume", "exited"}]
      OBVIOUS
    <2>4. /\ written \in [AllSubs -> Nat] /\ shm \in [AllSubs -> 0..QueueCap]
          /\ destroyed \in [AllSubs -> BOOLEAN] /\ pending \in [AllSubs -> Nat]
      OBVIOUS
    <2>5. /\ tpc \in [Threads -> {"idle", "create", "count"}]
          /\ tno \in [Threads -> AllSubs]
      BY DEF AllSubs
    <2>6. /\ last_subbufer_no \in 0..MaxSubs /\ subbuffers_no \in 0..last_subbufer_no
          /\ at \in 0..(MaxSubs + 1) /\ substreams_no \in AllSubs
          /\ tries \in 0..Tries
      BY DEF AllSubs
    <2>7. failed \subseteq AllSubs /\ late \subseteq AllSubs /\ pc = "destroyed"
      OBVIOUS
    <2>. HIDE DEF ssInit
    <2>. QED BY <2>1, <2>2, <2>3, <2>4, <2>5, <2>6, <2>7, SMTT(30) DEF ssTypeOK
  <1>2. Busy = {} /\ Counting = {} /\ Created = {}
    BY DEF Busy, Counting, Created, AllSubs
  <1>3. CountInv
    BY <1>2, FS_EmptySet DEF CountInv
  <1>4. NumberInv /\ FileInv
    BY <1>2 DEF NumberInv, FileInv, AllSubs
  <1>5. StreamInv
    BY DEF StreamInv, Opening, Scanning, AllSubs
  <1>6. ScanInv /\ ReleaseInv /\ MissingExplained
    BY DEF ScanInv, Scanning, Stopped, ReleaseInv, MissingExplained
  <1>. QED BY <1>1, <1>3, <1>4, <1>5, <1>6 DEF ssInv

\* Every step keeps it.
LEMMA ssNextInv == ssInv /\ [ssNext]_ssVars => ssInv'
  <1>. SUFFICES ASSUME ssInv, [ssNext]_ssVars PROVE ssInv'
    OBVIOUS
  <1>1. CASE SubSource
    <2>1. UNCHANGED <<ssManager, ssMonitor>>
      BY <1>1 DEF SubSource
    <2>. QED BY <1>1, <2>1, TakeNumberStep, ControlFailedStep, InitializeStep,
                InitializeFailedStep, CountSubBufferStep, PushStep, DestroySubStep,
                DestroyMainStep
             DEF SubSource
  <1>2. CASE \E k \in AllSubs : SubManager(k)
    BY <1>2, ManagerStep
  <1>3. CASE SubMonitor
    BY <1>3, ReadyStep, CreateSubstreamStep, ConnectStep, ConnectAgainStep,
       ProcessStep, JoinStep, ReleaseStep
    DEF SubMonitor, MonitorStep
  <1>4. CASE UNCHANGED ssVars
    <2>. USE <1>4 DEF ssVars, ssSource, ssShm, ssManager, ssMonitor, ssInv
    <2>1. Busy' = Busy /\ Counting' = Counting /\ Created' = Created
      BY DEF Busy, Counting, Created
    <2>2. ssTypeOK'
      BY DEF ssTypeOK
    <2>3. CountInv' /\ NumberInv' /\ FileInv'
      BY <2>1 DEF CountInv, NumberInv, FileInv
    <2>4. StreamInv' /\ ReleaseInv' /\ MissingExplained'
      BY DEF StreamInv, Opening, Scanning, ReleaseInv, MissingExplained
    <2>5. ScanInv'
      BY DEF ScanInv, Scanning, Stopped, NoneNew, Quiet
    <2>. QED BY <2>2, <2>3, <2>4, <2>5
  <1>. QED BY <1>1, <1>2, <1>3, <1>4 DEF ssNext, monitor_gone

\* So it always holds.
LEMMA ssInvAlways == ssSpec => []ssInv
  BY ssInitInv, ssNextInv, PTL DEF ssSpec

\* When the main buffer is destroyed and as many substreams are known as were
\* counted, the created sub-buffers are the known ones: all of those are created,
\* and no more were created than counted.
LEMMA AllKnown ==
  ASSUME ssInv, Stopped
  PROVE  Created = 1..substreams_no
  <1>. USE SubStreamsAssumption DEF ssInv
  <1>1. /\ substreams_no \in 0..MaxSubs /\ subbuffers_no \in Nat
        /\ subbuffers_no <= substreams_no /\ destroyed[0]
    BY DEF ssTypeOK, ScanInv, NoneNew, AllSubs
  <1>2. Counting = {}
    BY <1>1 DEF FileInv, Counting, Busy
  <1>3. Cardinality(Created) <= substreams_no
    <2>1. Cardinality(Created) <= subbuffers_no + Cardinality(Counting)
      BY DEF CountInv
    <2>2. Cardinality(Created) \in Nat /\ Cardinality(Counting) = 0
      BY <1>2, FS_EmptySet, CountedFinite DEF Created
    <2>. QED BY <1>1, <2>1, <2>2
  <1>4. 1..substreams_no \subseteq Created
    <2>1. \A k \in 1..substreams_no : k \in 1..MaxSubs /\ k \in 0..substreams_no
      BY <1>1
    <2>. QED BY <2>1 DEF Created, StreamInv, Opening, Stopped
  <1>5. Cardinality(1..substreams_no) = substreams_no
    BY <1>1, FS_Interval
  <1>6. IsFiniteSet(Created) /\ Cardinality(Created) \in Nat
    BY CountedFinite DEF Created
  <1>7. Cardinality(1..substreams_no) <= Cardinality(Created)
    BY <1>4, <1>6, FS_Subset
  <1>8. Cardinality(Created) = Cardinality(1..substreams_no)
    BY <1>1, <1>3, <1>5, <1>6, <1>7
  <1>. QED BY <1>4, <1>6, <1>8, FS_Subset

\* Queues keep to their capacity, and no more sub-buffers are counted than numbers
\* were taken.
THEOREM SubStreamsTypeCorrect == ssSpec => []ssTypeOK
  <1>1. ssInv => ssTypeOK
    BY DEF ssInv
  <1>. QED BY <1>1, ssInvAlways, PTL

\* The assertion of vms_stream_create_substream fails only for a number whose
\* creation failed or is under way, for any number of threads and sub-buffers.
THEOREM MissingAlwaysExplained == ssSpec => []MissingExplained
  <1>1. ssInv => MissingExplained
    BY DEF ssInv
  <1>. QED BY <1>1, ssInvAlways, PTL

\* When shamon_is_ready says no, nothing will come any more: the reads it makes one
\* after the other, stream by stream, add up to a snapshot.
THEOREM NotReadyAlwaysMeansDone == ssSpec => []NotReadyMeansDone
  <1>1. ssInv => NotReadyMeansDone
    <2>. SUFFICES ASSUME ssInv, Stopped, NEW k \in AllSubs, file[k] # "none"
                  PROVE  /\ k <= substreams_no /\ mpc[k] # "none"
                         /\ destroyed[k] /\ shm[k] = 0
                         /\ \A i \in DOMAIN arb[k] : arb[k][i] = "hole"
      BY DEF NotReadyMeansDone
    <2>1. substreams_no \in 0..MaxSubs /\ arb[k] \in Seq({"event", "hole"})
      BY DEF ssInv, ssTypeOK, AllSubs
    <2>2. k \in 0..substreams_no
      <3>1. CASE k = 0
        BY <3>1, <2>1
      <3>2. CASE k # 0
        <4>1. k \in 1..MaxSubs
          BY <3>2 DEF AllSubs
        <4>2. k \in 1..substreams_no
          BY <4>1, AllKnown DEF Created
        <4>. QED BY <4>2, <2>1
      <3>. QED BY <3>1, <3>2
    <2>3. mpc[k] # "none"
      BY <2>2 DEF ssInv, StreamInv, Opening, Stopped
    <2>4. Quiet(k)
      BY <2>2 DEF ssInv, ScanInv
    <2>5. DOMAIN arb[k] = 1..Len(arb[k])
      BY <2>1, LenProperties
    <2>. QED BY <2>1, <2>2, <2>3, <2>4, <2>5 DEF Quiet
  <1>. QED BY <1>1, ssInvAlways, PTL

\* shamon_destroy unlinks the file of every sub-buffer that was ever created.
THEOREM NeverFilesLeft == ssSpec => []NoFilesLeft
  <1>1. ssInv => NoFilesLeft
    <2>. SUFFICES ASSUME ssInv, pc = "ended", NEW k \in AllSubs
                  PROVE  file[k] # "there"
      BY DEF NoFilesLeft
    <2>1. CASE k = 0
      BY <2>1 DEF ssInv, ScanInv, Stopped, NoneNew, FileInv
    <2>2. CASE k # 0
      <3>1. k \in 1..MaxSubs
        BY <2>2 DEF AllSubs
      <3>2. k \in Created => k \in 1..substreams_no
        BY AllKnown DEF Stopped
      <3>. QED BY <3>1, <3>2 DEF Created, ssInv, ReleaseInv
    <2>. QED BY <2>1, <2>2
  <1>. QED BY <1>1, ssInvAlways, PTL

-----------------------------------------------------------------------------
(* Numbers: the least one, which stands for induction.                     *)

\* A nonempty set of numbers has a least one.
LEMMA LeastNumber ==
  ASSUME NEW T \in SUBSET Nat, T # {}
  PROVE  \E x \in T : \A y \in T : x <= y
  <1>. DEFINE R == {p \in Nat \X Nat : p[1] < p[2]}
  <1>1. IsWellFoundedOn(R, Nat)
    BY NatLessThanWellFounded DEF OpToRel
  <1>2. PICK x \in T : \A y \in T : ~(<<y, x>> \in R)
    <2>. HIDE DEF R
    <2>. QED BY <1>1, WFMin
  <1>3. ASSUME NEW y \in T PROVE x <= y
    <2>1. <<y, x>> \in Nat \X Nat
      BY <1>2
    <2>. QED BY <1>2, <2>1
  <1>. QED BY <1>2, <1>3

\* Place i is the first one, or the last one, of the value v in f[1..n].
FirstAt(f, n, v, i) == i \in 1..n /\ f[i] = v /\ \A j \in 1..(i - 1) : f[j] # v
LastAt(f, n, v, i) == i \in 1..n /\ f[i] = v /\ \A j \in (i + 1)..n : f[j] # v

\* A value that occurs has a first place, and a last one.
LEMMA FirstPlace ==
  ASSUME NEW n \in Nat, NEW f, NEW v, NEW k \in 1..n, f[k] = v
  PROVE  \E i : FirstAt(f, n, v, i)
  <1>. DEFINE T == {i \in 1..n : f[i] = v}
  <1>1. T \in SUBSET Nat /\ T # {}
    OBVIOUS
  <1>2. PICK x \in T : \A y \in T : x <= y
    BY <1>1, LeastNumber
  <1>3. FirstAt(f, n, v, x)
    BY <1>2 DEF FirstAt
  <1>. QED BY <1>3

\* A value that occurs has a last place.
LEMMA LastPlace ==
  ASSUME NEW n \in Nat, NEW f, NEW v, NEW k \in 1..n, f[k] = v
  PROVE  \E i : LastAt(f, n, v, i)
  <1>. DEFINE T == {m \in 0..n : n - m \in 1..n /\ f[n - m] = v}
  <1>1. T \in SUBSET Nat /\ T # {}
    <2>1. n - k \in 0..n /\ n - (n - k) = k
      OBVIOUS
    <2>2. n - k \in T
      BY <2>1
    <2>. QED BY <2>2
  <1>2. PICK m \in T : \A y \in T : m <= y
    BY <1>1, LeastNumber
  <1>3. ASSUME NEW j \in ((n - m) + 1)..n, f[j] = v PROVE FALSE
    <2>1. n - j \in 0..n /\ n - (n - j) = j /\ j \in 1..n /\ n - j < m
      BY <1>2
    <2>2. n - j \in T
      BY <1>3, <2>1
    <2>. QED BY <1>2, <2>1, <2>2
  <1>4. LastAt(f, n, v, n - m)
    BY <1>2, <1>3 DEF LastAt
  <1>. QED BY <1>4

\* Induction from a to n, for a set G of numbers.
LEMMA Induct ==
  ASSUME NEW a \in Nat, NEW n \in Nat, NEW G, a \in G,
         \A m \in a..(n - 1) : m \in G => m + 1 \in G
  PROVE  \A m \in a..n : m \in G
  <1>. DEFINE T == {m \in a..n : m \notin G}
  <1>1. CASE T = {}
    BY <1>1
  <1>2. CASE T # {}
    <2>1. T \in SUBSET Nat
      OBVIOUS
    <2>2. PICK m \in T : \A y \in T : m <= y
      BY <1>2, <2>1, LeastNumber
    <2>3. m - 1 \in a..(n - 1) /\ (m - 1) + 1 = m /\ m - 1 \notin T
      BY <2>2
    <2>. QED BY <2>2, <2>3
  <1>. QED BY <1>1, <1>2

\* A nonempty sequence of numbers has a largest one.
LEMMA LargestValue ==
  ASSUME NEW n \in Nat \ {0}, NEW f \in [1..n -> Nat]
  PROVE  \E i \in 1..n : \A j \in 1..n : f[j] <= f[i]
  <1>. DEFINE G == {m \in 1..n : \E i \in 1..m : \A j \in 1..m : f[j] <= f[i]}
  <1>1. 1 \in G
    OBVIOUS
  <1>2. ASSUME NEW m \in 1..(n - 1), m \in G PROVE m + 1 \in G
    <2>1. PICK i \in 1..m : \A j \in 1..m : f[j] <= f[i]
      BY <1>2
    <2>2. CASE f[m + 1] <= f[i]
      <3>1. \A j \in 1..(m + 1) : f[j] <= f[i]
        BY <2>1, <2>2
      <3>. QED BY <3>1, <2>1
    <2>3. CASE ~(f[m + 1] <= f[i])
      <3>1. \A j \in 1..(m + 1) : f[j] <= f[m + 1]
        BY <2>1, <2>3
      <3>. QED BY <3>1
    <2>. QED BY <2>2, <2>3
  <1>3. n \in G
    <2>1. \A m \in 1..(n - 1) : m \in G => m + 1 \in G
      BY <1>2
    <2>. HIDE DEF G
    <2>2. \A m \in 1..n : m \in G
      BY <1>1, <2>1, Induct
    <2>. QED BY <2>2
  <1>. QED BY <1>3

-----------------------------------------------------------------------------
(* The table of a source's events: registration and lookup.                *)

\* The cache is filled once, from kinds that do not change afterwards, and
\* nothing is looked up without it.
CacheInv ==
  /\ ~LateRegistration /\ kinds \in Seq(Nat)
  /\ cache # NoCache => scpc = "defined" /\ cache = NewCache
  /\ found.kind # 0 => cache # NoCache

lookupInv == CacheInv /\ LookupRight

\* The loops of both lookups find a record that has the kind.
LEMMA LookupLoops ==
  ASSUME kinds \in Seq(Nat), NEW kind, Registered(kind)
  PROVE  /\ LastRecord(kind) \in DOMAIN kinds /\ kinds[LastRecord(kind)] = kind
         /\ get_event_record_no_cache(kind) \in DOMAIN kinds
         /\ kinds[get_event_record_no_cache(kind)] = kind
  <1>1. Len(kinds) \in Nat /\ DOMAIN kinds = 1..Len(kinds)
    OBVIOUS
  <1>2. PICK k \in 1..Len(kinds) : kinds[k] = kind
    BY <1>1 DEF Registered
  <1>3. \E i \in DOMAIN kinds :
          kinds[i] = kind /\ \A j \in (i + 1)..Len(kinds) : kinds[j] # kind
    <2>1. \E i : LastAt(kinds, Len(kinds), kind, i)
      BY <1>1, <1>2, LastPlace
    <2>. QED BY <1>1, <2>1 DEF LastAt
  <1>4. \E i \in DOMAIN kinds :
          kinds[i] = kind /\ \A j \in 1..(i - 1) : kinds[j] # kind
    <2>1. \E i : FirstAt(kinds, Len(kinds), kind, i)
      BY <1>1, <1>2, FirstPlace
    <2>. QED BY <1>1, <2>1 DEF FirstAt
  <1>5. LastRecord(kind) \in DOMAIN kinds /\ kinds[LastRecord(kind)] = kind
    BY <1>3 DEF LastRecord
  <1>6. /\ get_event_record_no_cache(kind) \in DOMAIN kinds
        /\ kinds[get_event_record_no_cache(kind)] = kind
    BY <1>4 DEF get_event_record_no_cache
  <1>. QED BY <1>5, <1>6

\* The cache has a place for every registered kind below its limit, and is not
\* empty.
LEMMA CacheCovers ==
  ASSUME kinds \in Seq(Nat), NEW kind \in Nat, Registered(kind)
  PROVE  /\ kind < CacheSize => kind \in 0..CacheTop
         /\ NewCache # NoCache
  <1>. USE ControlAssumption
  <1>. DEFINE ks == {kinds[i] : i \in DOMAIN kinds}
  <1>1. Len(kinds) \in Nat \ {0} /\ kinds \in [1..Len(kinds) -> Nat]
    BY DEF Registered
  <1>2. PICK i \in 1..Len(kinds) : \A j \in 1..Len(kinds) : kinds[j] <= kinds[i]
    BY <1>1, LargestValue
  <1>3. \E k \in ks : \A l \in ks : l <= k
    BY <1>1, <1>2
  <1>4. MaxKind \in ks /\ \A l \in ks : l <= MaxKind
    BY <1>3 DEF MaxKind
  <1>5. MaxKind \in Nat /\ kind <= MaxKind
    BY <1>1, <1>4 DEF Registered
  <1>6. CacheTop \in Nat /\ (kind < CacheSize => kind <= CacheTop)
    BY <1>5 DEF CacheTop
  <1>7. 0 \in DOMAIN NewCache
    BY <1>6 DEF NewCache
  <1>8. 0 \notin DOMAIN NoCache
    BY DEF NoCache
  <1>. QED BY <1>6, <1>7, <1>8

\* A lookup, through the loop or the cache, returns the record of the kind.
LEMMA LookupStep ==
  ASSUME lookupInv, NEW kind \in Kinds, get_event_record(kind)
  PROVE  lookupInv'
  <1>. USE DEF lookupInv, CacheInv
  <1>1. /\ scpc = "defined" /\ Registered(kind) /\ scpc' = scpc /\ kinds' = kinds
        /\ cache' = IF cache = NoCache THEN NewCache ELSE cache
        /\ found' = [kind |-> kind,
               rec |-> CASE cache = NoCache -> LastRecord(kind)
                         [] cache # NoCache /\ kind >= CacheSize ->
                              get_event_record_no_cache(kind)
                         [] cache # NoCache /\ kind < CacheSize ->
                              IF kind \in DOMAIN cache THEN cache[kind]
                              ELSE Garbage]
    BY DEF get_event_record
  <1>2. kind \in Nat \ {0} /\ CacheSize \in Nat
    BY ControlAssumption
  <1>3. /\ LastRecord(kind) \in DOMAIN kinds /\ kinds[LastRecord(kind)] = kind
        /\ get_event_record_no_cache(kind) \in DOMAIN kinds
        /\ kinds[get_event_record_no_cache(kind)] = kind
    BY <1>1, LookupLoops
  <1>4. /\ kind < CacheSize => kind \in 0..CacheTop
        /\ NewCache # NoCache
    BY <1>1, <1>2, CacheCovers
  <1>5. found'.kind = kind /\ found'.rec \in DOMAIN kinds /\ kinds[found'.rec] = kind
    <2>1. CASE cache = NoCache
      <3>1. found' = [kind |-> kind, rec |-> LastRecord(kind)]
        BY <1>1, <2>1
      <3>. QED BY <3>1, <1>3
    <2>2. CASE cache # NoCache /\ kind >= CacheSize
      <3>1. found' = [kind |-> kind, rec |-> get_event_record_no_cache(kind)]
        BY <1>1, <1>2, <2>2
      <3>. QED BY <3>1, <1>3
    <2>3. CASE cache # NoCache /\ kind < CacheSize
      <3>1. /\ kind \in DOMAIN NewCache /\ NewCache[kind] = LastRecord(kind)
            /\ cache = NewCache
        BY <1>1, <1>4, <2>3 DEF NewCache
      <3>2. ~(kind >= CacheSize)
        BY <1>2, <2>3
      <3>3. found' = [kind |-> kind, rec |-> cache[kind]]
        BY <1>1, <2>3, <3>1, <3>2
      <3>. QED BY <3>1, <3>3, <1>3
    <2>. QED BY <1>2, <2>1, <2>2, <2>3
  <1>6. NewCache' = NewCache
    BY <1>1 DEF NewCache, CacheTop, MaxKind, Registered, LastRecord
  <1>7. cache' = NewCache
    BY <1>1
  <1>. QED BY <1>1, <1>4, <1>5, <1>6, <1>7 DEF LookupRight, NoCache

\* Nothing else changes the kinds of a table that is in use.
LEMMA lookupNextInv == lookupInv /\ [controlNext]_controlVars => lookupInv'
  <1>. SUFFICES ASSUME lookupInv, [controlNext]_controlVars PROVE lookupInv'
    OBVIOUS
  <1>. USE ControlAssumption DEF lookupInv, CacheInv
  <1>1. ASSUME UNCHANGED lookupVars, scpc = "defined" => scpc' = "defined"
        PROVE  lookupInv'
    <2>1. NewCache' = NewCache
      BY <1>1 DEF lookupVars, NewCache, CacheTop, MaxKind, Registered, LastRecord
    <2>. QED BY <1>1, <2>1 DEF lookupVars, LookupRight, NoCache
  <1>2. ASSUME cache = NoCache, kinds' \in Seq(Nat), UNCHANGED <<cache, found>>
        PROVE  lookupInv'
    BY <1>2 DEF LookupRight, NoCache
  <1>a. ASSUME cache = NoCache, kinds' \in Seq(Nat), cache' = cache, found' = NoLookup
        PROVE  lookupInv'
    BY <1>a DEF LookupRight, NoCache, NoLookup
  <1>3. ASSUME NEW s \in Strings, input(s) PROVE lookupInv'
    BY <1>1, <1>3 DEF input, lookupVars
  <1>4. CASE count_events
    BY <1>1, <1>4 DEF count_events
  <1>5. CASE first_event
    BY <1>1, <1>5 DEF first_event
  <1>6. CASE init_record_abort
    BY <1>1, <1>6 DEF init_record_abort
  <1>7. CASE init_record
    <2>1. cache = NoCache /\ kinds' = Append(kinds, 0) /\ UNCHANGED <<cache, found>>
      BY <1>7 DEF init_record
    <2>. QED BY <1>2, <2>1
  <1>8. ASSUME NEW i \in 1..MaxLen, NEW kind \in Kinds, register_event(i, kind)
        PROVE  lookupInv'
    <2>1. /\ cache = NoCache /\ cache' = cache /\ found' = NoLookup
          /\ kinds' = [kinds EXCEPT ![get_event(Name(i))] = kind]
      BY <1>8 DEF register_event, MayRegister
    <2>2. kinds' \in Seq(Nat)
      <3>1. kinds \in [1..Len(kinds) -> Nat] /\ Len(kinds) \in Nat /\ kind \in Nat
        OBVIOUS
      <3>2. kinds' \in [1..Len(kinds) -> Nat]
        BY <2>1, <3>1
      <3>. QED BY <3>1, <3>2, SeqDef
    <2>. QED BY <1>a, <2>1, <2>2
  <1>9. CASE register_all_events
    <2>1. /\ cache = NoCache /\ cache' = cache /\ found' = NoLookup
          /\ kinds' = [i \in DOMAIN kinds |-> i + LastSpecial]
      BY <1>9 DEF register_all_events, MayRegister
    <2>2. kinds' \in Seq(Nat)
      <3>1. DOMAIN kinds = 1..Len(kinds) /\ Len(kinds) \in Nat
        OBVIOUS
      <3>2. kinds' \in [1..Len(kinds) -> Nat]
        BY <2>1, <3>1
      <3>. QED BY <3>1, <3>2, SeqDef
    <2>. QED BY <1>a, <2>1, <2>2
  <1>10. ASSUME NEW kind \in Kinds, get_event_record(kind) PROVE lookupInv'
    BY <1>10, LookupStep
  <1>11. CASE refused
    BY <1>1, <1>11 DEF refused, controlVars
  <1>12. CASE UNCHANGED controlVars
    BY <1>1, <1>12 DEF controlVars
  <1>. QED BY <1>3, <1>4, <1>5, <1>6, <1>7, <1>8, <1>9, <1>10, <1>11, <1>12
       DEF controlNext

\* If a reader registers its events before it looks one up, a lookup finds an
\* event that is registered with the kind, for tables and caches of any size:
\* the cache has a place for every kind that is looked up in it.
THEOREM LookupAlwaysRight == controlSpec /\ ~LateRegistration => []LookupRight
  <1>1. controlInit /\ ~LateRegistration => lookupInv
    BY DEF controlInit, lookupInv, CacheInv, LookupRight, NoLookup
  <1>2. lookupInv => LookupRight
    BY DEF lookupInv
  <1>. QED BY <1>1, <1>2, lookupNextInv, PTL DEF controlSpec

-----------------------------------------------------------------------------
(* The table of a source's events: the string it is made from.             *)

\* The first element of S from a on, and the last one up to b.
LEMMA NextIn ==
  ASSUME NEW a \in Int, NEW b \in Int, NEW S, \E i \in a..b : i \in S
  PROVE  \E i \in a..b : i \in S /\ \A j \in a..(i - 1) : j \notin S
  <1>. DEFINE T == {t \in 0..(b - a) : a + t \in S}
  <1>1. PICK i \in a..b : i \in S
    OBVIOUS
  <1>2. i - a \in 0..(b - a) /\ a + (i - a) = i
    OBVIOUS
  <1>3. T \in SUBSET Nat /\ T # {}
    <2>1. i - a \in T
      BY <1>1, <1>2
    <2>2. \A t \in T : t \in Nat
      OBVIOUS
    <2>. QED BY <2>1, <2>2
  <1>4. PICK m \in T : \A y \in T : m <= y
    BY <1>3, LeastNumber
  <1>5. a + m \in a..b /\ a + m \in S
    BY <1>4
  <1>6. ASSUME NEW j \in a..((a + m) - 1), j \in S PROVE FALSE
    <2>1. j - a \in 0..(b - a) /\ a + (j - a) = j /\ j - a < m
      BY <1>4
    <2>. QED BY <1>4, <1>6, <2>1
  <1>. QED BY <1>5, <1>6

\* A nonempty part of an interval has a last element, too.
LEMMA PrevIn ==
  ASSUME NEW a \in Int, NEW b \in Int, NEW S, \E i \in a..b : i \in S
  PROVE  \E i \in a..b : i \in S /\ \A j \in (i + 1)..b : j \notin S
  <1>. DEFINE T == {t \in 0..(b - a) : b - t \in S}
  <1>1. PICK i \in a..b : i \in S
    OBVIOUS
  <1>2. b - i \in 0..(b - a) /\ b - (b - i) = i
    OBVIOUS
  <1>3. T \in SUBSET Nat /\ T # {}
    <2>1. b - i \in T
      BY <1>1, <1>2
    <2>2. \A t \in T : t \in Nat
      OBVIOUS
    <2>. QED BY <2>1, <2>2
  <1>4. PICK m \in T : \A y \in T : m <= y
    BY <1>3, LeastNumber
  <1>5. b - m \in a..b /\ b - m \in S
    BY <1>4
  <1>6. ASSUME NEW j \in ((b - m) + 1)..b, j \in S PROVE FALSE
    <2>1. b - j \in 0..(b - a) /\ b - (b - j) = j /\ b - j < m
      BY <1>4
    <2>. QED BY <1>4, <1>6, <2>1
  <1>. QED BY <1>5, <1>6

\* The string is a sequence of characters.
Chars == Letters \cup {Colon, Comma}
StrOK == str \in Seq(Chars)

\* The characters of the string and the place of its terminator.
LEMMA StrFacts ==
  ASSUME StrOK
  PROVE  Len(str) \in Nat /\ DOMAIN str = 1..Len(str) /\ End \in Nat /\ End = Len(str) + 1
  <1>1. Len(str) \in Nat /\ DOMAIN str = 1..Len(str)
    BY DEF StrOK
  <1>. QED BY <1>1 DEF End

\* strchr returns NULL or the first place of the character.
LEMMA StrchrRight ==
  ASSUME StrOK, NEW from \in Nat \ {0}, NEW ch
  PROVE  \/ strchr(from, ch) = 0 /\ \A i \in from..Len(str) : str[i] # ch
         \/ /\ strchr(from, ch) \in from..Len(str) /\ str[strchr(from, ch)] = ch
            /\ \A j \in from..(strchr(from, ch) - 1) : str[j] # ch
  <1>. DEFINE S == {i \in from..Len(str) : str[i] = ch}
  <1>1. CASE \E i \in from..Len(str) : str[i] = ch
    <2>1. \E i \in from..Len(str) : i \in S
      BY <1>1
    <2>2. \E i \in from..Len(str) : i \in S /\ \A j \in from..(i - 1) : j \notin S
      <3>. HIDE DEF S
      <3>1. from \in Int /\ Len(str) \in Int
        BY StrFacts
      <3>. QED BY <2>1, <3>1, NextIn
    <2>3. \E i \in from..Len(str) : str[i] = ch /\ \A j \in from..(i - 1) : str[j] # ch
      <3>1. PICK i \in from..Len(str) : i \in S /\ \A j \in from..(i - 1) : j \notin S
        BY <2>2
      <3>2. \A j \in from..(i - 1) : j \in from..Len(str)
        BY StrFacts
      <3>. QED BY <3>1, <3>2
    <2>. QED BY <1>1, <2>3 DEF strchr
  <1>2. CASE ~\E i \in from..Len(str) : str[i] = ch
    BY <1>2 DEF strchr
  <1>. QED BY <1>1, <1>2

\* The places of a character up to k.
Upto(ch, k) == {i \in DOMAIN str : str[i] = ch /\ i <= k}

\* The places are finitely many.
LEMMA UptoFinite ==
  ASSUME StrOK, NEW ch, NEW k \in Int
  PROVE  IsFiniteSet(Upto(ch, k)) /\ Cardinality(Upto(ch, k)) \in Nat
  <1>1. IsFiniteSet(1..Len(str))
    BY StrFacts, FS_Interval
  <1>2. Upto(ch, k) \in SUBSET (1..Len(str))
    BY StrFacts DEF Upto
  <1>3. IsFiniteSet(Upto(ch, k))
    BY <1>1, <1>2, FS_Subset
  <1>. QED BY <1>3, FS_CardinalityType

\* Up to the end of the string all of them are counted.
LEMMA UptoAll ==
  ASSUME StrOK, NEW ch, NEW k \in Int, k >= Len(str)
  PROVE  Cardinality(Upto(ch, k)) = Count(ch)
  <1>1. Upto(ch, k) = {i \in DOMAIN str : str[i] = ch}
    BY StrFacts DEF Upto
  <1>. QED BY <1>1 DEF Count

\* There are none up to 0.
LEMMA UptoNone ==
  ASSUME StrOK, NEW ch
  PROVE  Cardinality(Upto(ch, 0)) = 0
  <1>1. Upto(ch, 0) = {}
    BY StrFacts DEF Upto
  <1>. QED BY <1>1, FS_EmptySet

\* One place after k is one more.
LEMMA UptoOneMore ==
  ASSUME StrOK, NEW ch, NEW k \in Nat, NEW l \in Nat, NEW c \in (k + 1)..l,
         c \in DOMAIN str, str[c] = ch,
         \A j \in (k + 1)..l : j \in DOMAIN str /\ str[j] = ch => j = c
  PROVE  Cardinality(Upto(ch, l)) = Cardinality(Upto(ch, k)) + 1
  <1>1. Upto(ch, l) = Upto(ch, k) \cup {c} /\ c \notin Upto(ch, k)
    BY StrFacts DEF Upto
  <1>2. IsFiniteSet(Upto(ch, k))
    BY UptoFinite
  <1>3. Cardinality(Upto(ch, k) \cup {c}) = Cardinality(Upto(ch, k)) + 1
    BY <1>1, <1>2, FS_AddElement
  <1>. QED BY <1>1, <1>3

\* No place after k leaves the number as it is.
LEMMA UptoSame ==
  ASSUME StrOK, NEW ch, NEW k \in Nat, NEW l \in Nat, k <= l,
         \A j \in (k + 1)..l : j \in DOMAIN str => str[j] # ch
  PROVE  Cardinality(Upto(ch, l)) = Cardinality(Upto(ch, k))
  <1>1. Upto(ch, l) = Upto(ch, k)
    BY StrFacts DEF Upto
  <1>. QED BY <1>1

\* A colon behind k is not among those up to k.
LEMMA UptoLess ==
  ASSUME StrOK, NEW ch, NEW k \in Nat, NEW c \in (k + 1)..Len(str), str[c] = ch
  PROVE  Cardinality(Upto(ch, k)) < Count(ch)
  <1>. DEFINE A == Upto(ch, k)
              B == Upto(ch, Len(str))
  <1>1. A \in SUBSET B /\ A # B /\ c \in B
    BY StrFacts DEF Upto
  <1>2. IsFiniteSet(B) /\ Cardinality(B) \in Nat /\ Cardinality(A) \in Nat
    BY StrFacts, UptoFinite
  <1>3. Cardinality(A) <= Cardinality(B) /\ Cardinality(A) # Cardinality(B)
    <2>. HIDE DEF A, B
    <2>. QED BY <1>1, <1>2, FS_Subset
  <1>4. Cardinality(B) = Count(ch)
    BY StrFacts, UptoAll
  <1>. QED BY <1>2, <1>3, <1>4
-----------------------------------------------------------------------------
(* The format.                                                             *)

\* The parts in terms of their bounds.
PartOf(a, b) ==
  /\ a \in Bounds /\ b \in Bounds /\ a < b
  /\ \A c \in Bounds : ~(a < c /\ c < b)
  /\ ~(b = End /\ a + 1 = b /\ a > 0)

\* What makes two bounds a part.
LEMMA PartIff ==
  ASSUME NEW a, NEW b
  PROVE  <<a, b>> \in Parts <=> PartOf(a, b)
  BY DEF Parts, PartOf

\* A part is a pair of bounds.
LEMMA PartIsPair ==
  ASSUME NEW p \in Parts
  PROVE  p = <<p[1], p[2]>> /\ PartOf(p[1], p[2])
  BY DEF Parts, PartOf

\* Bounds are the commas and the two ends.
LEMMA BoundFacts ==
  ASSUME StrOK
  PROVE  /\ 0 \in Bounds /\ End \in Bounds
         /\ \A b \in Bounds : b \in 0..End
         /\ \A b \in Bounds : b # 0 /\ b # End => b \in 1..Len(str) /\ str[b] = Comma
         /\ \A i \in 1..Len(str) : i \in Bounds <=> str[i] = Comma
  <1>1. 0 \in Bounds /\ End \in Bounds
    BY DEF Bounds
  <1>2. \A b \in Bounds : b = 0 \/ b = End \/ (b \in 1..Len(str) /\ str[b] = Comma)
    BY StrFacts DEF Bounds
  <1>3. \A b \in Bounds : b \in 0..End
    BY <1>2, StrFacts
  <1>4. \A i \in 1..Len(str) : i # 0 /\ i # End
    BY StrFacts
  <1>5. \A i \in 1..Len(str) : i \in Bounds <=> str[i] = Comma
    BY <1>4, StrFacts DEF Bounds
  <1>. QED BY <1>1, <1>2, <1>3, <1>5

\* After each place there is a next bound.
LEMMA NextBound ==
  ASSUME StrOK, NEW a \in 0..Len(str)
  PROVE  \E b \in (a + 1)..End : b \in Bounds /\ \A c \in Bounds : ~(a < c /\ c < b)
  <1>1. \E i \in (a + 1)..End : i \in Bounds
    BY StrFacts, BoundFacts
  <1>2. PICK i \in (a + 1)..End : i \in Bounds /\ \A j \in (a + 1)..(i - 1) : j \notin Bounds
    <2>1. a + 1 \in Int /\ End \in Int
      BY StrFacts
    <2>. QED BY <1>1, <2>1, NextIn
  <1>. QED BY <1>2, StrFacts, BoundFacts

\* Before each place there is a last bound.
LEMMA PrevBound ==
  ASSUME StrOK, NEW b \in 1..End
  PROVE  \E a \in 0..(b - 1) : a \in Bounds /\ \A c \in Bounds : ~(a < c /\ c < b)
  <1>1. \E i \in 0..(b - 1) : i \in Bounds
    BY StrFacts, BoundFacts
  <1>2. PICK i \in 0..(b - 1) : i \in Bounds /\ \A j \in (i + 1)..(b - 1) : j \notin Bounds
    <2>. DEFINE z == 0
                y == b - 1
    <2>1. z \in Int /\ y \in Int /\ \E i \in z..y : i \in Bounds
      BY <1>1, StrFacts
    <2>. HIDE DEF z, y
    <2>2. \E i \in z..y : i \in Bounds /\ \A j \in (i + 1)..y : j \notin Bounds
      BY <2>1, PrevIn
    <2>. QED BY <2>2 DEF z, y
  <1>. QED BY <1>2, StrFacts, BoundFacts

\* Every place that has no comma lies in a part.
LEMMA InPart ==
  ASSUME StrOK, NEW i \in 1..Len(str), str[i] # Comma
  PROVE  \E a, b \in Bounds : <<a, b>> \in Parts /\ a < i /\ i < b
  <1>1. PICK a \in 0..(i - 1) : a \in Bounds /\ \A c \in Bounds : ~(a < c /\ c < i)
    BY StrFacts, PrevBound
  <1>2. PICK b \in (i + 1)..End : b \in Bounds /\ \A c \in Bounds : ~(i < c /\ c < b)
    BY StrFacts, NextBound
  <1>3. i \notin Bounds
    BY BoundFacts
  <1>4. \A c \in Bounds : ~(a < c /\ c < b)
    BY <1>1, <1>2, <1>3, BoundFacts, StrFacts
  <1>5. PartOf(a, b)
    BY <1>1, <1>2, <1>4, StrFacts DEF PartOf
  <1>. QED BY <1>1, <1>2, <1>5, PartIff, StrFacts

\* Two parts that share a place are the same.
LEMMA PartsApart ==
  ASSUME StrOK, NEW a, NEW b, NEW c, NEW d, <<a, b>> \in Parts, <<c, d>> \in Parts,
         NEW i \in Int, a < i, i < b, c < i, i < d
  PROVE  a = c /\ b = d
  <1>1. PartOf(a, b) /\ PartOf(c, d)
    BY PartIff
  <1>2. a \in Int /\ b \in Int /\ c \in Int /\ d \in Int
    BY <1>1, BoundFacts DEF PartOf
  <1>. QED BY <1>1, <1>2 DEF PartOf

\* Each part of a string in the format has one colon.
LEMMA PartColon ==
  ASSUME StrOK, WellFormed, NEW a, NEW b, <<a, b>> \in Parts
  PROVE  \E c \in (a + 1)..(b - 1) :
           /\ c \in 1..Len(str) /\ str[c] = Colon
           /\ \A d \in (a + 1)..(b - 1) : str[d] = Colon => d = c
  <1>. DEFINE C == {i \in (a + 1)..(b - 1) : str[i] = Colon}
  <1>1. a \in 0..End /\ b \in 0..End
    BY PartIff, BoundFacts DEF PartOf
  <1>2. Cardinality(C) = 1
    BY DEF WellFormed
  <1>3. IsFiniteSet((a + 1)..(b - 1)) /\ C \in SUBSET ((a + 1)..(b - 1))
    <2>1. a + 1 \in Int /\ b - 1 \in Int
      BY <1>1, StrFacts
    <2>. QED BY <2>1, FS_Interval
  <1>4. IsFiniteSet(C)
    BY <1>3, FS_Subset
  <1>5. PICK c : C = {c}
    <2>. HIDE DEF C
    <2>. QED BY <1>2, <1>4, FS_Singleton
  <1>6. c \in C /\ \A d \in C : d = c
    BY <1>5
  <1>7. (a + 1)..(b - 1) \subseteq 1..Len(str)
    BY <1>1, StrFacts
  <1>. QED BY <1>6, <1>7

\* A part is under way and its colon has been met.
Open(k) == \E c \in 1..k : str[c] = Colon /\ \A j \in c..k : str[j] # Comma

\* The two characters differ.
LEMMA ColonNotComma == Colon # Comma
  BY Zenon DEF Colon, Comma

\* Up to each place of a string in the format there is a colon for each comma,
\* and one more if a part is under way.
LEMMA CountsUpto ==
  ASSUME StrOK, WellFormed, NEW k \in 0..Len(str)
  PROVE  Cardinality(Upto(Colon, k)) =
           Cardinality(Upto(Comma, k)) + (IF Open(k) THEN 1 ELSE 0)
  <1>. DEFINE cl(m) == Cardinality(Upto(Colon, m))
              cm(m) == Cardinality(Upto(Comma, m))
              G == {m \in 0..Len(str) : cl(m) = cm(m) + (IF Open(m) THEN 1 ELSE 0)}
  <1>1. 0 \in G
    <2>1. cl(0) = 0 /\ cm(0) = 0
      BY UptoNone
    <2>2. ~Open(0)
      BY DEF Open
    <2>. QED BY StrFacts, <2>1, <2>2
  <1>2. ASSUME NEW m \in 0..(Len(str) - 1), m \in G PROVE m + 1 \in G
    <2>0. /\ m \in Nat /\ m + 1 \in 1..Len(str) /\ m + 1 \in 0..Len(str) /\ m + 1 \in Nat
          /\ \A j \in (m + 1)..(m + 1) : j = m + 1
          /\ cl(m) \in Nat /\ cm(m) \in Nat
      BY StrFacts, UptoFinite
    <2>1. cl(m) = cm(m) + (IF Open(m) THEN 1 ELSE 0)
      BY <1>2
    <2>. HIDE DEF G
    <2>2. CASE str[m + 1] = Colon
      <3>1. cl(m + 1) = cl(m) + 1
        BY StrFacts, <2>0, <2>2, UptoOneMore
      <3>2. cm(m + 1) = cm(m)
        BY StrFacts, <2>0, <2>2, UptoSame, ColonNotComma
      <3>3. Open(m + 1)
        BY <2>0, <2>2, ColonNotComma DEF Open
      <3>4. ASSUME Open(m) PROVE FALSE
        <4>1. PICK c \in 1..m : str[c] = Colon /\ \A j \in c..m : str[j] # Comma
          BY <3>4 DEF Open
        <4>2. c \in 1..Len(str) /\ str[c] # Comma
          BY StrFacts, <4>1, ColonNotComma
        <4>3. PICK a, b \in Bounds : <<a, b>> \in Parts /\ a < c /\ c < b
          BY <4>2, InPart
        <4>4. a \in 0..End /\ b \in 0..End
          BY BoundFacts, <4>3
        <4>5. \A j \in c..(m + 1) : j # b
          <5>1. ASSUME NEW j \in c..(m + 1), j = b PROVE FALSE
            <6>1. b \in 1..Len(str) /\ str[b] = Comma
              BY BoundFacts, StrFacts, <2>0, <4>4, <5>1
            <6>2. b \in c..m \/ b = m + 1
              BY <5>1, <2>0
            <6>. QED BY <6>1, <6>2, <4>1, <2>2, ColonNotComma
          <5>. QED BY <5>1
        <4>6. b > m + 1
          <5>1. b \notin c..(m + 1)
            BY <4>5
          <5>. QED BY <5>1, <4>3, <4>4, <2>0, StrFacts
        <4>7. c \in (a + 1)..(b - 1) /\ m + 1 \in (a + 1)..(b - 1) /\ c # m + 1
          BY <4>1, <4>3, <4>4, <4>6, <2>0, StrFacts
        <4>8. PICK d \in (a + 1)..(b - 1) :
                \A e \in (a + 1)..(b - 1) : str[e] = Colon => e = d
          BY <4>3, PartColon
        <4>. QED BY <4>1, <4>7, <4>8, <2>2
      <3>. QED BY <2>0, <2>1, <3>1, <3>2, <3>3, <3>4 DEF G
    <2>3. CASE str[m + 1] = Comma
      <3>1. cl(m + 1) = cl(m)
        BY StrFacts, <2>0, <2>3, UptoSame, ColonNotComma
      <3>2. cm(m + 1) = cm(m) + 1
        BY StrFacts, <2>0, <2>3, UptoOneMore
      <3>3. ~Open(m + 1)
        BY <2>0, <2>3 DEF Open
      <3>4. Open(m)
        <4>1. m + 1 \in Bounds /\ m + 1 # End /\ m + 1 \in 1..End
          BY BoundFacts, StrFacts, <2>0, <2>3
        <4>2. PICK a \in 0..m : a \in Bounds /\ \A c \in Bounds : ~(a < c /\ c < m + 1)
          <5>1. (m + 1) - 1 = m
            BY <2>0
          <5>. QED BY <4>1, <5>1, PrevBound
        <4>3. <<a, m + 1>> \in Parts
          <5>1. PartOf(a, m + 1)
            BY <4>1, <4>2, <2>0 DEF PartOf
          <5>. QED BY <5>1, PartIff
        <4>4. PICK c \in (a + 1)..((m + 1) - 1) : c \in 1..Len(str) /\ str[c] = Colon
          BY <4>3, PartColon
        <4>5. c \in 1..m
          BY <4>2, <4>4, <2>0
        <4>6. ASSUME NEW j \in c..m PROVE str[j] # Comma
          <5>1. j \in 1..Len(str) /\ a < j /\ j < m + 1
            BY <4>2, <4>4, <2>0, StrFacts
          <5>. QED BY <5>1, <4>2, BoundFacts
        <4>. QED BY <4>4, <4>5, <4>6 DEF Open
      <3>. QED BY <2>0, <2>1, <3>1, <3>2, <3>3, <3>4 DEF G
    <2>4. CASE str[m + 1] # Colon /\ str[m + 1] # Comma
      <3>1. cl(m + 1) = cl(m)
        BY StrFacts, <2>0, <2>4, UptoSame
      <3>2. cm(m + 1) = cm(m)
        BY StrFacts, <2>0, <2>4, UptoSame
      <3>3. Open(m + 1) <=> Open(m)
        <4>1. ASSUME Open(m) PROVE Open(m + 1)
          <5>1. PICK c \in 1..m : str[c] = Colon /\ \A j \in c..m : str[j] # Comma
            BY <4>1 DEF Open
          <5>2. c \in 1..(m + 1) /\ \A j \in c..(m + 1) : j \in c..m \/ j = m + 1
            BY <2>0
          <5>. QED BY <5>1, <5>2, <2>4 DEF Open
        <4>2. ASSUME Open(m + 1) PROVE Open(m)
          <5>1. PICK c \in 1..(m + 1) :
                  str[c] = Colon /\ \A j \in c..(m + 1) : str[j] # Comma
            BY <4>2 DEF Open
          <5>2. c # m + 1
            BY <5>1, <2>4
          <5>3. c \in 1..m /\ \A j \in c..m : j \in c..(m + 1)
            BY <2>0, <5>2
          <5>. QED BY <5>1, <5>3 DEF Open
        <4>. QED BY <4>1, <4>2
      <3>. QED BY <2>0, <2>1, <3>1, <3>2, <3>3 DEF G
    <2>. QED BY <2>2, <2>3, <2>4
  <1>3. \A m \in 0..Len(str) : m \in G
    <2>. HIDE DEF G
    <2>. DEFINE z == 0
    <2>1. z \in Nat /\ z \in G /\ \A m \in z..(Len(str) - 1) : m \in G => m + 1 \in G
      BY <1>1, <1>2
    <2>. HIDE DEF z
    <2>2. \A m \in z..Len(str) : m \in G
      BY StrFacts, <2>1, Induct
    <2>. QED BY <2>2 DEF z
  <1>. QED BY <1>3

\* A string in the format has as many commas as colons or one less.
LEMMA CountsAgree ==
  ASSUME StrOK, WellFormed
  PROVE  ev_nums > 0 /\ ev_nums \in {Count(Comma), Count(Comma) + 1}
  <1>1. /\ Cardinality(Upto(Colon, Len(str))) = ev_nums
        /\ Cardinality(Upto(Comma, Len(str))) = Count(Comma)
    BY StrFacts, UptoAll DEF ev_nums
  <1>2. /\ Cardinality(Upto(Colon, Len(str))) \in Nat
        /\ Cardinality(Upto(Comma, Len(str))) \in Nat
    BY StrFacts, UptoFinite
  <1>3. Cardinality(Upto(Colon, Len(str))) =
          Cardinality(Upto(Comma, Len(str))) + (IF Open(Len(str)) THEN 1 ELSE 0)
    <2>1. Len(str) \in 0..Len(str)
      BY StrFacts
    <2>. QED BY <2>1, CountsUpto
  <1>4. ev_nums > 0
    <2>1. 0 \in 0..Len(str)
      BY StrFacts
    <2>2. PICK b \in (0 + 1)..End : b \in Bounds /\ \A c \in Bounds : ~(0 < c /\ c < b)
      BY <2>1, NextBound
    <2>3. PartOf(0, b)
      BY <2>2, StrFacts, BoundFacts DEF PartOf
    <2>4. PICK c \in (0 + 1)..(b - 1) : c \in 1..Len(str) /\ str[c] = Colon
      BY <2>3, PartIff, PartColon
    <2>5. Cardinality(Upto(Colon, 0)) < Count(Colon)
      <3>1. 0 \in Nat /\ c \in (0 + 1)..Len(str)
        BY <2>4
      <3>. QED BY <2>4, <3>1, UptoLess
    <2>6. Cardinality(Upto(Colon, 0)) = 0
      BY UptoNone
    <2>. QED BY <1>1, <1>2, <2>5, <2>6 DEF ev_nums
  <1>. QED BY <1>1, <1>2, <1>3, <1>4

-----------------------------------------------------------------------------
(* The records.                                                            *)

\* Where the last record ends.
LastEnd == IF records = << >> THEN 0 ELSE records[Len(records)].end

RecordType == [n : Nat, colon : Nat, end : Nat]
Records == Seq(RecordType)

\* Record r: a name, a colon and a signature, up to a bound; in a string of the
\* format it is a part.
RecordOK(r) ==
  /\ 1 <= r.n /\ r.n <= r.colon /\ r.colon < r.end
  /\ r.colon \in 1..Len(str) /\ str[r.colon] = Colon /\ r.end \in Bounds
  /\ WellFormed => <<r.n - 1, r.end>> \in Parts

\* The records follow each other, cover the string as far as they go, and have
\* one colon each.
RecordsInv ==
  /\ records \in Records
  /\ \A i \in DOMAIN records :
       /\ RecordOK(records[i])
       /\ records[i].n = IF i = 1 THEN 1 ELSE records[i - 1].end + 1
  /\ \A k \in 1..LastEnd : \E i \in DOMAIN records : records[i].n <= k /\ k <= records[i].end
  /\ Cardinality(Upto(Colon, LastEnd)) = Len(records)

\* What find_event found: the name from ns on, its colon and the end of the
\* signature.
FoundAt(ns, ne, se) ==
  /\ ns \in 1..Len(str) /\ ns - 1 \in Bounds
  /\ ne \in ns..Len(str) /\ str[ne] = Colon
  /\ \A j \in ns..(ne - 1) : str[j] # Colon
  /\ se \in (ne + 1)..End /\ se \in Bounds
  /\ WellFormed => /\ <<ns - 1, se>> \in Parts
                   /\ \A j \in (ne + 1)..(se - 1) : str[j] \in OpTypes

\* The invariant of define_str, one conjunct for each place where it can be.
tableInv ==
  /\ StrOK /\ RecordsInv
  /\ scpc \in {"input", "count", "first", "record", "defined", "error", "aborted"}
  /\ scpc \in {"input", "count", "first"} => records = << >>
  /\ scpc \in {"first", "record", "defined"} => ev_nums > 0
  /\ scpc = "record" => n_start = LastEnd + 1 /\ FoundAt(n_start, n_end, s_end)
  /\ scpc = "defined" => LastEnd \in {End - 1, End}
  /\ scpc \in {"error", "aborted"} => ~WellFormed

\* From a bound on, with as many events found as there are colons before it: the
\* search fails only if the string is not in the format, and there is a record
\* left in the table.
LEMMA FindEvent ==
  ASSUME StrOK, NEW ns \in 1..Len(str), ns - 1 \in Bounds,
         NEW i, i = Cardinality(Upto(Colon, ns - 1)),
         NEW ne, ne = strchr(ns, Colon), NEW se, se = strchr(ne + 1, Comma)
  PROVE  IF ne = 0 \/ (se = 0 /\ i # ev_nums - 1) THEN ~WellFormed
         ELSE i # ev_nums /\ FoundAt(ns, ne, IF se = 0 THEN End ELSE se)
  <1>1. \/ ne = 0 /\ \A j \in ns..Len(str) : str[j] # Colon
        \/ /\ ne \in ns..Len(str) /\ str[ne] = Colon
           /\ \A j \in ns..(ne - 1) : str[j] # Colon
    <2>1. ns \in Nat \ {0}
      BY StrFacts
    <2>. QED BY <2>1, StrchrRight
  <1>2. ne # 0 => \/ se = 0 /\ \A j \in (ne + 1)..Len(str) : str[j] # Comma
                  \/ /\ se \in (ne + 1)..Len(str) /\ str[se] = Comma
                     /\ \A j \in (ne + 1)..(se - 1) : str[j] # Comma
    <2>1. SUFFICES ASSUME ne # 0
                   PROVE  \/ se = 0 /\ \A j \in (ne + 1)..Len(str) : str[j] # Comma
                          \/ /\ se \in (ne + 1)..Len(str) /\ str[se] = Comma
                             /\ \A j \in (ne + 1)..(se - 1) : str[j] # Comma
      OBVIOUS
    <2>2. ne + 1 \in Nat \ {0}
      BY <1>1, StrFacts, <2>1
    <2>. QED BY <2>2, StrchrRight
  \* The part of the format that starts here.
  <1>3. ASSUME WellFormed
        PROVE  \E b \in Bounds, c \in ns..Len(str) :
                 /\ <<ns - 1, b>> \in Parts /\ c < b /\ str[c] = Colon
                 /\ \A d \in Bounds : ~(ns - 1 < d /\ d < b)
                 /\ \A d \in ns..(b - 1) : str[d] = Colon => d = c
    <2>1. ns - 1 \in 0..Len(str)
      BY StrFacts
    <2>2. PICK b \in ((ns - 1) + 1)..End :
            b \in Bounds /\ \A c \in Bounds : ~(ns - 1 < c /\ c < b)
      BY <2>1, NextBound
    <2>3. PartOf(ns - 1, b)
      BY <2>2, StrFacts DEF PartOf
    <2>4. <<ns - 1, b>> \in Parts
      BY <2>3, PartIff
    <2>5. PICK c \in ((ns - 1) + 1)..(b - 1) :
            /\ c \in 1..Len(str) /\ str[c] = Colon
            /\ \A d \in ((ns - 1) + 1)..(b - 1) : str[d] = Colon => d = c
      BY <1>3, <2>4, PartColon
    <2>6. (ns - 1) + 1 = ns /\ c \in ns..Len(str) /\ c < b
      BY <2>5, <2>2, StrFacts
    <2>. QED BY <2>2, <2>4, <2>5, <2>6
  <1>4. CASE ne = 0
    <2>1. \A j \in ns..Len(str) : str[j] # Colon
      BY <1>1, <1>4, StrFacts
    <2>2. ~WellFormed
      BY <1>3, <2>1
    <2>. QED BY <1>4, <2>2
  <1>5. CASE ne # 0 /\ se = 0 /\ i # ev_nums - 1
    <2>1. SUFFICES ASSUME WellFormed PROVE FALSE
      BY <1>5
    <2>2. PICK b \in Bounds, c \in ns..Len(str) :
                 /\ <<ns - 1, b>> \in Parts /\ c < b /\ str[c] = Colon
                 /\ \A d \in Bounds : ~(ns - 1 < d /\ d < b)
                 /\ \A d \in ns..(b - 1) : str[d] = Colon => d = c
      BY <1>3, <2>1
    <2>3. b \in 0..End /\ ne \in ns..Len(str) /\ str[ne] = Colon /\ ne <= c
      <3>1. ~(c \in ns..(ne - 1))
        BY <1>1, <1>5, <2>2
      <3>. QED BY <1>1, <1>5, BoundFacts, StrFacts, <2>2, <3>1
    <2>4. ne = c
      BY <2>2, <2>3, StrFacts
    <2>5. b = End
      <3>1. SUFFICES ASSUME b # End PROVE FALSE
        OBVIOUS
      <3>2. b \in (ne + 1)..Len(str) /\ str[b] = Comma
        BY BoundFacts, StrFacts, <2>2, <2>3, <2>4, <3>1
      <3>. QED BY <1>2, <1>5, StrFacts, <2>3, <3>2
    <2>6. Cardinality(Upto(Colon, Len(str))) = i + 1
      <3>. DEFINE k == ns - 1
                  l == Len(str)
      <3>1. k \in Nat /\ l \in Nat /\ c \in (k + 1)..l /\ c \in DOMAIN str
        BY StrFacts, <2>2
      <3>2. \A j \in (k + 1)..l : j \in DOMAIN str /\ str[j] = Colon => j = c
        <4>1. (k + 1)..l = ns..(b - 1)
          BY StrFacts, <2>5
        <4>. QED BY <4>1, <2>2
      <3>. HIDE DEF k, l
      <3>3. Cardinality(Upto(Colon, l)) = Cardinality(Upto(Colon, k)) + 1
        BY <3>1, <3>2, <2>2, UptoOneMore
      <3>. QED BY <3>3 DEF k, l
    <2>7. Cardinality(Upto(Colon, Len(str))) = ev_nums
      BY StrFacts, UptoAll DEF ev_nums
    <2>8. i \in Nat
      <3>1. ns - 1 \in Int
        BY StrFacts
      <3>. QED BY <3>1, UptoFinite
    <2>. QED BY <1>5, <2>6, <2>7, <2>8
  <1>6. CASE ne # 0 /\ ~(se = 0 /\ i # ev_nums - 1)
    <2>. DEFINE e == IF se = 0 THEN End ELSE se
    <2>1. ne \in ns..Len(str) /\ str[ne] = Colon /\ \A j \in ns..(ne - 1) : str[j] # Colon
      BY <1>1, <1>6, StrFacts
    <2>2. /\ e \in (ne + 1)..End /\ e \in Bounds
          /\ \A j \in (ne + 1)..(e - 1) : str[j] # Comma
      <3>1. CASE se = 0
        <4>1. e = End /\ (e - 1) = Len(str)
          BY <3>1, StrFacts
        <4>. QED BY <1>2, <1>6, <3>1, <4>1, <2>1, StrFacts, BoundFacts
      <3>2. CASE se # 0
        <4>1. e = se /\ se \in (ne + 1)..Len(str) /\ str[se] = Comma
          BY <1>2, <1>6, <3>2
        <4>2. se \in 1..Len(str) /\ se \in (ne + 1)..End
          BY <4>1, <2>1, StrFacts
        <4>3. \A j \in (ne + 1)..(se - 1) : str[j] # Comma
          BY <1>2, <1>6, <3>2
        <4>. QED BY BoundFacts, <4>1, <4>2, <4>3
      <3>. QED BY <3>1, <3>2
    <2>. HIDE DEF e
    <2>3. i # ev_nums
      <3>. DEFINE k == ns - 1
      <3>1. k \in Nat /\ ne \in (k + 1)..Len(str)
        BY <2>1, StrFacts
      <3>2. Cardinality(Upto(Colon, k)) \in Nat
        BY <3>1, UptoFinite
      <3>. HIDE DEF k
      <3>3. Cardinality(Upto(Colon, k)) < Count(Colon)
        BY <2>1, <3>1, UptoLess
      <3>4. Count(Colon) # Cardinality(Upto(Colon, k))
        BY <3>2, <3>3
      <3>. QED BY <3>4 DEF ev_nums, k
    <2>4. ASSUME WellFormed
          PROVE  /\ <<ns - 1, e>> \in Parts
                 /\ \A j \in (ne + 1)..(e - 1) : str[j] \in OpTypes
      <3>1. PICK b \in Bounds, c \in ns..Len(str) :
                 /\ <<ns - 1, b>> \in Parts /\ c < b /\ str[c] = Colon
                 /\ \A d \in Bounds : ~(ns - 1 < d /\ d < b)
                 /\ \A d \in ns..(b - 1) : str[d] = Colon => d = c
        BY <1>3, <2>4
      <3>2. b \in 0..End /\ ne <= c
        <4>1. ~(c \in ns..(ne - 1))
          BY <2>1, <3>1
        <4>. QED BY <2>1, BoundFacts, StrFacts, <3>1, <4>1
      <3>3. ne = c
        BY <2>1, <3>1, <3>2, StrFacts
      <3>4. b <= e
        BY <2>1, <2>2, <3>1, <3>2, StrFacts
      <3>5. b = e
        <4>1. SUFFICES ASSUME b < e PROVE FALSE
          BY <3>2, <3>4, <2>2, <2>1, StrFacts
        <4>2. b \in (ne + 1)..(e - 1) /\ b # 0 /\ b # End
          BY <4>1, <2>1, <2>2, <3>1, <3>2, <3>3, StrFacts
        <4>. QED BY <4>2, <2>2, BoundFacts
      <3>6. ASSUME NEW j \in (ne + 1)..(e - 1) PROVE str[j] \in OpTypes
        <4>. DEFINE p == <<ns - 1, b>>
        <4>1. /\ ne \in (p[1] + 1)..(p[2] - 1) /\ j \in (p[1] + 1)..(p[2] - 1)
              /\ ne < j
          BY <2>1, <2>2, <3>2, <3>3, <3>5, StrFacts
        <4>2. p \in Parts
          BY <3>1
        <4>. HIDE DEF p
        <4>. QED BY <2>1, <2>4, <4>1, <4>2 DEF WellFormed
      <3>. QED BY <3>1, <3>5, <3>6
    <2>5. FoundAt(ns, ne, e)
      BY <2>1, <2>2, <2>4 DEF FoundAt
    <2>. QED BY <1>6, <2>3, <2>5 DEF e
  <1>. QED BY <1>4, <1>5, <1>6

\* Where the last record ends is a place.
LEMMA LastEndType ==
  ASSUME RecordsInv PROVE LastEnd \in Nat
  <1>1. records \in Seq(RecordType)
    BY DEF RecordsInv, Records
  <1>2. CASE records # << >>
    <2>1. Len(records) \in DOMAIN records
      BY <1>1, <1>2
    <2>2. records[Len(records)] \in RecordType
      BY <1>1, <2>1
    <2>. QED BY <1>2, <2>2 DEF LastEnd, RecordType
  <1>3. CASE records = << >>
    BY <1>3 DEF LastEnd
  <1>. QED BY <1>2, <1>3

\* What depends only on the string stays with it.
LEMMA StrStays ==
  ASSUME str' = str
  PROVE  /\ (StrOK' <=> StrOK) /\ End' = End /\ Bounds' = Bounds /\ Parts' = Parts
         /\ ev_nums' = ev_nums /\ (WellFormed' <=> WellFormed)
  <1>1. (StrOK' <=> StrOK) /\ End' = End /\ ev_nums' = ev_nums
    BY DEF StrOK, Chars, End, ev_nums, Count
  <1>2. Bounds' = Bounds
    BY <1>1 DEF Bounds
  <1>3. Parts' = Parts
    BY <1>1, <1>2 DEF Parts
  <1>4. WellFormed' <=> WellFormed
    BY <1>3 DEF WellFormed
  <1>. QED BY <1>1, <1>2, <1>3, <1>4

\* Records that are not changed stay right.
LEMMA RecordsStay ==
  ASSUME RecordsInv, str' = str, records' = records
  PROVE  RecordsInv' /\ LastEnd' = LastEnd
  <1>1. LastEnd' = LastEnd
    BY DEF LastEnd
  <1>2. Upto(Colon, LastEnd)' = Upto(Colon, LastEnd)
    BY <1>1 DEF Upto
  <1>3. \A i \in DOMAIN records : RecordOK(records[i])'
    BY StrStays DEF RecordsInv, RecordOK
  <1>. QED BY <1>1, <1>2, <1>3 DEF RecordsInv

\* A step of define_str that looks for an event.
LEMMA FindStep ==
  ASSUME StrOK, str' = str, NEW ns \in 1..Len(str), ns - 1 \in Bounds,
         NEW i, i = Cardinality(Upto(Colon, ns - 1)), find_event(ns, i)
  PROVE  \/ scpc' = "error" /\ ~WellFormed'
         \/ scpc' = "record" /\ n_start' = ns /\ FoundAt(n_start, n_end, s_end)'
  <1>. DEFINE ne == strchr(ns, Colon)
              se == strchr(ne + 1, Comma)
  <1>1. IF ne = 0 \/ (se = 0 /\ i # ev_nums - 1) THEN ~WellFormed
        ELSE i # ev_nums /\ FoundAt(ns, ne, IF se = 0 THEN End ELSE se)
    BY FindEvent
  <1>2. IF ne = 0 \/ (se = 0 /\ i # ev_nums - 1) THEN scpc' = "error"
        ELSE /\ n_start' = ns /\ n_end' = ne
             /\ s_end' = IF se = 0 THEN End ELSE se
             /\ scpc' = IF i = ev_nums THEN "defined" ELSE "record"
    BY DEF find_event
  <1>. HIDE DEF ne, se
  <1>3. CASE ne = 0 \/ (se = 0 /\ i # ev_nums - 1)
    BY <1>1, <1>2, <1>3, StrStays
  <1>4. CASE ~(ne = 0 \/ (se = 0 /\ i # ev_nums - 1))
    <2>1. scpc' = "record" /\ n_start' = ns /\ FoundAt(n_start', n_end', s_end')
      BY <1>1, <1>2, <1>4
    <2>2. /\ End' = End /\ Bounds' = Bounds /\ Parts' = Parts
          /\ (WellFormed' <=> WellFormed)
      BY StrStays
    <2>3. FoundAt(n_start, n_end, s_end)'
      BY <2>1, <2>2 DEF FoundAt
    <2>. QED BY <2>1, <2>3
  <1>. QED BY <1>3, <1>4

\* What leaves the parser alone keeps its invariant: registration and lookup.
LEMMA TableStays ==
  ASSUME tableInv, UNCHANGED parseVars, scpc' = scpc
  PROVE  tableInv'
  <1>1. str' = str /\ records' = records
    BY DEF parseVars
  <1>2. RecordsInv' /\ LastEnd' = LastEnd
    BY <1>1, RecordsStay DEF tableInv
  <1>3. FoundAt(n_start, n_end, s_end)' <=> FoundAt(n_start, n_end, s_end)
    BY <1>1, StrStays DEF parseVars, FoundAt
  <1>. QED BY <1>1, <1>2, <1>3, StrStays DEF tableInv, parseVars

\* A new string has no records yet.
LEMMA InputStep ==
  ASSUME tableInv, NEW s \in Strings, input(s)
  PROVE  tableInv'
  <1>. USE ControlAssumption
  <1>1. str' = s /\ scpc' = "count" /\ records' = << >>
    BY DEF input, tableInv
  <1>2. StrOK'
    <2>1. PICK n \in 0..MaxLen : s \in [1..n -> Chars]
      BY DEF Strings, Chars
    <2>2. n \in Nat
      BY <2>1
    <2>3. s \in Seq(Chars)
      BY <2>1, <2>2
    <2>. QED BY <1>1, <2>3 DEF StrOK, Chars
  <1>3. RecordsInv'
    <2>1. LastEnd' = 0
      BY <1>1 DEF LastEnd
    <2>2. DOMAIN str' = 1..Len(str') /\ Len(str') \in Nat
      BY <1>2 DEF StrOK
    <2>3. Upto(Colon, LastEnd)' = {}
      BY <2>1, <2>2 DEF Upto
    <2>4. records' \in Records /\ DOMAIN records' = {} /\ Len(records') = 0
      BY <1>1 DEF Records
    <2>5. Cardinality(Upto(Colon, LastEnd)') = Len(records')
      BY <2>3, <2>4, FS_EmptySet
    <2>6. 1..LastEnd' = {}
      BY <2>1
    <2>. QED BY <2>4, <2>5, <2>6 DEF RecordsInv
  <1>. QED BY <1>1, <1>2, <1>3 DEF tableInv

\* The first event starts where the string does.
LEMMA FirstStep ==
  ASSUME tableInv, first_event
  PROVE  tableInv'
  <1>s. Len(str) \in Nat /\ DOMAIN str = 1..Len(str) /\ End \in Nat /\ End = Len(str) + 1
    BY StrFacts DEF tableInv
  <1>1. /\ str' = str /\ records' = records /\ find_event(1, 0)
        /\ records = << >> /\ LastEnd = 0 /\ ev_nums > 0 /\ StrOK /\ RecordsInv
    BY DEF first_event, tableInv, LastEnd
  <1>2. Cardinality(Upto(Colon, 0)) = 0
    BY <1>1, UptoNone
  <1>3. 1 \in 1..Len(str)
    <2>1. SUFFICES ASSUME Len(str) = 0 PROVE FALSE
      BY <1>s
    <2>2. Cardinality(Upto(Colon, 0)) = Count(Colon)
      BY <1>1, <2>1, UptoAll
    <2>. QED BY <1>1, <1>2, <2>2 DEF ev_nums
  <1>4. 1 - 1 = 0 /\ 0 \in Bounds
    BY <1>1, BoundFacts
  <1>5. \/ scpc' = "error" /\ ~WellFormed'
        \/ scpc' = "record" /\ n_start' = 1 /\ FoundAt(n_start, n_end, s_end)'
    BY <1>1, <1>2, <1>3, <1>4, FindStep
  <1>6. RecordsInv' /\ LastEnd' = LastEnd /\ LastEnd' + 1 = 1
    BY <1>1, RecordsStay
  <1>. QED BY <1>1, <1>5, <1>6, StrStays DEF tableInv

\* A record is made, and the next event is looked for.
LEMMA RecordStep ==
  ASSUME tableInv, init_record
  PROVE  tableInv'
  <1>. DEFINE r == [n |-> n_start, colon |-> n_end, end |-> s_end]
              n == Len(records)
  <1>s. Len(str) \in Nat /\ DOMAIN str = 1..Len(str) /\ End \in Nat /\ End = Len(str) + 1
    BY StrFacts DEF tableInv
  <1>b. /\ 0 \in Bounds /\ End \in Bounds
        /\ \A b \in Bounds : b \in 0..End
        /\ \A b \in Bounds : b # 0 /\ b # End => b \in 1..Len(str) /\ str[b] = Comma
        /\ \A j \in 1..Len(str) : j \in Bounds <=> str[j] = Comma
    BY BoundFacts DEF tableInv
  <1>1. /\ scpc = "record" /\ str' = str /\ records' = Append(records, r)
        /\ \A j \in (n_end + 1)..(s_end - 1) : str[j] \in OpTypes
        /\ IF s_end = End \/ s_end + 1 = End
           THEN scpc' = "defined" /\ UNCHANGED <<n_start, n_end, s_end>>
           ELSE find_event(s_end + 1, Len(records'))
    BY DEF init_record
  <1>2. /\ StrOK /\ RecordsInv /\ ev_nums > 0 /\ n_start = LastEnd + 1
        /\ FoundAt(n_start, n_end, s_end)
    BY <1>1 DEF tableInv
  <1>3. /\ n_start \in 1..Len(str) /\ n_start - 1 \in Bounds /\ n_end \in n_start..Len(str)
        /\ str[n_end] = Colon /\ \A j \in n_start..(n_end - 1) : str[j] # Colon
        /\ s_end \in (n_end + 1)..End /\ s_end \in Bounds
        /\ WellFormed => <<n_start - 1, s_end>> \in Parts
    BY <1>2 DEF FoundAt
  <1>4. n_start \in Nat /\ n_end \in Nat /\ s_end \in Nat /\ LastEnd \in Nat
    <2>1. n_start \in Nat /\ n_end \in Nat
      BY <1>s, <1>3
    <2>2. s_end \in Nat
      BY <1>s, <1>3, <2>1
    <2>3. LastEnd \in Nat
      BY <1>2, LastEndType
    <2>. QED BY <2>1, <2>2, <2>3
  <1>5. /\ r \in RecordType
        /\ r.n = n_start /\ r.colon = n_end /\ r.end = s_end
    BY <1>4 DEF RecordType
  <1>. HIDE DEF r
  <1>6. /\ records \in Records /\ n \in Nat /\ DOMAIN records = 1..n
        /\ records' \in Records /\ Len(records') = n + 1 /\ DOMAIN records' = 1..(n + 1)
        /\ \A i \in 1..n : records'[i] = records[i]
        /\ records'[n + 1] = r
    <2>1. records \in Seq(RecordType)
      BY <1>2 DEF RecordsInv, Records
    <2>2. n \in Nat /\ DOMAIN records = 1..n
      BY <2>1
    <2>3. records' \in Seq(RecordType) /\ Len(records') = n + 1
      BY <1>1, <1>5, <2>1
    <2>4. \A i \in 1..n : records'[i] = records[i]
      BY <1>1, <1>5, <2>1
    <2>5. records'[n + 1] = r /\ DOMAIN records' = 1..(n + 1)
      BY <1>1, <1>5, <2>1, <2>3
    <2>. QED BY <2>1, <2>2, <2>3, <2>4, <2>5 DEF Records
  <1>7. LastEnd' = s_end
    <2>1. records' # << >>
      BY <1>6
    <2>. QED BY <1>5, <1>6, <2>1 DEF LastEnd
  <1>8. RecordOK(r)
    BY <1>3, <1>4, <1>5, <1>s DEF RecordOK
  <1>9. Cardinality(Upto(Colon, s_end)) = n + 1
    <2>1. \A j \in (LastEnd + 1)..s_end : j \in DOMAIN str /\ str[j] = Colon => j = n_end
      <3>1. SUFFICES ASSUME NEW j \in (LastEnd + 1)..s_end, j \in 1..Len(str),
                            str[j] = Colon, j # n_end
                     PROVE  FALSE
        BY <1>s
      <3>2. j \in n_start..(n_end - 1) \/ j \in (n_end + 1)..(s_end - 1) \/ j = s_end
        BY <1>2, <1>4, <3>1
      <3>3. j # s_end
        BY <1>3, <1>b, <1>s, <3>1, ColonNotComma
      <3>. QED BY <1>1, <1>3, <3>1, <3>2, <3>3, ControlAssumption
    <2>2. n_end \in (LastEnd + 1)..s_end /\ n_end \in DOMAIN str
      BY <1>2, <1>3, <1>4, <1>s
    <2>3. Cardinality(Upto(Colon, s_end)) = Cardinality(Upto(Colon, LastEnd)) + 1
      BY <1>2, <1>3, <1>4, <2>1, <2>2, UptoOneMore
    <2>. QED BY <1>2, <2>3 DEF RecordsInv
  <1>10. RecordsInv'
    <2>1. \A i \in DOMAIN records' : RecordOK(records'[i])
      <3>1. \A i \in 1..n : RecordOK(records[i])
        BY <1>2, <1>6 DEF RecordsInv
      <3>2. \A i \in 1..(n + 1) : i \in 1..n \/ i = n + 1
        BY <1>6
      <3>. QED BY <1>6, <1>8, <3>1, <3>2
    <2>2. \A i \in DOMAIN records' : RecordOK(records[i])'
      BY <1>1, <2>1, StrStays DEF RecordOK
    <2>3. ASSUME NEW i \in 1..(n + 1)
          PROVE  records'[i].n = IF i = 1 THEN 1 ELSE records'[i - 1].end + 1
      <3>1. CASE i \in 1..n
        <4>1. records[i].n = IF i = 1 THEN 1 ELSE records[i - 1].end + 1
          BY <1>2, <1>6, <3>1 DEF RecordsInv
        <4>2. i # 1 => i - 1 \in 1..n
          BY <1>6, <3>1
        <4>. QED BY <1>6, <3>1, <4>1, <4>2
      <3>2. CASE i = n + 1 /\ n = 0
        <4>1. records = << >>
          BY <1>6, <3>2 DEF Records
        <4>2. n_start = 1
          BY <1>2, <4>1 DEF LastEnd
        <4>. QED BY <1>5, <1>6, <3>2, <4>2
      <3>3. CASE i = n + 1 /\ n # 0
        <4>1. records # << >> /\ n \in 1..n /\ i - 1 = n /\ i # 1
          BY <1>6, <3>3
        <4>2. n_start = records[n].end + 1
          BY <1>2, <4>1 DEF LastEnd
        <4>3. records'[i - 1] = records[n] /\ records'[i].n = n_start
          BY <1>5, <1>6, <3>3, <4>1
        <4>. QED BY <4>1, <4>2, <4>3
      <3>. QED BY <1>6, <3>1, <3>2, <3>3
    <2>4. ASSUME NEW k \in 1..s_end
          PROVE  \E i \in 1..(n + 1) : records'[i].n <= k /\ k <= records'[i].end
      <3>1. CASE k <= LastEnd
        <4>1. k \in 1..LastEnd
          BY <1>4, <3>1
        <4>2. PICK i \in 1..n : records[i].n <= k /\ k <= records[i].end
          BY <1>2, <1>6, <4>1 DEF RecordsInv
        <4>3. i \in 1..(n + 1) /\ records'[i] = records[i]
          BY <1>6
        <4>. QED BY <4>2, <4>3
      <3>2. CASE ~(k <= LastEnd)
        <4>1. n_start <= k /\ k <= s_end
          BY <1>2, <1>4, <3>2
        <4>2. n + 1 \in 1..(n + 1)
          BY <1>6
        <4>. QED BY <1>5, <1>6, <4>1, <4>2
      <3>. QED BY <3>1, <3>2
    <2>5. Upto(Colon, LastEnd)' = Upto(Colon, s_end)
      BY <1>1, <1>7 DEF Upto
    <2>6. \A k \in 1..LastEnd' : \E i \in DOMAIN records' :
             records'[i].n <= k /\ k <= records'[i].end
      BY <1>6, <1>7, <2>4
    <2>7. \A i \in DOMAIN records' :
             records'[i].n = IF i = 1 THEN 1 ELSE records'[i - 1].end + 1
      BY <1>6, <2>3
    <2>8. Cardinality(Upto(Colon, LastEnd)') = Len(records')
      BY <1>6, <1>9, <2>5
    <2>. QED BY <1>6, <2>2, <2>6, <2>7, <2>8 DEF RecordsInv
  <1>11. CASE s_end = End \/ s_end + 1 = End
    <2>1. scpc' = "defined"
      BY <1>1, <1>11
    <2>2. s_end \in {End - 1, End}
      <3>1. CASE s_end = End
        BY <3>1
      <3>2. CASE s_end + 1 = End
        <4>1. s_end \in Int /\ End \in Int
          BY <1>4, <1>s
        <4>2. s_end = End - 1
          BY <3>2, <4>1
        <4>. QED BY <4>2
      <3>. QED BY <1>11, <3>1, <3>2
    <2>3. LastEnd' \in {End' - 1, End'}
      BY <1>1, <1>7, <2>2, StrStays
    <2>. QED BY <1>1, <1>2, <1>10, <2>1, <2>3, StrStays DEF tableInv
  <1>12. CASE ~(s_end = End \/ s_end + 1 = End)
    <2>. DEFINE ns == s_end + 1
    <2>1. ns \in 1..Len(str) /\ ns - 1 = s_end /\ ns - 1 \in Bounds
      BY <1>3, <1>4, <1>s, <1>12
    <2>2. find_event(ns, Len(records')) /\ Len(records') = Cardinality(Upto(Colon, ns - 1))
      BY <1>1, <1>6, <1>9, <1>12, <2>1
    <2>. HIDE DEF ns
    <2>3. \/ scpc' = "error" /\ ~WellFormed'
          \/ scpc' = "record" /\ n_start' = ns /\ FoundAt(n_start, n_end, s_end)'
      BY <1>1, <1>2, <2>1, <2>2, FindStep
    <2>4. ns = LastEnd' + 1
      BY <1>7 DEF ns
    <2>. QED BY <1>1, <1>2, <1>10, <2>3, <2>4, StrStays DEF tableInv
  <1>. QED BY <1>11, <1>12

\* Every step keeps the parser's invariant.
LEMMA tableNextInv == tableInv /\ [controlNext]_controlVars => tableInv'
  <1>. SUFFICES ASSUME tableInv, [controlNext]_controlVars PROVE tableInv'
    OBVIOUS
  <1>1. ASSUME NEW s \in Strings, input(s) PROVE tableInv'
    BY <1>1, InputStep
  <1>2. CASE count_events
    <2>1. str' = str /\ records' = records /\ scpc = "count"
      BY <1>2 DEF count_events, parseVars
    <2>2. \/ scpc' = "first" /\ ev_nums > 0
          \/ scpc' = "error" /\ ~(ev_nums > 0 /\ ev_nums \in {Count(Comma), Count(Comma) + 1})
      BY <1>2 DEF count_events
    <2>3. scpc' = "error" => ~WellFormed
      BY <2>2, CountsAgree DEF tableInv
    <2>4. RecordsInv'
      BY <2>1, RecordsStay DEF tableInv
    <2>. QED BY <2>1, <2>2, <2>3, <2>4, StrStays DEF tableInv
  <1>3. CASE first_event
    BY <1>3, FirstStep
  <1>4. CASE init_record_abort
    <2>1. /\ str' = str /\ records' = records /\ scpc = "record" /\ scpc' = "aborted"
          /\ \E i \in (n_end + 1)..(s_end - 1) : str[i] \notin OpTypes
      BY <1>4 DEF init_record_abort, parseVars
    <2>2. ~WellFormed
      BY <2>1 DEF tableInv, FoundAt
    <2>3. RecordsInv'
      BY <2>1, RecordsStay DEF tableInv
    <2>. QED BY <2>1, <2>2, <2>3, StrStays DEF tableInv
  <1>5. CASE init_record
    BY <1>5, RecordStep
  <1>6. ASSUME NEW i \in 1..MaxLen, NEW kind \in Kinds, register_event(i, kind)
        PROVE  tableInv'
    BY <1>6, TableStays DEF register_event
  <1>7. CASE register_all_events
    BY <1>7, TableStays DEF register_all_events
  <1>8. ASSUME NEW kind \in Kinds, get_event_record(kind) PROVE tableInv'
    BY <1>8, TableStays DEF get_event_record
  <1>9. CASE UNCHANGED controlVars
    BY <1>9, TableStays DEF controlVars
  <1>. QED BY <1>1, <1>2, <1>3, <1>4, <1>5, <1>6, <1>7, <1>8, <1>9
       DEF controlNext, refused

\* The invariant says what the table holds.
LEMMA TableMeaning ==
  ASSUME tableInv
  PROVE  TableRight
  <1>s. Len(str) \in Nat /\ DOMAIN str = 1..Len(str) /\ End \in Nat /\ End = Len(str) + 1
    BY StrFacts DEF tableInv
  <1>b. /\ 0 \in Bounds /\ End \in Bounds
        /\ \A b \in Bounds : b \in 0..End
        /\ \A b \in Bounds : b # 0 /\ b # End => b \in 1..Len(str) /\ str[b] = Comma
        /\ \A j \in 1..Len(str) : j \in Bounds <=> str[j] = Comma
    BY BoundFacts DEF tableInv
  <1>. DEFINE n == Len(records)
  <1>1. /\ records \in Records /\ n \in Nat /\ DOMAIN records = 1..n
        /\ \A i \in 1..n : records[i].n \in Nat /\ records[i].end \in Nat
    <2>1. records \in Seq(RecordType)
      BY DEF tableInv, RecordsInv, Records
    <2>2. n \in Nat /\ DOMAIN records = 1..n
      BY <2>1
    <2>3. \A i \in 1..n : records[i] \in RecordType
      BY <2>1, <2>2
    <2>. QED BY <2>1, <2>2, <2>3 DEF Records, RecordType
  <1>2. \A i \in 1..n :
          /\ str[records[i].colon] = Colon /\ records[i].end \in Bounds
          /\ records[i].n = (IF i = 1 THEN 1 ELSE records[i - 1].end + 1)
          /\ WellFormed => <<records[i].n - 1, records[i].end>> \in Parts
    BY <1>1 DEF tableInv, RecordsInv, RecordOK
  <1>3. ASSUME scpc = "defined"
        PROVE  n = ev_nums /\ n > 0 /\ LastEnd = records[n].end /\ LastEnd \in {End - 1, End}
    <2>1. LastEnd \in {End - 1, End} /\ ev_nums > 0 /\ StrOK
      BY <1>3 DEF tableInv
    <2>2. LastEnd \in Int /\ LastEnd >= Len(str)
      <3>1. End - 1 = Len(str) /\ Len(str) \in Int /\ End \in Int /\ End >= Len(str)
        BY <1>s
      <3>2. LastEnd = Len(str) \/ LastEnd = End
        BY <2>1, <3>1
      <3>. QED BY <1>s, <3>1, <3>2
    <2>3. n = ev_nums
      BY <2>1, <2>2, UptoAll DEF tableInv, RecordsInv, ev_nums
    <2>4. records # << >>
      BY <2>1, <2>3, <1>1
    <2>. QED BY <2>1, <2>3, <2>4 DEF LastEnd
  <1>4. RecordsTile
    <2>1. SUFFICES ASSUME scpc = "defined"
                   PROVE  /\ n = ev_nums /\ records[1].n = 1
                          /\ \A i \in 1..n :
                               /\ str[records[i].colon] = Colon
                               /\ IF i < n THEN records[i + 1].n = records[i].end + 1
                                  ELSE records[i].end \in {End - 1, End}
      BY <1>1 DEF RecordsTile
    <2>2. n = ev_nums /\ n > 0 /\ records[n].end \in {End - 1, End}
      BY <1>3, <2>1
    <2>3. 1 \in 1..n
      BY <1>1, <2>2
    <2>4. ASSUME NEW i \in 1..n
          PROVE  IF i < n THEN records[i + 1].n = records[i].end + 1
                 ELSE records[i].end \in {End - 1, End}
      <3>1. CASE i < n
        <4>1. i + 1 \in 1..n /\ i + 1 # 1 /\ (i + 1) - 1 = i
          BY <1>1, <3>1
        <4>. QED BY <1>2, <3>1, <4>1
      <3>2. CASE ~(i < n)
        <4>1. n \in Nat
          BY <1>1
        <4>2. i = n
          <5>. HIDE DEF n
          <5>. QED BY <3>2, <4>1
        <4>. QED BY <2>2, <3>2, <4>2
      <3>. QED BY <3>1, <3>2
    <2>. QED BY <1>2, <2>2, <2>3, <2>4
  <1>5. ParsesFormat
    <2>1. SUFFICES ASSUME WellFormed, scpc \notin {"input", "count", "first", "record"}
                   PROVE  /\ scpc = "defined"
                          /\ Parts = {<<records[i].n - 1, records[i].end>> : i \in 1..n}
      BY <1>1 DEF ParsesFormat
    <2>2. scpc = "defined"
      BY <2>1 DEF tableInv
    <2>3. \A i \in 1..n : <<records[i].n - 1, records[i].end>> \in Parts
      BY <1>2, <2>1
    <2>4. ASSUME NEW p \in Parts
          PROVE  \E i \in 1..n : p = <<records[i].n - 1, records[i].end>>
      <3>. DEFINE a == p[1]
                  b == p[2]
      <3>1. p = <<a, b>> /\ PartOf(a, b) /\ <<a, b>> \in Parts
        BY PartIsPair
      <3>. HIDE DEF a, b
      <3>2. a \in 0..End /\ b \in 0..End
        BY <3>1, <1>b DEF PartOf
      <3>3. PICK c \in (a + 1)..(b - 1) : c \in 1..Len(str) /\ str[c] = Colon
        BY <2>1, <3>1, PartColon DEF tableInv
      <3>4. c \in 1..LastEnd
        BY <1>3, <1>s, <2>2, <3>3
      <3>5. PICK i \in 1..n : records[i].n <= c /\ c <= records[i].end
        BY <1>1, <3>4 DEF tableInv, RecordsInv
      <3>6. c # records[i].end
        <4>1. c \notin Bounds
          BY <1>b, <3>3, ColonNotComma
        <4>. QED BY <1>2, <4>1, <3>5
      <3>7. /\ records[i].n - 1 < c /\ c < records[i].end /\ a < c /\ c < b /\ c \in Int
        BY <1>1, <3>2, <3>3, <3>5, <3>6, <1>s
      <3>8. a = records[i].n - 1 /\ b = records[i].end
        <4>. DEFINE x == records[i].n - 1
                    y == records[i].end
        <4>1. <<x, y>> \in Parts /\ x < c /\ c < y
          BY <2>3, <3>5, <3>7
        <4>. HIDE DEF x, y
        <4>2. a = x /\ b = y
          BY <3>1, <3>7, <4>1, PartsApart DEF tableInv
        <4>. QED BY <4>2 DEF x, y
      <3>. QED BY <3>1, <3>5, <3>8
    <2>. QED BY <2>2, <2>3, <2>4
  <1>. QED BY <1>4, <1>5 DEF TableRight

\* A string in the format is accepted and its parts are the records, and every
\* table that vms_source_control_define_str returns covers its string without
\* gaps and has no record left unfilled, for strings of any length and any
\* types of operands.
THEOREM TableAlwaysRight == controlSpec => []TableRight
  <1>1. controlInit => tableInv
    <2>1. SUFFICES ASSUME controlInit PROVE tableInv
      OBVIOUS
    <2>2. str = << >> /\ scpc = "input" /\ records = << >>
      BY <2>1 DEF controlInit
    <2>3. StrOK
      BY <2>2 DEF StrOK
    <2>4. RecordsInv
      <3>1. LastEnd = 0 /\ records \in Records /\ DOMAIN records = {} /\ Len(records) = 0
        BY <2>2 DEF LastEnd, Records
      <3>2. Cardinality(Upto(Colon, 0)) = 0
        BY <2>3, UptoNone
      <3>. QED BY <3>1, <3>2 DEF RecordsInv
    <2>. QED BY <2>2, <2>3, <2>4 DEF tableInv
  <1>2. tableInv => TableRight
    BY TableMeaning
  <1>. QED BY <1>1, <1>2, tableNextInv, PTL DEF controlSpec

=============================================================================
