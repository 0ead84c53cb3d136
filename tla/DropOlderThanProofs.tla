------------------------ MODULE DropOlderThanProofs ------------------------
(***************************************************************************)
(* The search of drop_older_than is right for every buffer, every split of *)
(* it in two parts and every id.                                           *)
(***************************************************************************)
EXTENDS DropOlderThan, TLAPS

\* The loop invariant: what lies below bot is old enough, what lies above top
\* is not, and every iteration has removed a candidate.  In a part of several
\* events at least two candidates are left, or the loop would have ended.
LoopInv ==
  /\ bot <= top /\ top < PartLen
  /\ PartLen > 1 => bot < top
  /\ bot > 0 => At(bot) <= id
  /\ top = PartLen - 1 \/ id < At(top + 1)
  /\ IF base = 0 THEN id <= ids[len1] ELSE id > ids[len1]
  /\ steps + (top - bot) < PartLen

Shape ==
  /\ n \in Nat /\ ids \in [1..n -> 1..MaxId]
  /\ \A i, j \in 1..n : i < j => ids[i] <= ids[j]
  /\ pc = "part" => base = 0 /\ bot = 0 /\ top = 0 /\ steps = 0 /\ k = 0

IInv ==
  /\ olderTypeOK /\ Shape /\ ResultRight
  /\ pc = "search" => LoopInv

\* The first c of m sorted ids are dropped: if what stays is newer than x, or as old
\* when the last one dropped is, then that one has the id x if any has.
LEMMA LastDropped ==
  ASSUME NEW m \in Nat, NEW s \in [1..m -> Int], NEW x \in Int, NEW c \in 0..m,
         \A i, j \in 1..m : i < j => s[i] <= s[j],
         \A i \in 1..c : s[i] <= x,
         \A i \in (c + 1)..m : s[i] > x \/ (s[i] = x /\ c > 0 /\ s[c] = x)
  PROVE  /\ \A i \in (c + 1)..m : s[i] >= x
         /\ x \in {s[i] : i \in 1..m} => c > 0 /\ s[c] = x
<1>1. \A i \in (c + 1)..m : i \in 1..m /\ s[i] \in Int
  OBVIOUS
<1>2. ASSUME NEW i \in 1..m, s[i] = x PROVE c > 0 /\ s[c] = x
  <2>1. CASE i <= c
    <3>1. c \in 1..c /\ c \in 1..m /\ s[c] \in Int
      BY <2>1
    <3>2. (i = c \/ s[i] <= s[c]) /\ s[c] <= x
      BY <2>1, <3>1
    <3> QED BY <1>2, <3>1, <3>2
  <2>2. CASE i > c
    <3>1. i \in (c + 1)..m
      BY <2>2
    <3> QED BY <1>2, <3>1
  <2> QED BY <2>1, <2>2
<1> QED BY <1>1, <1>2

\* The state in which the search is entered satisfies the inductive invariant.
LEMMA InitIInv == olderInit => IInv
<1> SUFFICES ASSUME olderInit PROVE IInv
  OBVIOUS
<1>1. PICK m \in 1..MaxEvents : ids \in [1..m -> 1..MaxId]
  BY DEF olderInit, Buffers
<1>2. /\ m \in Nat /\ ids \in Seq(1..MaxId) /\ n = m
      /\ DOMAIN ids = 1..n
  BY <1>1, DropOlderThanAssumption DEF n
<1>3. olderTypeOK
  BY <1>2, DropOlderThanAssumption DEF olderInit, olderTypeOK, n
<1>4. Shape
  BY <1>1, <1>2 DEF olderInit, Shape, Buffers
<1> QED BY <1>3, <1>4 DEF olderInit, IInv, ResultRight

\* Choosing the part establishes the loop invariant or ends the search.
LEMMA ChoosePartIInv ==
  ASSUME IInv, choose_part
  PROVE  IInv'
<1>1. /\ n \in Nat /\ ids \in [1..n -> 1..MaxId] /\ len1 \in 1..n
      /\ id \in Int /\ ids[len1] \in Int
      /\ base = 0 /\ bot = 0 /\ top = 0 /\ steps = 0 /\ k = 0
      /\ UNCHANGED <<ids, len1, id, bot, steps, n>>
  BY DropOlderThanAssumption DEF IInv, olderTypeOK, Shape, choose_part, n
<1>2. CASE id <= ids[len1]
  <2>1. pc' = "search" /\ base' = 0 /\ top' = len1 - 1 /\ k' = k
    BY <1>2 DEF choose_part
  <2>2. LoopInv'
    BY <1>1, <1>2, <2>1 DEF LoopInv, PartLen, At
  <2> QED BY <1>1, <2>1, <2>2 DEF IInv, olderTypeOK, Shape, ResultRight
<1>3. CASE id > ids[len1] /\ len1 < n
  <2>1. pc' = "search" /\ base' = len1 /\ top' = n - len1 - 1 /\ k' = k
    BY <1>1, <1>3 DEF choose_part
  <2>2. LoopInv'
    BY <1>1, <1>3, <2>1 DEF LoopInv, PartLen, At
  <2> QED BY <1>1, <1>3, <2>1, <2>2 DEF IInv, olderTypeOK, Shape, ResultRight
<1>4. CASE id > ids[len1] /\ ~(len1 < n)
  <2>1. pc' = "done" /\ base' = base /\ top' = top /\ k' = len1
    BY <1>1, <1>4 DEF choose_part
  <2>2. len1 = n
    BY <1>1, <1>4
  <2>3. \A i \in 1..n : ids[i] <= id
    <3> SUFFICES ASSUME NEW i \in 1..n PROVE ids[i] <= id
      OBVIOUS
    <3>1. ids[i] <= ids[len1] /\ ids[i] \in Int
      BY <1>1, <2>2 DEF IInv, Shape
    <3> QED BY <3>1, <1>1, <1>4
  <2>4. ResultRight'
    <3>1. \A i \in 1..n : ids[i] # id
      <4> SUFFICES ASSUME NEW i \in 1..n PROVE ids[i] # id
        OBVIOUS
      <4>1. ids[i] <= ids[len1] /\ ids[i] \in Int
        BY <1>1, <2>2 DEF IInv, Shape
      <4> QED BY <4>1, <1>1, <1>4
    <3> QED BY <1>1, <2>1, <2>2, <2>3, <3>1 DEF ResultRight
  <2> QED BY <1>1, <2>1, <2>2, <2>4 DEF IInv, olderTypeOK, Shape
<1> QED BY <1>1, <1>2, <1>3, <1>4

\* The pivot lies between the candidates, below the highest if there are two.
LEMMA PivotBetween ==
  ASSUME bot \in Nat, top \in Nat, bot <= top
  PROVE  /\ pivot \in Nat /\ bot <= pivot /\ pivot <= top
         /\ bot < top => pivot < top
         /\ pivot = bot => top <= bot + 1
  BY DEF pivot

\* An iteration keeps the loop invariant, or ends with the right result.
LEMMA SearchIInv ==
  ASSUME IInv, search
  PROVE  IInv'
<1>1. /\ n \in Nat /\ ids \in [1..n -> 1..MaxId] /\ len1 \in 1..n
      /\ id \in Int /\ ids[len1] \in Int /\ ids[len1] <= MaxId
      /\ bot \in Nat /\ top \in Nat /\ steps \in Nat
      /\ base \in {0, len1} /\ base \in Nat
      /\ UNCHANGED <<ids, len1, id, base, n>>
      /\ LoopInv
  BY DropOlderThanAssumption DEF IInv, olderTypeOK, Shape, search, n
<1>2. /\ PartLen \in Nat /\ base + PartLen <= n
      /\ base = 0 => PartLen = len1
      /\ base # 0 => base = len1 /\ base + PartLen = n
      /\ PartLen' = PartLen
  BY <1>1 DEF PartLen
<1>3. /\ pivot \in Nat /\ bot <= pivot /\ pivot <= top
      /\ bot < top => pivot < top
      /\ pivot = bot => top <= bot + 1
  BY <1>1, PivotBetween DEF LoopInv
<1>4. \A i \in 0..(PartLen - 1) :
        /\ base + i + 1 \in 1..n
        /\ At(i) = ids[base + i + 1] /\ At(i) \in Int
  BY <1>1, <1>2 DEF At
<1>5. \A i, j \in 1..n : i < j => ids[i] <= ids[j]
  BY DEF IInv, Shape
<1>6. /\ bot <= top /\ top < PartLen
      /\ bot > 0 => At(bot) <= id
      /\ top = PartLen - 1 \/ id < At(top + 1)
      /\ IF base = 0 THEN id <= ids[len1] ELSE id > ids[len1]
      /\ steps + (top - bot) < PartLen
  BY <1>1 DEF LoopInv
<1>7. At(pivot) \in Int
  BY <1>1, <1>2, <1>3, <1>4, <1>6
<1>8. /\ new_bot \in Nat /\ new_top \in Nat
      /\ new_bot <= new_top /\ new_top <= top
      /\ new_bot > 0 => At(new_bot) <= id \/ (new_bot = new_top /\ At(new_top - 1) <= id)
      /\ \/ new_top = PartLen - 1
         \/ id < At(new_top + 1)
         \/ At(new_top) = id
         \/ new_top = 0 /\ id < At(0)
      /\ new_top - new_bot < top - bot \/ new_top = new_bot
  <2>1. CASE id < At(pivot) /\ pivot = 0
    <3>1. new_bot = bot /\ new_top = 0
      BY <2>1 DEF new_bot, new_top
    <3> QED BY <3>1, <2>1, <1>1, <1>2, <1>3, <1>6
  <2>2. CASE id < At(pivot) /\ pivot # 0
    <3>1. new_bot = bot /\ new_top = pivot - 1
      BY <2>2 DEF new_bot, new_top
    <3>2. bot # pivot
      BY <2>2, <1>1, <1>3, <1>6, <1>7
    <3>3. id < At((pivot - 1) + 1)
      BY <2>2, <1>3
    <3> QED BY <3>1, <3>2, <3>3, <1>1, <1>2, <1>3, <1>6
  <2>3. CASE ~(id < At(pivot)) /\ bot # pivot
    <3>1. new_bot = pivot /\ new_top = top /\ At(pivot) <= id
      BY <2>3, <1>1, <1>7 DEF new_bot, new_top
    <3> QED BY <3>1, <2>3, <1>1, <1>2, <1>3, <1>6
  <2>4. CASE ~(id < At(pivot)) /\ bot = pivot /\ At(pivot) = id
    <3>1. new_bot = bot /\ new_top = bot /\ At(bot) = id
      BY <2>4 DEF new_bot, new_top
    <3> QED BY <3>1, <1>1, <1>6
  <2>5. CASE ~(id < At(pivot)) /\ bot = pivot /\ At(pivot) # id
    <3>1. new_bot = top /\ new_top = top /\ At(bot) <= id
      BY <2>5, <1>1, <1>7 DEF new_bot, new_top
    <3>2. top > 0 => At(top) <= id \/ At(top - 1) <= id
      <4>1. CASE top = bot
        BY <4>1, <3>1
      <4>2. CASE top = bot + 1
        <5>1. top - 1 = bot
          BY <4>2, <1>1
        <5> QED BY <5>1, <3>1
      <4> QED BY <4>1, <4>2, <2>5, <1>1, <1>3, <1>6
    <3> QED BY <3>1, <3>2, <1>1, <1>6
  <2> QED BY <2>1, <2>2, <2>3, <2>4, <2>5
<1>9. /\ bot' = new_bot /\ top' = new_top /\ steps' = steps + 1
  BY DEF search
<1>10. CASE new_top # new_bot
  <2>1. pc' = pc /\ k' = k /\ pc = "search"
    BY <1>10 DEF search
  <2>2. LoopInv'
    <3>1. new_bot < new_top
      BY <1>8, <1>10
    <3>2. new_bot > 0 => At(new_bot) <= id
      BY <1>8, <3>1
    <3>3. new_top = PartLen - 1 \/ id < At(new_top + 1)
      <4>1. new_top # 0
        BY <1>8, <3>1
      <4>2. ASSUME At(new_top) = id, new_bot < new_top
            PROVE  new_top = PartLen - 1 \/ id < At(new_top + 1)
        BY <4>2, <1>1, <1>3, <1>6, <1>7, <1>8 DEF new_top, new_bot
      <4> QED BY <4>1, <4>2, <3>1, <1>8
    <3> QED BY <3>1, <3>2, <3>3, <1>1, <1>2, <1>6, <1>8, <1>9 DEF LoopInv, At
  <2> QED BY <1>1, <1>8, <1>9, <2>1, <2>2 DEF IInv, olderTypeOK, Shape, ResultRight
<1>11. CASE new_top = new_bot
  <2>1. pc' = "done" /\ k' = base + (IF id < At(new_top) THEN new_top ELSE new_top + 1)
    BY <1>11 DEF search
  <2>2. new_top \in 0..(PartLen - 1)
    BY <1>1, <1>2, <1>6, <1>8
  <2>3. /\ At(new_top) = ids[base + new_top + 1] /\ At(new_top) \in Int
        /\ base + new_top + 1 \in 1..n
    BY <2>2, <1>4
  <2>4. \A i \in 1..base : ids[i] <= id
    <3> SUFFICES ASSUME NEW i \in 1..base PROVE ids[i] <= id
      OBVIOUS
    <3>1. base = len1 /\ base # 0 /\ i \in 1..n
      BY <1>1
    <3>2. ids[i] <= ids[len1] /\ ids[i] \in Int
      BY <3>1, <1>1, <1>5
    <3> QED BY <3>1, <3>2, <1>1, <1>6
  <2>5. CASE id < At(new_top)
    <3>1. k' = base + new_top /\ k' \in 0..n
      BY <2>1, <2>5, <2>2, <1>1, <1>2
    <3>2. ASSUME NEW i \in 1..k' PROVE ids[i] <= id
      <4>1. CASE i <= base
        BY <4>1, <2>4, <1>1
      <4>2. CASE i > base
        <5>1. new_top > 0
          BY <4>2, <3>1, <1>1, <2>2
        <5>2. At(new_top - 1) <= id
          BY <5>1, <2>5, <2>3, <1>1, <1>8, <1>11
        <5>3. /\ new_top - 1 \in 0..(PartLen - 1)
              /\ base + (new_top - 1) + 1 = k'
          BY <5>1, <2>2, <3>1, <1>1, <1>2
        <5>4. ids[k'] <= id /\ ids[k'] \in Int /\ k' \in 1..n
          BY <5>2, <5>3, <1>4
        <5>5. ids[i] <= ids[k'] /\ ids[i] \in Int
          BY <5>4, <3>1, <1>1, <1>5
        <5> QED BY <5>4, <5>5, <1>1
      <4> QED BY <4>1, <4>2, <1>1, <3>1
    <3>3. ASSUME NEW i \in (k' + 1)..n PROVE ids[i] > id
      <4>1. i \in 1..n /\ base + new_top + 1 <= i
        BY <3>1, <1>1, <2>2
      <4>2. ids[base + new_top + 1] <= ids[i] /\ ids[i] \in Int
        BY <4>1, <2>3, <1>1, <1>5
      <4> QED BY <4>2, <2>3, <2>5, <1>1
    <3>4. ResultRight'
      <4>1. /\ \A i \in (k' + 1)..n : ids[i] >= id
            /\ id \in {ids[i] : i \in 1..n} => k' > 0 /\ ids[k'] = id
        <5>2. ids \in [1..n -> Int] /\ k' \in 0..n /\ n \in Nat /\ id \in Int
          BY <1>1, <3>1
        <5> QED BY <3>2, <3>3, <5>2, <1>5, LastDropped
      <4> QED BY <3>2, <4>1, <1>1 DEF ResultRight
    <3> QED BY <3>1, <3>4, <1>1, <1>8, <1>9, <2>1 DEF IInv, olderTypeOK, Shape
  <2>6. CASE ~(id < At(new_top))
    <3>1. k' = base + new_top + 1 /\ k' \in 1..n /\ ids[k'] <= id /\ ids[k'] \in Int
      BY <2>1, <2>6, <2>2, <2>3, <1>1, <1>2
    <3>2. ASSUME NEW i \in 1..k' PROVE ids[i] <= id
      <4>1. ids[i] <= ids[k'] /\ ids[i] \in Int
        BY <3>1, <1>1, <1>5
      <4> QED BY <4>1, <3>1, <1>1
    <3>3. ASSUME NEW i \in (k' + 1)..n
          PROVE  ids[i] > id \/ (ids[i] = id /\ k' > 0 /\ ids[k'] = id)
      <4>1. i \in 1..n /\ k' < i /\ ids[k'] <= ids[i] /\ ids[i] \in Int
        BY <3>1, <1>1, <1>5
      <4>2. CASE new_top = PartLen - 1
        <5>1. base = 0 /\ k' = len1
          BY <4>1, <4>2, <3>1, <1>1, <1>2, <2>2
        <5> QED BY <5>1, <4>1, <3>1, <1>1, <1>6
      <4>3. CASE id < At(new_top + 1) /\ new_top # PartLen - 1
        <5>1. /\ new_top + 1 \in 0..(PartLen - 1)
              /\ base + (new_top + 1) + 1 = k' + 1
          BY <4>3, <2>2, <3>1, <1>1, <1>2
        <5>2. id < ids[k' + 1] /\ k' + 1 \in 1..n /\ ids[k' + 1] \in Int
          BY <5>1, <4>3, <1>4, <1>1
        <5>3. ids[k' + 1] <= ids[i]
          BY <5>2, <4>1, <1>1, <1>5, <3>1, SMTT(30)
        <5> QED BY <5>2, <5>3, <4>1, <1>1
      <4>4. CASE At(new_top) = id
        BY <4>4, <4>1, <3>1, <2>3, <1>1
      <4> QED BY <4>2, <4>3, <4>4, <2>6, <1>8
    <3>4. ResultRight'
      <4>1. /\ \A i \in (k' + 1)..n : ids[i] >= id
            /\ id \in {ids[i] : i \in 1..n} => k' > 0 /\ ids[k'] = id
        <5>2. ids \in [1..n -> Int] /\ k' \in 0..n /\ n \in Nat /\ id \in Int
          BY <1>1, <3>1
        <5> QED BY <3>2, <3>3, <5>2, <1>5, LastDropped
      <4> QED BY <3>2, <4>1, <1>1 DEF ResultRight
    <3> QED BY <3>1, <3>4, <1>1, <1>8, <1>9, <2>1 DEF IInv, olderTypeOK, Shape
  <2> QED BY <2>5, <2>6
<1> QED BY <1>10, <1>11

\* Choosing the part and every iteration preserve the inductive invariant.
LEMMA NextIInv == IInv /\ [olderNext]_olderVars => IInv'
<1> SUFFICES ASSUME IInv, [olderNext]_olderVars PROVE IInv'
  OBVIOUS
<1>1. CASE choose_part
  BY <1>1, ChoosePartIInv
<1>2. CASE search
  BY <1>2, SearchIInv
<1>3. CASE UNCHANGED olderVars
  BY <1>3 DEF olderVars, IInv, olderTypeOK, Shape, ResultRight, LoopInv, PartLen, At, n
<1> QED BY <1>1, <1>2, <1>3 DEF olderNext

\* drop_older_than drops every event before the first one with the id asked for,
\* that one or a later one with the same id, and no event after those.
THEOREM SearchIsRight == olderSpec => []ResultRight
<1>1. IInv => ResultRight
  BY DEF IInv
<1> QED BY <1>1, InitIInv, NextIInv, PTL DEF olderSpec

\* The search stays inside the part it bisects and is never longer than the
\* assertion in the loop allows.
THEOREM SearchStaysInside == olderSpec => []SearchInside
<1>1. IInv => SearchInside
  <2> SUFFICES ASSUME IInv, pc = "search"
               PROVE  bot <= top /\ base + top < n /\ steps < n
    BY DEF SearchInside
  <2>1. /\ n \in Nat /\ len1 \in 1..n /\ base \in {0, len1}
        /\ bot \in Nat /\ top \in Nat /\ steps \in Nat /\ LoopInv
    BY DEF IInv, olderTypeOK, Shape
  <2> QED BY <2>1 DEF LoopInv, PartLen
<1> QED BY <1>1, InitIInv, NextIInv, PTL DEF olderSpec

\* The assertions on bot and top hold in every search of a part with several
\* events: a part of one event is the only one where they fail.
THEOREM BisectAssertsHold == olderSpec => [](PartLen > 1 => BisectAsserts)
<1>1. IInv => (PartLen > 1 => BisectAsserts)
  <2> SUFFICES ASSUME IInv, pc = "search", PartLen > 1
               PROVE  /\ id < At(pivot) /\ pivot = 0 => bot = 0 /\ top = 1
                      /\ id >= At(pivot) /\ bot = pivot => top = bot + 1
    BY DEF BisectAsserts
  <2>1. bot \in Nat /\ top \in Nat /\ bot < top
    BY DEF IInv, olderTypeOK, LoopInv
  <2>2. /\ pivot \in Nat /\ bot <= pivot
        /\ pivot = bot => top <= bot + 1
    BY <2>1, PivotBetween
  <2> QED BY <2>1, <2>2
<1> QED BY <1>1, InitIInv, NextIInv, PTL DEF olderSpec

=============================================================================
