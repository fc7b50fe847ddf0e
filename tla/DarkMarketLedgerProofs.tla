----------------------- MODULE DarkMarketLedgerProofs -----------------------
(***************************************************************************)
(* The Compact contract for any number of transactions, blinds and sizes,  *)
(* and any width of its cells.                                             *)
(*                                                                         *)
(* That every opening used was sealed earlier is not inductive on its own: *)
(* it rests on the ledger holding no commitment that no transaction of the *)
(* history sealed, which LedgerSound adds.                                 *)
(***************************************************************************)
EXTENDS DarkMarketLedger, Sums, SequenceTheorems, TLAPS

\* The ledger holds no commitment that no transaction put there.
CommitmentsAreRecorded ==
    \A c \in commitments : \E i \in CallsOf("open_position") :
        persistentCommit(history[i].a) = c

LedgerSound ==
    /\ TypeOK /\ CountersAddUp /\ TotalsAreExact
    /\ CommitmentsAreRecorded /\ UsedOnlyWhatWasSealed

LEMMA NumbersAreFinite ==
    ASSUME history \in Seq(Calls), NEW op
    PROVE  IsFiniteSet(CallsOf(op)) /\ Cardinality(CallsOf(op)) \in Nat
<1>1. CallsOf(op) \in SUBSET (1..Len(history)) /\ Len(history) \in Nat
  BY LenProperties DEF CallsOf
<1>2. IsFiniteSet(1..Len(history))
  BY <1>1, FS_Interval
<1>3. IsFiniteSet(CallsOf(op))
  BY <1>1, <1>2, FS_Subset
<1> QED
  BY <1>3, FS_CardinalityType

\* One more transaction: the old ones stay where they are.
LEMMA Recorded ==
    ASSUME history \in Seq(Calls), NEW call \in Calls, Record(call)
    PROVE  /\ history' \in Seq(Calls)
           /\ Len(history) \in Nat /\ Len(history') = Len(history) + 1
           /\ DOMAIN history = 1..Len(history)
           /\ DOMAIN history' = 1..(Len(history) + 1)
           /\ \A i \in DOMAIN history : history'[i] = history[i]
           /\ history'[Len(history) + 1] = call
BY AppendProperties, LenProperties DEF Record

\* And the count of its kind, only, goes up by one.
LEMMA Counted ==
    ASSUME history \in Seq(Calls), NEW call \in Calls, Record(call), NEW op
    PROVE  Cardinality(CallsOf(op)') =
               Cardinality(CallsOf(op)) + (IF call.op = op THEN 1 ELSE 0)
<1> DEFINE n == Len(history) + 1
<1>1. n \notin CallsOf(op) /\ Len(history) \in Nat
  BY Recorded DEF CallsOf
<1>2. CASE call.op = op
  <2>1. CallsOf(op)' = CallsOf(op) \union {n}
    BY <1>2, Recorded DEF CallsOf
  <2>2. Cardinality(CallsOf(op) \union {n}) = Cardinality(CallsOf(op)) + 1
    BY <1>1, NumbersAreFinite, FS_AddElement
  <2> QED
    BY <1>2, <2>1, <2>2
<1>3. CASE call.op # op
  <2>1. CallsOf(op)' = CallsOf(op)
    BY <1>3, Recorded DEF CallsOf
  <2> QED
    BY <1>3, <2>1, NumbersAreFinite
<1> QED
  BY <1>2, <1>3

\* The three counts after one more call, as numbers.
LEMMA Recounted ==
    ASSUME history \in Seq(Calls), CountersAddUp, NEW call \in Calls, Record(call),
           opened' = opened + (IF call.op = "open_position" THEN 1 ELSE 0),
           matched' = matched + (IF call.op = "match_positions" THEN 1 ELSE 0)
    PROVE  CountersAddUp'
<1>1. /\ Cardinality(CallsOf("open_position")') = opened'
      /\ Cardinality(CallsOf("match_positions")') = matched'
      /\ Cardinality(CallsOf("mark_covered")') =
             round - opened - matched + (IF call.op = "mark_covered" THEN 1 ELSE 0)
  BY Counted DEF CountersAddUp
<1>2. call.op = "open_position" \/ call.op = "match_positions" \/ call.op = "mark_covered"
  BY DEF Calls, Ops
<1>3. round' = round + 1 /\ round' = Len(history') /\ round \in Int
  BY Recorded DEF Record, CountersAddUp
<1>4. opened \in Int /\ matched \in Int
  BY NumbersAreFinite DEF CountersAddUp
<1>5. round' - opened' - matched' =
          round - opened - matched + (IF call.op = "mark_covered" THEN 1 ELSE 0)
  BY <1>2, <1>3, <1>4
<1> QED
  BY <1>1, <1>3, <1>5 DEF CountersAddUp

\* Sizes are numbers, whatever the width of the cells.
LEMMA SizesAreIntegers == \A p \in Openings : p.size \in Int
<1> TAKE p \in Openings
<1>1. p.size \in Sizes
  BY DEF Openings
<1>2. \A s \in 0..MaxUint64 : s \in Int
  OBVIOUS
<1> QED
  BY <1>1, <1>2, LedgerAssumption

\* The smaller of two sizes, as the circuit computes it and as a minimum.
LEMMA SmallerSize ==
    ASSUME NEW a \in Openings, NEW b \in Openings
    PROVE  /\ Notional(Call("match_positions", a, b)) = CrossedSize(a, b)
           /\ Notional(Call("mark_covered", a, a)) = a.size
<1>1. a.size \in Int /\ b.size \in Int
  BY SizesAreIntegers
<1>2. \A x, y \in Int : Min({x, y}) = IF x < y THEN x ELSE y
  <2> TAKE x, y \in Int
  <2> DEFINE m == IF x < y THEN x ELSE y
  <2>1. m \in {x, y} /\ \A z \in {x, y} : m <= z
    OBVIOUS
  <2>2. \A n \in {x, y} : (\A z \in {x, y} : n <= z) => n = m
    OBVIOUS
  <2> HIDE DEF m
  <2>3. Min({x, y}) = m
    BY <2>1, <2>2 DEF Min
  <2> QED
    BY <2>3 DEF m
<1>3. Min({a.size, b.size}) = CrossedSize(a, b) /\ Min({a.size, a.size}) = a.size
  BY <1>1, <1>2 DEF CrossedSize
<1> QED
  BY <1>3 DEF Notional, Call

LEMMA NotionalIsANumber == \A c \in Calls : Notional(c) \in Int
<1> TAKE c \in Calls
<1>1. c.a \in Openings /\ c.b \in Openings
  BY DEF Calls
<1>2. Notional(c) = CrossedSize(c.a, c.b)
  BY <1>1, SmallerSize DEF Notional, Call
<1>3. c.a.size \in Int /\ c.b.size \in Int
  BY <1>1, SizesAreIntegers
<1> QED
  BY <1>2, <1>3 DEF CrossedSize

\* One more call adds what it is worth to the sum of its kind, only.
LEMMA Summed ==
    ASSUME history \in Seq(Calls), NEW call \in Calls, Record(call), NEW op
    PROVE  SumFunctionOnSet(Notionals', CallsOf(op)') =
               SumFunctionOnSet(Notionals, CallsOf(op))
               + (IF call.op = op THEN Notional(call) ELSE 0)
<1> DEFINE n == Len(history) + 1
           old == CallsOf(op)
           more == Notionals'
<1>1. n \notin old /\ n \in DOMAIN history' /\ IsFiniteSet(old)
  <2>1. DOMAIN history = 1..Len(history) /\ Len(history) \in Nat
    BY Recorded
  <2>2. n \notin DOMAIN history /\ old \subseteq DOMAIN history
    BY <2>1 DEF CallsOf
  <2>3. n \in 1..(Len(history) + 1)
    BY <2>1
  <2> QED
    BY <2>2, <2>3, Recorded, NumbersAreFinite
<1>2. more[n] = Notional(call) /\ \A i \in old : more[i] = Notionals[i]
  BY <1>1, Recorded DEF CallsOf, Notionals
<1>3. \A i \in old : Notionals[i] \in Int
  BY NotionalIsANumber, LenProperties DEF CallsOf, Notionals
<1>4. Notional(call) \in Int
  BY NotionalIsANumber
<1> HIDE DEF more, old
<1>5. /\ SumFunctionOnSet(more, old) = SumFunctionOnSet(Notionals, old)
      /\ SumFunctionOnSet(Notionals, old) \in Int
  BY <1>1, <1>2, <1>3, SumOfSame, SumIsInt
<1>6. CASE call.op = op
  <2>1. CallsOf(op)' = old \union {n}
    BY <1>6, Recorded DEF CallsOf, old
  <2>2. SumFunctionOnSet(more, old \union {n}) = SumFunctionOnSet(more, old) + more[n]
    <3>1. \A i \in old \union {n} : more[i] \in Int
      BY <1>2, <1>3, <1>4
    <3> QED
      BY <1>1, <3>1, SumOneMore
  <2> QED
    BY <1>2, <1>5, <1>6, <2>1, <2>2 DEF more, old
<1>7. CASE call.op # op
  <2>1. CallsOf(op)' = old
    BY <1>7, Recorded DEF CallsOf, old
  <2> QED
    BY <1>5, <1>7, <2>1 DEF more, old
<1> QED
  BY <1>6, <1>7

\* The two totals after one more call, as numbers.
LEMMA Retotalled ==
    ASSUME history \in Seq(Calls), TotalsAreExact, NEW call \in Calls, Record(call),
           matched_notional' = matched_notional
               + (IF call.op = "match_positions" THEN Notional(call) ELSE 0),
           covered_notional' = covered_notional
               + (IF call.op = "mark_covered" THEN Notional(call) ELSE 0)
    PROVE  TotalsAreExact'
BY Summed DEF TotalsAreExact

\* A commitment found in the ledger has an earlier transaction behind it.
LEMMA SealedEarlier ==
    ASSUME LedgerSound, NEW p \in Openings, IsOpened(p)
    PROVE  OpenedBefore(p, Len(history) + 1)
<1>1. PICK i \in CallsOf("open_position") : persistentCommit(history[i].a) = persistentCommit(p)
  BY DEF LedgerSound, CommitmentsAreRecorded, IsOpened
<1>2. i \in 1..Len(history) /\ Len(history) \in Nat
  BY LenProperties DEF CallsOf, LedgerSound, TypeOK
<1> QED
  BY <1>1, <1>2 DEF OpenedBefore, CallsOf

\* What was opened before a past transaction still was, once another is in.
LEMMA OpenedBeforeStays ==
    ASSUME history \in Seq(Calls), NEW call \in Calls, Record(call),
           NEW p, NEW i \in 1..(Len(history) + 1), OpenedBefore(p, i)
    PROVE  OpenedBefore(p, i)'
<1>1. \A j \in 1..(i - 1) : history'[j] = history[j]
  BY Recorded
<1> QED
  BY <1>1 DEF OpenedBefore

\* The part of the invariant that is about the history.
LEMMA NextCall ==
    ASSUME LedgerSound, NEW call \in Calls, Record(call),
           call.op # "open_position" => IsOpened(call.a) /\ IsOpened(call.b),
           call.op = "match_positions" => call.a.side # call.b.side
    PROVE  UsedOnlyWhatWasSealed'
<1> USE DEF LedgerSound, TypeOK
<1>1. /\ call.op # "open_position" =>
            /\ OpenedBefore(call.a, Len(history) + 1)
            /\ OpenedBefore(call.b, Len(history) + 1)
      /\ call.a \in Openings /\ call.b \in Openings
  BY SealedEarlier DEF Calls
<1> SUFFICES ASSUME NEW i \in DOMAIN history'
             PROVE  /\ history'[i].op # "open_position" =>
                          /\ OpenedBefore(history[i].a, i)'
                          /\ OpenedBefore(history[i].b, i)'
                    /\ history'[i].op = "match_positions" =>
                          history'[i].a.side # history'[i].b.side
  BY DEF UsedOnlyWhatWasSealed
<1>2. CASE i \in DOMAIN history
  <2>1. /\ history[i].op # "open_position" =>
              OpenedBefore(history[i].a, i) /\ OpenedBefore(history[i].b, i)
        /\ history[i].op = "match_positions" => history[i].a.side # history[i].b.side
    BY <1>2 DEF UsedOnlyWhatWasSealed
  <2>2. history'[i] = history[i] /\ i \in 1..(Len(history) + 1)
    BY <1>2, Recorded
  <2> QED
    BY <2>1, <2>2, OpenedBeforeStays DEF OpenedBefore
<1>3. CASE i = Len(history) + 1
  <2>1. history'[i] = call /\ i \in 1..(Len(history) + 1)
    BY <1>3, Recorded
  <2> QED
    BY <1>1, <1>3, <2>1, OpenedBeforeStays DEF OpenedBefore
<1> QED
  BY <1>2, <1>3, Recorded

LEMMA InitSound == Init => LedgerSound
<1> SUFFICES ASSUME Init PROVE LedgerSound
  OBVIOUS
<1>1. history = <<>> /\ history \in Seq(Calls) /\ Len(history) = 0 /\ DOMAIN history = {}
  BY DEF Init
<1>2. TypeOK
  BY <1>1, LedgerAssumption DEF Init, TypeOK
<1>3. CommitmentsAreRecorded /\ UsedOnlyWhatWasSealed
  BY <1>1 DEF Init, CommitmentsAreRecorded, UsedOnlyWhatWasSealed
<1>4. \A op : CallsOf(op) = {}
  BY <1>1 DEF CallsOf
<1>5. CountersAddUp
  BY <1>1, <1>4, FS_EmptySet DEF Init, CountersAddUp
<1>6. TotalsAreExact
  BY <1>4, SumOfNothing DEF Init, TotalsAreExact
<1> QED
  BY <1>2, <1>3, <1>5, <1>6 DEF LedgerSound

\* The openings of the history, those of one more transaction included.
LEMMA StillRecorded ==
    ASSUME LedgerSound, NEW call \in Calls, Record(call),
           NEW c \in commitments
    PROVE  \E i \in CallsOf("open_position")' : persistentCommit(history'[i].a) = c
<1>1. PICK i \in CallsOf("open_position") : persistentCommit(history[i].a) = c
  BY DEF LedgerSound, CommitmentsAreRecorded
<1>2. i \in DOMAIN history /\ history[i].op = "open_position"
  BY DEF CallsOf
<1>3. i \in DOMAIN history' /\ history'[i] = history[i]
  BY <1>2, Recorded DEF LedgerSound, TypeOK
<1> QED
  BY <1>1, <1>2, <1>3 DEF CallsOf

LEMMA NextSound == LedgerSound /\ [Next]_ledger => LedgerSound'
<1> SUFFICES ASSUME LedgerSound, [Next]_ledger PROVE LedgerSound'
  OBVIOUS
<1> USE LedgerAssumption DEF LedgerSound
<1>1. ASSUME NEW cond \in Conditions, NEW p \in Openings, open_position(cond, p)
      PROVE  LedgerSound'
  <2> DEFINE call == Call("open_position", p, p)
  <2>1. Record(call) /\ call \in Calls /\ call.op = "open_position" /\ call.a = p
    BY <1>1 DEF open_position, Call, Calls, Ops
  <2>2. TypeOK'
    BY <1>1, <2>1, Recorded DEF TypeOK, open_position, Record, position_commitment
  <2>3. UsedOnlyWhatWasSealed'
    BY <2>1, NextCall
  <2>4. CountersAddUp'
    BY <1>1, <2>1, Recounted DEF TypeOK, open_position
  <2>5. CommitmentsAreRecorded'
    <3> SUFFICES ASSUME NEW c \in commitments'
                 PROVE  \E i \in CallsOf("open_position")' : persistentCommit(history'[i].a) = c
      BY DEF CommitmentsAreRecorded
    <3>1. CASE c \in commitments
      BY <3>1, <2>1, StillRecorded
    <3>2. CASE c = persistentCommit(p)
      <4>1. Len(history) + 1 \in CallsOf("open_position")'
        BY <2>1, Recorded DEF CallsOf, TypeOK
      <4> QED
        BY <3>2, <4>1, <2>1, Recorded DEF TypeOK
    <3> QED
      BY <1>1, <3>1, <3>2 DEF open_position, position_commitment
  <2>6. TotalsAreExact'
    BY <1>1, <2>1, Retotalled DEF TypeOK, open_position
  <2> QED
    BY <2>2, <2>3, <2>4, <2>5, <2>6
<1>2. ASSUME NEW a \in Openings, NEW b \in Openings, match_positions(a, b)
      PROVE  LedgerSound'
  <2> DEFINE call == Call("match_positions", a, b)
  <2>1. /\ Record(call) /\ call \in Calls
        /\ call.op = "match_positions" /\ call.a = a /\ call.b = b
    BY <1>2 DEF match_positions, AddMatched, Call, Calls, Ops
  <2>2. TypeOK'
    <3>1. CrossedSize(a, b) \in 0..MaxUint64
      BY DEF CrossedSize, Openings
    <3> QED
      BY <1>2, <2>1, <3>1, Recorded DEF TypeOK, match_positions, AddMatched, Record
  <2>3. UsedOnlyWhatWasSealed'
    BY <1>2, <2>1, NextCall DEF match_positions
  <2>4. CountersAddUp'
    BY <1>2, <2>1, Recounted DEF TypeOK, match_positions, AddMatched
  <2>5. CommitmentsAreRecorded'
    BY <1>2, <2>1, StillRecorded DEF CommitmentsAreRecorded, match_positions, AddMatched
  <2>6. TotalsAreExact'
    BY <1>2, <2>1, SmallerSize, Retotalled DEF TypeOK, match_positions, AddMatched
  <2> QED
    BY <2>2, <2>3, <2>4, <2>5, <2>6
<1>3. ASSUME NEW p \in Openings, mark_covered(p)
      PROVE  LedgerSound'
  <2> DEFINE call == Call("mark_covered", p, p)
  <2>1. /\ Record(call) /\ call \in Calls
        /\ call.op = "mark_covered" /\ call.a = p /\ call.b = p
    BY <1>3 DEF mark_covered, Call, Calls, Ops
  <2>2. TypeOK'
    <3>1. p.size \in 0..MaxUint64
      BY DEF Openings
    <3> QED
      BY <1>3, <2>1, <3>1, Recorded DEF TypeOK, mark_covered, Record
  <2>3. UsedOnlyWhatWasSealed'
    BY <1>3, <2>1, NextCall DEF mark_covered
  <2>4. CountersAddUp'
    BY <1>3, <2>1, Recounted DEF TypeOK, mark_covered
  <2>5. CommitmentsAreRecorded'
    BY <1>3, <2>1, StillRecorded DEF CommitmentsAreRecorded, mark_covered
  <2>6. TotalsAreExact'
    BY <1>3, <2>1, SmallerSize, Retotalled DEF TypeOK, mark_covered
  <2> QED
    BY <2>2, <2>3, <2>4, <2>5, <2>6
<1>4. CASE UNCHANGED ledger
  BY <1>4 DEF ledger, TypeOK, CountersAddUp, TotalsAreExact, Notionals, Notional,
              CommitmentsAreRecorded, UsedOnlyWhatWasSealed, CallsOf, OpenedBefore
<1> QED
  BY <1>1, <1>2, <1>3, <1>4 DEF Next, Opening, Matching, Covering

-----------------------------------------------------------------------------

\* The inductive invariant, for every history the three circuits can leave:
\* what the cells say and what the history says are about the same calls.
THEOREM LedgerIsSound == Spec => []LedgerSound
<1> QED
  BY InitSound, NextSound, PTL DEF Spec

\* Every cell keeps its type; in particular the notional cells, which the
\* circuits cast back to Uint<64> (darkmarket.compact:89, 104), fail before
\* they wrap.
THEOREM LedgerTypes == Spec => []TypeOK
<1>1. LedgerSound => TypeOK
  BY DEF LedgerSound
<1> QED
  BY <1>1, LedgerIsSound, PTL

\* The three counters tell how many calls of each kind were included, the
\* covers among them, which no counter counts.
THEOREM CountersAreExact == Spec => []CountersAddUp
<1>1. LedgerSound => CountersAddUp
  BY DEF LedgerSound
<1> QED
  BY <1>1, LedgerIsSound, PTL

\* Every opening that a match or a cover used was sealed by an earlier
\* transaction (the membership asserts of darkmarket.compact).
THEOREM OnlySealedIsUsed == Spec => []UsedOnlyWhatWasSealed
<1>1. LedgerSound => UsedOnlyWhatWasSealed
  BY DEF LedgerSound
<1> QED
  BY <1>1, LedgerIsSound, PTL

\* The two published totals are exactly the sums over the included calls, up to
\* the last call that fits in 64 bits (darkmarket.compact:86-89, 104).
THEOREM TotalsAreSums == Spec => []TotalsAreExact
<1>1. LedgerSound => TotalsAreExact
  BY DEF LedgerSound
<1> QED
  BY <1>1, LedgerIsSound, PTL

=============================================================================
