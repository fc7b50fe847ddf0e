------------------------ MODULE DarkPoolVaultProofs ------------------------
(***************************************************************************)
(* Safety of the vault for any number of accounts, contracts, epochs and   *)
(* amounts, however deep withdrawals nest.                                 *)
(*                                                                         *)
(* The invariants of the storage alone are not inductive: a failing call   *)
(* brings an older storage back, so each of those must be sound as well.   *)
(* EveryLayerSound says so and is inductive.                               *)
(***************************************************************************)
EXTENDS DarkPoolVault, Sums, SequenceTheorems, TLAPS

\* Taking the innermost frame off leaves a call stack of the same kind.
LEMMA PopFrame ==
    ASSUME NEW S, NEW seq \in Seq(S), seq # <<>>
    PROVE  Front(seq) \in Seq(S) /\ Last(seq) \in S
<1>1. Len(seq) \in Nat \ {0} /\ seq \in [1..Len(seq) -> S]
  BY EmptySeq, LenProperties
<1>2. \A i \in 1..(Len(seq) - 1) : seq[i] \in S
  BY <1>1
<1>3. SubSeq(seq, 1, Len(seq) - 1) \in Seq(S)
  BY <1>1, <1>2, SubSeqProperties
<1> QED
  BY <1>1, <1>3 DEF Front, Last

\* Appending an entry under a fresh key keeps the log keyed once.
LEMMA AppendFreshKey ==
    ASSUME NEW keys, NEW log \in Seq(Settlement), NEW s \in Settlement,
           KeyedOnce(keys, log), Key(s) \notin keys
    PROVE  KeyedOnce(keys \union {Key(s)}, Append(log, s))
<1> DEFINE more == Append(log, s)
           n == Len(log) + 1
<1>1. /\ Len(log) \in Nat
      /\ DOMAIN log = 1..Len(log)
      /\ DOMAIN more = 1..n
      /\ \A i \in 1..Len(log) : more[i] = log[i]
      /\ more[n] = s
  BY AppendProperties, LenProperties
<1>2. \A i \in DOMAIN more : i = n \/ (i \in DOMAIN log /\ more[i] = log[i])
  BY <1>1
<1> HIDE DEF more, n
<1>3. \A k \in keys \union {Key(s)} : \E i \in DOMAIN more : Key(more[i]) = k
  <2>1. n \in DOMAIN more /\ Key(more[n]) = Key(s)
    BY <1>1 DEF n
  <2>2. \A i \in DOMAIN log : i \in DOMAIN more /\ more[i] = log[i]
    BY <1>1 DEF n
  <2> QED
    BY <2>1, <2>2 DEF KeyedOnce
<1>4. \A i \in DOMAIN more : Key(more[i]) \in keys \union {Key(s)}
  BY <1>1, <1>2 DEF KeyedOnce
<1>5. \A i, j \in DOMAIN more : Key(more[i]) = Key(more[j]) => i = j
  <2> SUFFICES ASSUME NEW i \in DOMAIN more, NEW j \in DOMAIN more,
                      Key(more[i]) = Key(more[j])
               PROVE  i = j
    OBVIOUS
  <2>1. \A h \in DOMAIN log : Key(log[h]) # Key(s)
    BY DEF KeyedOnce
  <2> QED
    BY <1>1, <1>2, <2>1 DEF KeyedOnce
<1> QED
  BY <1>3, <1>4, <1>5 DEF KeyedOnce, more

-----------------------------------------------------------------------------

(* The sums over a log                                                     *)

LEMMA FillsAreNumbers ==
    ASSUME NEW log \in Seq(Settlement)
    PROVE  /\ DOMAIN SizesIn(log) = DOMAIN log
           /\ IsFiniteSet(DOMAIN log)
           /\ \A i \in DOMAIN log : SizesIn(log)[i] = log[i].size /\ log[i].size \in Nat
           /\ \A I \in SUBSET (DOMAIN log) :
                 IsFiniteSet(I) /\ SumFunctionOnSet(SizesIn(log), I) \in Nat
<1>1. Len(log) \in Nat /\ DOMAIN log = 1..Len(log) /\ \A i \in 1..Len(log) : log[i] \in Settlement
  BY LenProperties
<1>2. IsFiniteSet(DOMAIN log)
  BY <1>1, FS_Interval
<1>3. /\ DOMAIN SizesIn(log) = DOMAIN log
      /\ \A i \in DOMAIN log : SizesIn(log)[i] = log[i].size /\ log[i].size \in Nat
  BY <1>1 DEF SizesIn, Settlement
<1>4. ASSUME NEW I \in SUBSET (DOMAIN log)
      PROVE  IsFiniteSet(I) /\ SumFunctionOnSet(SizesIn(log), I) \in Nat
  <2>1. IsFiniteSet(I)
    BY <1>2, FS_Subset
  <2> QED
    BY <1>3, <2>1, SumIsNat
<1> QED
  BY <1>2, <1>3, <1>4

\* One more fill adds its size to any sum that it enters.
LEMMA OneMoreFill ==
    ASSUME NEW log \in Seq(Settlement), NEW s \in Settlement, NEW I \in SUBSET (DOMAIN log)
    PROVE  SumFunctionOnSet(SizesIn(Append(log, s)), I \union {Len(log) + 1}) =
               SumFunctionOnSet(SizesIn(log), I) + s.size
<1> DEFINE more == Append(log, s)
           n == Len(log) + 1
<1>1. /\ Len(log) \in Nat /\ DOMAIN log = 1..Len(log) /\ n \notin DOMAIN log
      /\ more \in Seq(Settlement) /\ DOMAIN more = 1..n /\ more[n] = s
      /\ \A i \in DOMAIN log : i \in DOMAIN more /\ more[i] = log[i]
  BY AppendProperties, LenProperties
<1> HIDE DEF more, n
<1>2. n \in DOMAIN more /\ I \in SUBSET (DOMAIN more) /\ n \notin I
  BY <1>1 DEF n
<1>3. IsFiniteSet(I) /\ \A i \in I \union {n} : SizesIn(more)[i] \in Int
  BY <1>1, <1>2, FillsAreNumbers
<1>4. SumFunctionOnSet(SizesIn(more), I \union {n}) =
          SumFunctionOnSet(SizesIn(more), I) + SizesIn(more)[n]
  BY <1>2, <1>3, SumOneMore
<1>5. SumFunctionOnSet(SizesIn(more), I) = SumFunctionOnSet(SizesIn(log), I)
  <2>1. \A i \in I : SizesIn(more)[i] = SizesIn(log)[i]
    BY <1>1, <1>2, FillsAreNumbers
  <2> QED
    BY <1>3, <2>1, SumOfSame
<1>6. SizesIn(more)[n] = s.size
  BY <1>1, <1>2, FillsAreNumbers
<1> QED
  BY <1>4, <1>5, <1>6 DEF more, n

\* A fill recorded under a fresh key is one more fill in all, and one more
\* open one.
LEMMA FillRecorded ==
    ASSUME NEW log \in Seq(Settlement), NEW s \in Settlement, NEW keys, NEW gone,
           KeyedOnce(keys, log), gone \subseteq keys, Key(s) \notin keys
    PROVE  /\ SumFunction(SizesIn(Append(log, s))) = SumFunction(SizesIn(log)) + s.size
           /\ SumFunctionOnSet(SizesIn(Append(log, s)), OpenIn(Append(log, s), gone)) =
                 SumFunctionOnSet(SizesIn(log), OpenIn(log, gone)) + s.size
<1> DEFINE more == Append(log, s)
           n == Len(log) + 1
<1>1. /\ DOMAIN log = 1..Len(log) /\ Len(log) \in Nat
      /\ more \in Seq(Settlement) /\ DOMAIN more = 1..n /\ more[n] = s
      /\ \A i \in DOMAIN log : more[i] = log[i]
  BY AppendProperties, LenProperties
<1>2. DOMAIN more = DOMAIN log \union {n} /\ n \notin DOMAIN log
  BY <1>1
<1> HIDE DEF more
<1>3. OpenIn(more, gone) = OpenIn(log, gone) \union {n}
  BY <1>1, <1>2 DEF OpenIn
<1>4. OpenIn(log, gone) \in SUBSET (DOMAIN log)
  BY DEF OpenIn
<1>5. /\ SumFunctionOnSet(SizesIn(more), DOMAIN log \union {n}) =
            SumFunctionOnSet(SizesIn(log), DOMAIN log) + s.size
      /\ SumFunctionOnSet(SizesIn(more), OpenIn(log, gone) \union {n}) =
            SumFunctionOnSet(SizesIn(log), OpenIn(log, gone)) + s.size
  BY <1>4, OneMoreFill DEF more
<1>6. DOMAIN SizesIn(more) = DOMAIN log \union {n} /\ DOMAIN SizesIn(log) = DOMAIN log
  BY <1>1, <1>2, FillsAreNumbers
<1> QED
  BY <1>3, <1>5, <1>6 DEF SumFunction, more

\* A key that is released takes its own fill, and no other, out of the open ones.
LEMMA FillReleased ==
    ASSUME NEW log \in Seq(Settlement), NEW keys, NEW gone, KeyedOnce(keys, log),
           NEW i \in DOMAIN log, Key(log[i]) \notin gone
    PROVE  SumFunctionOnSet(SizesIn(log), OpenIn(log, gone)) =
               SumFunctionOnSet(SizesIn(log), OpenIn(log, gone \union {Key(log[i])}))
               + log[i].size
<1> DEFINE less == OpenIn(log, gone \union {Key(log[i])})
<1>1. less = OpenIn(log, gone) \ {i} /\ i \in OpenIn(log, gone)
  BY DEF OpenIn, KeyedOnce
<1> HIDE DEF less
<1>2. OpenIn(log, gone) \in SUBSET (DOMAIN log)
  BY DEF OpenIn
<1>3. /\ IsFiniteSet(OpenIn(log, gone))
      /\ \A j \in OpenIn(log, gone) : SizesIn(log)[j] \in Int
      /\ SizesIn(log)[i] = log[i].size /\ log[i].size \in Nat
      /\ SumFunctionOnSet(SizesIn(log), less) \in Nat
  BY <1>1, <1>2, FillsAreNumbers
<1>4. SumFunctionOnSet(SizesIn(log), OpenIn(log, gone)) =
          SizesIn(log)[i] + SumFunctionOnSet(SizesIn(log), less)
  BY <1>1, <1>3, SumLessOne
<1> QED
  BY <1>3, <1>4 DEF less

-----------------------------------------------------------------------------
(* Sound storage                                                           *)

OpenSum(log, gone) == SumFunctionOnSet(SizesIn(log), OpenIn(log, gone))

\* A field of a sound storage, by name.
LEMMA SoundFields ==
    ASSUME EveryLayerSound
    PROVE  /\ executor \in Accounts
           /\ deposits \in [Accounts -> Nat]
           /\ totalDeposits \in Nat /\ committed \in Nat /\ balance \in Nat
           /\ settlements \in Seq(Settlement)
           /\ settled \in SUBSET Keys /\ released \in SUBSET Keys
           /\ exact \in BOOLEAN
           /\ SumFunction(deposits) = totalDeposits
           /\ balance = totalDeposits
           /\ committed <= totalDeposits
           /\ committed <= SumFunction(SizesIn(settlements))
           /\ KeyedOnce(settled, settlements)
           /\ released \subseteq settled
           /\ exact => committed = OpenSum(settlements, released)
           /\ frames \in Seq(SoundStorage)
  BY DEF EveryLayerSound, SoundStorage, Storage, Saved, OpenSum

\* The same facts make the next storage sound.
LEMMA SoundNext ==
    ASSUME executor' \in Accounts,
           deposits' \in [Accounts -> Nat],
           totalDeposits' \in Nat, committed' \in Nat, balance' \in Nat,
           settlements' \in Seq(Settlement),
           settled' \in SUBSET Keys, released' \in SUBSET Keys, exact' \in BOOLEAN,
           SumFunction(deposits') = totalDeposits',
           balance' = totalDeposits',
           committed' <= totalDeposits',
           committed' <= SumFunction(SizesIn(settlements')),
           KeyedOnce(settled', settlements'),
           released' \subseteq settled',
           exact' => committed' = OpenSum(settlements', released')
    PROVE  Saved' \in SoundStorage
  BY DEF SoundStorage, Storage, Saved, OpenSum

\* What one account pays in or takes out, the running total gains or loses.
LEMMA DepositsChange ==
    ASSUME EveryLayerSound, NEW a \in Accounts, NEW d \in Int, deposits[a] + d \in Nat,
           deposits' = [deposits EXCEPT ![a] = @ + d]
    PROVE  deposits' \in [Accounts -> Nat] /\ SumFunction(deposits') = totalDeposits + d
<1>1. deposits \in [Accounts -> Nat] /\ deposits \in [Accounts -> Int] /\ IsFiniteSet(Accounts)
  BY SoundFields, VaultAssumption
<1>2. deposits' \in [Accounts -> Nat]
  BY <1>1
<1>3. SumFunction([deposits EXCEPT ![a] = @ + d]) = SumFunction(deposits) + d
  BY <1>1, SumWithOneChanged
<1> QED
  BY <1>2, <1>3, SoundFields

LEMMA FreeIsWithinDeposits ==
    ASSUME totalDeposits \in Nat, committed \in Nat, committed <= totalDeposits
    PROVE  freeCollateral = totalDeposits - committed
  BY DEF freeCollateral

\* The debit half of withdraw keeps the storage sound: what is taken is free.
LEMMA DebitSound ==
    ASSUME EveryLayerSound, NEW a \in Accounts, NEW amount \in Sizes,
           WithdrawDebit(a, amount)
    PROVE  Saved' \in SoundStorage
<1>1. amount \in Nat
  BY VaultAssumption
<1>2. amount <= deposits[a] /\ amount <= totalDeposits - committed
  BY SoundFields, FreeIsWithinDeposits DEF WithdrawDebit
<1>3. deposits' \in [Accounts -> Nat] /\ SumFunction(deposits') = totalDeposits - amount
  <2>1. /\ -amount \in Int /\ deposits[a] + (-amount) \in Nat
        /\ deposits[a] - amount = deposits[a] + (-amount)
        /\ totalDeposits - amount = totalDeposits + (-amount)
    BY <1>1, <1>2, SoundFields
  <2>2. deposits' = [deposits EXCEPT ![a] = @ + (-amount)]
    BY <2>1, SoundFields DEF WithdrawDebit, Debit
  <2> QED
    BY <2>1, <2>2, DepositsChange
<1> QED
  BY <1>1, <1>2, <1>3, SoundFields, SoundNext DEF WithdrawDebit, Debit

\* EveryLayerSound holds at deployment: every counter is zero.
LEMMA DeploymentSound ==
    ASSUME Init
    PROVE  EveryLayerSound
<1>1. /\ settlements = <<>> /\ settlements \in Seq(Settlement) /\ frames \in Seq(SoundStorage)
      /\ DOMAIN settlements = {}
  BY EmptySeq DEF Init
<1>2. SumFunction(deposits) = 0
  <2>1. DOMAIN deposits = Accounts /\ \A a \in Accounts : deposits[a] \in {0}
    BY DEF Init
  <2>2. IsFiniteSet(Accounts) /\ 0 \in {0} /\ \A a, b \in {0} : a + b \in {0}
    BY VaultAssumption
  <2>3. SumFunctionOnSet(deposits, Accounts) \in {0}
    BY <2>1, <2>2, SumStaysIn
  <2> QED
    BY <2>1, <2>3 DEF SumFunction
<1>3. /\ SumFunction(SizesIn(settlements)) = 0
      /\ SumFunctionOnSet(SizesIn(settlements), OpenIn(settlements, released)) = 0
  <2>1. DOMAIN SizesIn(settlements) = {} /\ OpenIn(settlements, released) = {}
    BY <1>1 DEF SizesIn, OpenIn
  <2> QED
    BY <2>1, SumOfNothing DEF SumFunction
<1>4. KeyedOnce(settled, settlements)
  BY <1>1 DEF KeyedOnce, Init
<1>5. deposits \in [Accounts -> Nat]
  BY DEF Init
<1>6. Saved \in Storage
  BY <1>1, <1>5 DEF Init, Saved, Storage
<1>7. /\ totalDeposits = 0 /\ committed = 0 /\ balance = 0 /\ 0 <= 0
      /\ released \subseteq settled
  BY DEF Init
<1>8. Saved \in SoundStorage
  BY <1>2, <1>3, <1>4, <1>6, <1>7 DEF SoundStorage, Saved
<1> QED
  BY <1>1, <1>8 DEF EveryLayerSound

\* And every step keeps it, callbacks and reverts included.
LEMMA StepSound ==
    ASSUME EveryLayerSound, [Next]_vars
    PROVE  EveryLayerSound'
<1> USE SoundFields, VaultAssumption
<1>1. CASE UNCHANGED vars
  BY <1>1 DEF EveryLayerSound, Saved, vars, storage
<1>2. ASSUME NEW a \in Accounts, NEW v \in Sizes, deposit(a, v)
      PROVE  EveryLayerSound'
  <2>1. v \in Nat /\ v \in Int /\ deposits[a] + v \in Nat
    BY <1>2
  <2>2. deposits' \in [Accounts -> Nat] /\ SumFunction(deposits') = totalDeposits + v
    BY <1>2, <2>1, DepositsChange DEF deposit
  <2> QED
    BY <1>2, <2>1, <2>2, SoundNext DEF deposit, EveryLayerSound
<1>3. ASSUME NEW a \in Accounts, NEW v \in Sizes, withdraw(a, v)
      PROVE  EveryLayerSound'
  BY <1>3, DebitSound DEF withdraw, EveryLayerSound
<1>4. ASSUME NEW a \in Accounts, NEW v \in Sizes, withdrawCall(a, v)
      PROVE  EveryLayerSound'
  <2>1. Saved' \in SoundStorage
    BY <1>4, DebitSound DEF withdrawCall
  <2>2. frames' \in Seq(SoundStorage)
    BY <1>4, AppendProperties DEF withdrawCall, EveryLayerSound
  <2> QED
    BY <2>1, <2>2 DEF EveryLayerSound
<1>5. CASE withdrawReturn
  <2>1. Saved' = Saved
    BY <1>5 DEF withdrawReturn, storage, Saved
  <2> QED
    BY <1>5, <2>1, PopFrame DEF withdrawReturn, EveryLayerSound
<1>6. CASE withdrawRevert
  <2>1. Last(frames) \in SoundStorage /\ Front(frames) \in Seq(SoundStorage)
    BY <1>6, PopFrame DEF withdrawRevert
  <2>2. Saved' \in SoundStorage
    BY <1>6, <2>1, SoundNext DEF withdrawRevert, SoundStorage, Storage, OpenSum
  <2> QED
    BY <1>6, <2>1, <2>2 DEF withdrawRevert, EveryLayerSound
<1>7. ASSUME NEW a \in Accounts, NEW m \in Midnights, NEW e \in Epochs,
             NEW cond \in Conditions, NEW side \in Side, NEW size \in Sizes,
             NEW crossed \in Crossed, settleResidual(a, m, e, cond, side, size, crossed)
      PROVE  EveryLayerSound'
  <2> DEFINE s == [midnightContract |-> m, epoch |-> e, conditionId |-> cond,
                   side |-> side, size |-> size, crossed |-> crossed]
  <2>1. s \in Settlement /\ Key(s) = <<m, e>>
    BY DEF Settlement, Key
  <2>2. settlements' = Append(settlements, s) /\ settled' = settled \union {Key(s)}
    BY <1>7, <2>1 DEF settleResidual, RecordSettlement
  <2> HIDE DEF s
  <2>3. settlements' \in Seq(Settlement)
    BY <2>1, <2>2, AppendProperties
  <2>4. KeyedOnce(settled', settlements')
    BY <1>7, <2>1, <2>2, AppendFreshKey DEF settleResidual
  <2>5. committed' \in Nat /\ committed' <= totalDeposits
    BY <1>7, FreeIsWithinDeposits DEF settleResidual, RecordSettlement
  <2>6. settled' \in SUBSET Keys /\ released' \subseteq settled'
    BY <1>7, <2>1, <2>2 DEF Keys, settleResidual, RecordSettlement
  <2>7. /\ SumFunction(SizesIn(settlements')) = SumFunction(SizesIn(settlements)) + size
        /\ OpenSum(settlements', released) = OpenSum(settlements, released) + size
    <3>1. s.size = size /\ Key(s) \notin settled
      BY <1>7, <2>1 DEF s, settleResidual
    <3> QED
      BY <2>1, <2>2, <3>1, FillRecorded DEF OpenSum
  <2>8. /\ SumFunction(SizesIn(settlements)) \in Int
        /\ committed' <= SumFunction(SizesIn(settlements'))
        /\ exact' => committed' = OpenSum(settlements', released')
    <3>1. SumFunction(SizesIn(settlements)) \in Int
      BY FillsAreNumbers DEF SumFunction
    <3> QED
      BY <1>7, <2>7, <3>1 DEF settleResidual, RecordSettlement
  <2>9. Saved' \in SoundStorage
    BY <1>7, <2>3, <2>4, <2>5, <2>6, <2>8, SoundNext DEF settleResidual, RecordSettlement
  <2> QED
    BY <1>7, <2>9 DEF settleResidual, RecordSettlement, EveryLayerSound
<1>8. ASSUME NEW a \in Accounts, NEW m \in Midnights, NEW e \in Epochs,
             NEW amount \in Sizes, releaseEpoch(a, m, e, amount)
      PROVE  EveryLayerSound'
  <2>1. committed' \in Nat /\ committed' <= committed
    BY <1>8 DEF releaseEpoch, Uncommit
  <2>2. released' \in SUBSET Keys /\ released' \subseteq settled'
    BY <1>8 DEF releaseEpoch, Uncommit, Keys
  <2>3. exact' \in BOOLEAN
    BY <1>8 DEF releaseEpoch, Uncommit
  <2>4. committed' <= SumFunction(SizesIn(settlements'))
    <3>1. SumFunction(SizesIn(settlements)) \in Int
      BY FillsAreNumbers DEF SumFunction
    <3> QED
      BY <1>8, <2>1, <3>1 DEF releaseEpoch, Uncommit
  <2>5. ASSUME exact'
        PROVE  committed' = OpenSum(settlements', released')
    <3>1. exact /\ <<m, e>> \notin released /\ amount = SizeOf(<<m, e>>)
      BY <1>8, <2>5 DEF releaseEpoch, Uncommit
    <3>2. \E i \in DOMAIN settlements : Key(settlements[i]) = <<m, e>>
      BY <1>8 DEF releaseEpoch, KeyedOnce
    <3> DEFINE i == CHOOSE i \in DOMAIN settlements : Key(settlements[i]) = <<m, e>>
    <3>3. i \in DOMAIN settlements /\ Key(settlements[i]) = <<m, e>> /\ settlements[i].size = amount
      BY <3>1, <3>2 DEF SizeOf
    <3> HIDE DEF i
    <3>4. OpenSum(settlements, released) = OpenSum(settlements, released') + amount
      BY <1>8, <3>1, <3>3, FillReleased DEF OpenSum, releaseEpoch, Uncommit
    <3>5. OpenSum(settlements, released') \in Nat
      BY FillsAreNumbers DEF OpenSum, OpenIn
    <3>6. committed = OpenSum(settlements, released)
      BY <3>1
    <3> QED
      BY <1>8, <3>4, <3>5, <3>6 DEF releaseEpoch, Uncommit
  <2>6. Saved' \in SoundStorage
    BY <1>8, <2>1, <2>2, <2>3, <2>4, <2>5, SoundNext DEF releaseEpoch, Uncommit
  <2> QED
    BY <1>8, <2>6 DEF releaseEpoch, Uncommit, EveryLayerSound
<1>9. ASSUME NEW a \in Accounts, NEW next \in Accounts, setExecutor(a, next)
      PROVE  EveryLayerSound'
  BY <1>9, SoundNext DEF setExecutor, EveryLayerSound
<1> QED
  BY <1>1, <1>2, <1>3, <1>4, <1>5, <1>6, <1>7, <1>8, <1>9
  DEF Next, Users, Receiver, Settling, Releasing, Owning

\* The storage is sound at every moment, and so is every storage that a
\* failing call may bring back (DarkPoolVault.sol:88-167).
THEOREM StorageIsSound == Spec => []EveryLayerSound
<1>1. Init => EveryLayerSound
  BY DeploymentSound
<1>2. EveryLayerSound /\ [Next]_vars => EveryLayerSound'
  BY StepSound
<1> QED
  BY <1>1, <1>2, PTL DEF Spec

-----------------------------------------------------------------------------

\* Every variable keeps its type: no checked subtraction of the contract can
\* underflow.
THEOREM VaultTypes == Spec => []TypeOK
<1>1. EveryLayerSound => TypeOK
  <2>1. SoundStorage \subseteq Storage
    BY DEF SoundStorage
  <2> QED
    BY <2>1, SeqMonotonic DEF EveryLayerSound, TypeOK
<1> QED
  BY <1>1, StorageIsSound, PTL

\* Fills never commit more collateral than depositors hold in the vault.
THEOREM CollateralIsBacked == Spec => []CollateralBacked
<1>1. EveryLayerSound => CollateralBacked
  BY SoundFields DEF CollateralBacked
<1> QED
  BY <1>1, StorageIsSound, PTL

\* A (Midnight contract, epoch) pair settles at most once, and settled says
\* which pairs did.
THEOREM SettlesAtMostOnce == Spec => []SettledOnce
<1>1. EveryLayerSound => SettledOnce
  BY SoundFields DEF SettledOnce
<1> QED
  BY <1>1, StorageIsSound, PTL

\* What depositors are owed, the running total and the currency held agree at
\* every moment, while a receiver runs too (DarkPoolVault.sol:87-114).
THEOREM BooksAlwaysBalance == Spec => []BooksBalance
<1>1. EveryLayerSound => BooksBalance
  BY SoundFields DEF BooksBalance
<1> QED
  BY <1>1, StorageIsSound, PTL

\* No collateral is locked up that no settlement asked for, however often the
\* executor relays, and while its releases are exact the collateral locked up
\* is the sum of the open settlements (DarkPoolVault.sol:134-146, 158-167).
THEOREM CommitmentsHaveFills == Spec => []CommittedIsAccountedFor
<1>1. EveryLayerSound => CommittedIsAccountedFor
  BY SoundFields DEF CommittedIsAccountedFor, OpenSum
<1> QED
  BY <1>1, StorageIsSound, PTL

\* As long as the executor releases each epoch once and for what it settled,
\* deposits cover every fill that is still open (DarkPoolVault.sol:41, 166).
THEOREM OpenFillsStayBacked == Spec => []ExactReleasesAreBacked
<1>1. EveryLayerSound => ExactReleasesAreBacked
  <2> SUFFICES ASSUME EveryLayerSound, exact PROVE OpenFillsBacked
    BY DEF ExactReleasesAreBacked
  <2>1. OpenSum(settlements, released) <= totalDeposits
    BY SoundFields
  <2> QED
    BY <2>1, SoundFields DEF OpenFillsBacked, OpenSum
<1> QED
  BY <1>1, StorageIsSound, PTL

\* The log grows at its end only, unless a call under way fails.
LEMMA StepKeepsSettlements ==
    ASSUME EveryLayerSound, [Next]_vars, frames = <<>>
    PROVE  IsPrefix(settlements, settlements') /\ settled \subseteq settled'
<1>1. settlements \in Seq(Settlement)
  BY SoundFields
<1>2. CASE UNCHANGED <<settlements, settled>>
  BY <1>1, <1>2, LenProperties DEF IsPrefix
<1>3. ASSUME NEW s \in Settlement, settlements' = Append(settlements, s),
             settled \subseteq settled'
      PROVE  IsPrefix(settlements, settlements')
  <2>1. Len(settlements) \in Nat /\ Len(settlements') = Len(settlements) + 1
    BY <1>1, <1>3, AppendProperties, LenProperties
  <2>2. SubSeq(settlements', 1, Len(settlements)) = SubSeq(settlements, 1, Len(settlements))
    <3>1. CASE Len(settlements) = 0
      BY <2>1, <3>1, SubSeqEmpty
    <3>2. CASE Len(settlements) # 0
      <4>1. Len(settlements) \in 1..Len(settlements) /\ 1 \in 1..Len(settlements)
        BY <2>1, <3>2
      <4>2. <<s>> \in Seq(Settlement)
        BY AppendProperties, EmptySeq
      <4> QED
        BY <1>1, <1>3, <4>1, <4>2, SubSeqOfConcat1, AppendIsConcat
    <3> QED
      BY <3>1, <3>2
  <2> QED
    BY <2>1, <2>2 DEF IsPrefix
<1>4. ASSUME NEW a \in Accounts, NEW m \in Midnights, NEW e \in Epochs,
             NEW cond \in Conditions, NEW side \in Side, NEW size \in Sizes,
             NEW crossed \in Crossed, settleResidual(a, m, e, cond, side, size, crossed)
      PROVE  IsPrefix(settlements, settlements') /\ settled \subseteq settled'
  <2>1. [midnightContract |-> m, epoch |-> e, conditionId |-> cond,
         side |-> side, size |-> size, crossed |-> crossed] \in Settlement
    BY VaultAssumption DEF Settlement
  <2> QED
    BY <1>3, <1>4, <2>1 DEF settleResidual, RecordSettlement
<1>5. \/ UNCHANGED <<settlements, settled>>
      \/ Settling
  BY DEF Next, vars, storage, Users, Receiver, Releasing, Owning, deposit, withdraw,
         withdrawCall, WithdrawDebit, Debit, withdrawReturn, withdrawRevert,
         releaseEpoch, Uncommit, setExecutor
<1> QED
  BY <1>2, <1>4, <1>5 DEF Settling

\* A settlement that no call under way can undo is on record for good.
THEOREM SettlementsStay == Spec => SettlementsAreKept
<1>1. EveryLayerSound /\ [Next]_vars =>
        [frames = <<>> => /\ IsPrefix(settlements, settlements')
                          /\ settled \subseteq settled']_vars
  BY StepKeepsSettlements
<1> QED
  BY <1>1, StorageIsSound, PTL DEF Spec, SettlementsAreKept

=============================================================================
