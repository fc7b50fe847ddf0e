--------------------------- MODULE DarkPoolVault ---------------------------
(***************************************************************************)
(* The collateral vault on Polygon (contracts-evm, DarkPoolVault.sol).     *)
(*                                                                         *)
(* A transaction is one step, except that withdraw hands control to the    *)
(* caller in the middle (msg.sender.call, line 111).  A caller with code   *)
(* may call the vault again from there, so its withdraw is two steps with  *)
(* a frame on the call stack in between; if the call comes back failed the *)
(* EVM puts back everything the frame and its inner calls wrote.           *)
(***************************************************************************)
EXTENDS Integers, FiniteSetsExt, Functions, SequencesExt

CONSTANTS
    Accounts,        \* senders of transactions
    Contracts,       \* the accounts that have code and so receive the call
    Owner,           \* the deployer, msg.sender of the constructor
    Midnights,       \* addresses of Midnight contracts
    Epochs,          \* the uint64 a settlement is keyed on
    Conditions,      \* Polymarket condition ids
    Sizes,           \* the uint256 amounts a caller may pass
    Crossed,         \* the matched amounts a settlement may report
    MaxDeposits,     \* bound: the native currency in circulation
    MaxSettlements,  \* bound: settlements ever recorded
    MaxDepth         \* bound: nested calls (gas bounds them in the EVM)

ASSUME VaultAssumption ==
    /\ Contracts \subseteq Accounts /\ IsFiniteSet(Accounts)
    /\ Owner \in Accounts
    /\ Sizes \subseteq Nat /\ Crossed \subseteq Nat
    /\ MaxDeposits \in Nat /\ MaxSettlements \in Nat /\ MaxDepth \in Nat

VARIABLES
    executor, deposits, totalDeposits, committed, settlements, settled,
    released,  \* history: the keys releaseEpoch was called with
    exact,     \* history: each of them once, for the size that was settled
    balance,   \* the native currency the contract's address holds
    frames     \* withdraw calls waiting for the receiver to return

storage == <<executor, deposits, totalDeposits, committed, settlements,
             settled, released, exact, balance>>
vars == <<storage, frames>>

Side == {"YES", "NO"}
Keys == Midnights \X Epochs

Settlement == [midnightContract : Midnights, epoch : Epochs, conditionId : Conditions,
               side : Side, size : Nat, crossed : Nat]

\* What a failed call restores.
Storage == [executor : Accounts, deposits : [Accounts -> Nat], totalDeposits : Nat,
            committed : Nat, settlements : Seq(Settlement), settled : SUBSET Keys,
            released : SUBSET Keys, exact : BOOLEAN, balance : Nat]

Saved == [executor |-> executor, deposits |-> deposits, totalDeposits |-> totalDeposits,
          committed |-> committed, settlements |-> settlements, settled |-> settled,
          released |-> released, exact |-> exact, balance |-> balance]

Key(s) == <<s.midnightContract, s.epoch>>

\* The constructor: an executor_ of zero makes the deployer the executor.
Init ==
    /\ executor \in Accounts
    /\ deposits = [a \in Accounts |-> 0]
    /\ totalDeposits = 0
    /\ committed = 0
    /\ settlements = <<>>
    /\ settled = {}
    /\ released = {}
    /\ exact = TRUE
    /\ balance = 0
    /\ frames = <<>>

-----------------------------------------------------------------------------

\* While a receiver runs, every call comes from some contract it invokes.
MayCall(a) == frames # <<>> => a \in Contracts

DepositOverwrites(a, value) ==  \* mutant: = where += is meant
    /\ MayCall(a)
    /\ value > 0
    /\ totalDeposits + value <= MaxDeposits
    /\ deposits' = [deposits EXCEPT ![a] = value]
    /\ totalDeposits' = totalDeposits + value
    /\ balance' = balance + value
    /\ UNCHANGED <<executor, committed, settlements, settled, released, exact, frames>>

\* deposit and receive do the same.
deposit(a, value) ==
    /\ MayCall(a)
    /\ value > 0
    /\ totalDeposits + value <= MaxDeposits
    /\ deposits' = [deposits EXCEPT ![a] = @ + value]
    /\ totalDeposits' = totalDeposits + value
    /\ balance' = balance + value
    /\ UNCHANGED <<executor, committed, settlements, settled, released, exact, frames>>

freeCollateral == IF totalDeposits > committed THEN totalDeposits - committed ELSE 0

\* Both debits and the payment.
Debit(a, amount) ==
    /\ deposits' = [deposits EXCEPT ![a] = @ - amount]
    /\ totalDeposits' = totalDeposits - amount
    /\ balance' = balance - amount
    /\ UNCHANGED <<executor, committed, settlements, settled, released, exact>>

WithdrawCommitted(a, amount) ==  \* mutant: only the caller's balance is checked
    MayCall(a) /\ amount <= deposits[a] /\ Debit(a, amount)

\* The part of withdraw before the receiver runs.
WithdrawDebit(a, amount) ==
    /\ MayCall(a)
    /\ amount <= deposits[a]
    /\ amount <= freeCollateral
    /\ Debit(a, amount)

\* An account without code accepts the payment and nothing runs.
withdraw(a, amount) ==
    /\ a \notin Contracts
    /\ WithdrawDebit(a, amount)
    /\ UNCHANGED frames

withdrawCall(a, amount) ==
    /\ a \in Contracts
    /\ Len(frames) < MaxDepth
    /\ WithdrawDebit(a, amount)
    /\ frames' = Append(frames, Saved)

withdrawReturn ==
    /\ frames # <<>>
    /\ frames' = Front(frames)
    /\ UNCHANGED storage

\* TransferFailed, or any revert further out: the frame's writes are undone.
withdrawRevert ==
    /\ frames # <<>>
    /\ LET old == Last(frames)
       IN /\ executor' = old.executor
          /\ deposits' = old.deposits
          /\ totalDeposits' = old.totalDeposits
          /\ committed' = old.committed
          /\ settlements' = old.settlements
          /\ settled' = old.settled
          /\ released' = old.released
          /\ exact' = old.exact
          /\ balance' = old.balance
    /\ frames' = Front(frames)

\* What settleResidual writes once its checks are passed.
RecordSettlement(m, e, cond, side, size, crossed) ==
    /\ Len(settlements) < MaxSettlements
    /\ settled' = settled \union {<<m, e>>}
    /\ committed' = committed + size
    /\ settlements' = Append(settlements,
           [midnightContract |-> m, epoch |-> e, conditionId |-> cond,
            side |-> side, size |-> size, crossed |-> crossed])
    /\ UNCHANGED <<executor, deposits, totalDeposits, released, exact, balance, frames>>

SettleTwice(a, m, e, cond, side, size, crossed) ==  \* mutant: no AlreadySettled
    /\ MayCall(a) /\ a = executor
    /\ size # 0 /\ size <= freeCollateral
    /\ RecordSettlement(m, e, cond, side, size, crossed)

SettleCommitsAgain(a, m, e, cond, side, size, crossed) ==
    \* mutant: a relay repeated is recorded once but commits every time
    /\ MayCall(a) /\ a = executor
    /\ size # 0 /\ size <= freeCollateral
    /\ \/ <<m, e>> \notin settled /\ RecordSettlement(m, e, cond, side, size, crossed)
       \/ /\ <<m, e>> \in settled
          /\ committed' = committed + size
          /\ UNCHANGED <<executor, deposits, totalDeposits, settlements, settled,
                         released, exact, balance, frames>>

SettleUnbacked(a, m, e, cond, side, size, crossed) ==
    \* mutant: the size is not compared with the free collateral
    /\ MayCall(a) /\ a = executor
    /\ <<m, e>> \notin settled /\ size # 0
    /\ RecordSettlement(m, e, cond, side, size, crossed)

settleResidual(a, m, e, cond, side, size, crossed) ==
    /\ MayCall(a)
    /\ a = executor
    /\ <<m, e>> \notin settled
    /\ size # 0
    /\ size <= freeCollateral
    /\ RecordSettlement(m, e, cond, side, size, crossed)

SizeOf(k) == LET i == CHOOSE i \in DOMAIN settlements : Key(settlements[i]) = k
             IN settlements[i].size

Uncommit(m, e, amount) ==
    /\ committed' = IF committed > amount THEN committed - amount ELSE 0
    /\ released' = released \union {<<m, e>>}
    /\ exact' = (exact /\ <<m, e>> \notin released /\ amount = SizeOf(<<m, e>>))
    /\ UNCHANGED <<executor, deposits, totalDeposits, settlements, balance, frames>>

releaseEpoch(a, m, e, amount) ==
    /\ MayCall(a)
    /\ a = executor
    /\ <<m, e>> \in settled
    /\ Uncommit(m, e, amount)
    /\ UNCHANGED settled

setExecutor(a, next) ==
    /\ MayCall(a)
    /\ a = Owner
    /\ executor' = next
    /\ UNCHANGED <<deposits, totalDeposits, committed, settlements, settled, released,
                   exact, balance, frames>>

-----------------------------------------------------------------------------

Users ==
    \E a \in Accounts, v \in Sizes :
        deposit(a, v) \/ withdraw(a, v) \/ withdrawCall(a, v)

Receiver == withdrawReturn \/ withdrawRevert

Settling ==
    \E a \in Accounts, m \in Midnights, e \in Epochs, cond \in Conditions,
       side \in Side, size \in Sizes, crossed \in Crossed :
        settleResidual(a, m, e, cond, side, size, crossed)

Releasing ==
    \E a \in Accounts, m \in Midnights, e \in Epochs, amount \in Sizes :
        releaseEpoch(a, m, e, amount)

Owning == \E a, next \in Accounts : setExecutor(a, next)

Next == Users \/ Receiver \/ Settling \/ Releasing \/ Owning

Spec == Init /\ [][Next]_vars

-----------------------------------------------------------------------------

\* The storage keeps the Solidity types; no checked subtraction underflows
\* (withdraw's two debits, line 109).
TypeOK == Saved \in Storage /\ frames \in Seq(Storage)

\* The three records of money agree at every moment, in the middle of a
\* withdraw too: what the depositors are owed, the running total and the
\* currency the contract holds (deposit, receive, withdraw).
BooksBalance ==
    /\ SumFunction(deposits) = totalDeposits
    /\ balance = totalDeposits

\* Fills never commit more than depositors have put in, although a receiver
\* may settle, release or withdraw again before its withdraw ends.
CollateralBacked == committed <= totalDeposits

KeyedOnce(keys, log) ==
    /\ \A k \in keys : \E i \in DOMAIN log : Key(log[i]) = k
    /\ \A i \in DOMAIN log : Key(log[i]) \in keys
    /\ \A i, j \in DOMAIN log : Key(log[i]) = Key(log[j]) => i = j

\* A (Midnight contract, epoch) pair settles at most once, ever, and settled
\* says exactly which did: releasing an epoch does not open it again.
SettledOnce == KeyedOnce(settled, settlements)

\* The fills of a log, and those of them whose key is not among keys.
SizesIn(log) == [i \in DOMAIN log |-> log[i].size]
OpenIn(log, keys) == {i \in DOMAIN log : Key(log[i]) \notin keys}

\* Nothing is locked up that no settlement asked for, and what is locked up is
\* what the open ones asked for as long as the executor has released each epoch
\* once and for the size it settled (settleResidual, releaseEpoch).
CommittedIsAccountedFor ==
    /\ committed <= SumFunction(SizesIn(settlements))
    /\ exact => committed =
           SumFunctionOnSet(SizesIn(settlements), OpenIn(settlements, released))

\* Once the outermost call has ended, a settlement stays on record for good:
\* only the failed call that wrote it can take it back.
SettlementsAreKept ==
    [][frames = <<>> => /\ IsPrefix(settlements, settlements')
                        /\ settled \subseteq settled']_vars

\* What holds of a storage at every moment.  Until the executor has released a
\* wrong amount, the collateral committed is that of the open fills.
SoundStorage ==
    {s \in Storage :
        /\ SumFunction(s.deposits) = s.totalDeposits
        /\ s.balance = s.totalDeposits
        /\ s.committed <= s.totalDeposits
        /\ s.committed <= SumFunction(SizesIn(s.settlements))
        /\ KeyedOnce(s.settled, s.settlements)
        /\ s.released \subseteq s.settled
        /\ s.exact => s.committed =
              SumFunctionOnSet(SizesIn(s.settlements), OpenIn(s.settlements, s.released))}

\* The storage is sound, and so is every storage a failing call would bring
\* back: what makes withdrawRevert as safe as the other steps.
EveryLayerSound == Saved \in SoundStorage /\ frames \in Seq(SoundStorage)

\* "Collateral committed to residual fills, so it cannot be withdrawn from
\* underneath an open position" (DarkPoolVault.sol:41): deposits cover every
\* fill that was settled and not released.
OpenFillsBacked ==
    totalDeposits >= SumFunctionOnSet(SizesIn(settlements), OpenIn(settlements, released))

\* That holds as long as the executor releases each epoch once and for the
\* size it settled, whatever depositors and receivers do in between
\* (releaseEpoch takes the amount on trust, line 166).
ExactReleasesAreBacked == exact => OpenFillsBacked

=============================================================================
