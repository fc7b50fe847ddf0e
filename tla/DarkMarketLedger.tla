-------------------------- MODULE DarkMarketLedger --------------------------
(***************************************************************************)
(* The Compact contract on Midnight (darkmarket.compact): what its three   *)
(* circuits assert and what they leave in the ledger.                      *)
(*                                                                         *)
(* A position is sealed: the ledger holds the commitment to (side, size)   *)
(* under a blind, and a later circuit is handed the opening and recomputes *)
(* the commitment.  Each step is one transaction of a block; history is    *)
(* the chain's own record of them, in block order.                         *)
(***************************************************************************)
EXTENDS Integers, FiniteSets, SequencesExt

CONSTANTS
    Conditions,   \* Polymarket condition ids
    Sizes,        \* the sizes callers choose
    Blinds,       \* the 32 random bytes of a commitment
    MaxUint64,    \* largest value of a Uint<64> cell
    MaxCalls      \* bound: transactions on the contract

ASSUME LedgerAssumption ==
    /\ Sizes \subseteq 0..MaxUint64
    /\ MaxUint64 \in Nat /\ MaxCalls \in Nat

VARIABLES
    round, condition_id, commitments, opened, matched,
    matched_notional, covered_notional,
    history  \* history: the circuit calls included so far

ledger == <<round, condition_id, commitments, opened, matched,
            matched_notional, covered_notional, history>>

NoCondition == "unset"  \* 32 zero bytes: no transaction has named a market

\* An opening: side TRUE is YES.
Openings == [side : BOOLEAN, size : Sizes, blind : Blinds]

\* persistentCommit hides its input and never collides; only equality of
\* commitments is ever observed, so the pair of arguments stands for the hash.
persistentCommit(p) == <<[side |-> p.side, size |-> p.size], p.blind>>

position_commitment(p) == persistentCommit(p)

IsOpened(p) == persistentCommit(p) \in commitments

\* A circuit call as the chain records it; a plain open has b = a.
Call(op, a, b) == [op |-> op, a |-> a, b |-> b]

Included(call) == call \in ToSet(history)

Ops == {"open_position", "match_positions", "mark_covered"}
Calls == [op : Ops, a : Openings, b : Openings]

Init ==
    /\ round = 0
    /\ condition_id = NoCondition
    /\ commitments = {}
    /\ opened = 0
    /\ matched = 0
    /\ matched_notional = 0
    /\ covered_notional = 0
    /\ history = <<>>

\* A contract deployed afresh: every cell as the compiler initialises it.
deploy ==
    /\ round' = 0
    /\ condition_id' = NoCondition
    /\ commitments' = {}
    /\ opened' = 0
    /\ matched' = 0
    /\ matched_notional' = 0
    /\ covered_notional' = 0
    /\ history' = <<>>

-----------------------------------------------------------------------------

\* One more transaction in the chain's record.
Record(call) ==
    /\ Len(history) < MaxCalls
    /\ history' = Append(history, call)
    /\ round' = round + 1

\* The circuit is given the commitment, not the opening p behind it.
open_position(cond, p) ==
    /\ condition_id' = cond
    /\ commitments' = commitments \union {position_commitment(p)}
    /\ opened' = opened + 1
    /\ Record(Call("open_position", p, p))
    /\ UNCHANGED <<matched, matched_notional, covered_notional>>

CrossedFirst(a, b) == a.size  \* mutant: the first size is taken for the smaller

CrossedSize(a, b) == IF a.size < b.size THEN a.size ELSE b.size

AddMatched(a, b) ==
    /\ matched_notional + CrossedSize(a, b) <= MaxUint64
    /\ matched_notional' = matched_notional + CrossedSize(a, b)
    /\ Record(Call("match_positions", a, b))
    /\ UNCHANGED <<condition_id, commitments, opened, covered_notional>>

MatchUncounted(a, b) ==  \* mutant: matched.increment is missing
    /\ IsOpened(a) /\ IsOpened(b) /\ a.side # b.side
    /\ AddMatched(a, b)
    /\ UNCHANGED matched

match_positions(a, b) ==
    /\ IsOpened(a)
    /\ IsOpened(b)
    /\ a.side # b.side
    /\ AddMatched(a, b)
    /\ matched' = matched + 1

mark_covered(p) ==
    /\ IsOpened(p)
    /\ covered_notional + p.size <= MaxUint64
    /\ covered_notional' = covered_notional + p.size
    /\ Record(Call("mark_covered", p, p))
    /\ UNCHANGED <<condition_id, commitments, opened, matched, matched_notional>>

-----------------------------------------------------------------------------

Opening == \E cond \in Conditions, p \in Openings : open_position(cond, p)
Matching == \E a, b \in Openings : match_positions(a, b)
Covering == \E p \in Openings : mark_covered(p)

Next == Opening \/ Matching \/ Covering

Spec == Init /\ [][Next]_ledger

-----------------------------------------------------------------------------

CallsOf(op) == {i \in DOMAIN history : history[i].op = op}

\* Every cell keeps its declared type; the notional cells stay within 64 bits.
TypeOK ==
    /\ round \in Nat /\ opened \in Nat /\ matched \in Nat
    /\ condition_id \in Conditions \union {NoCondition}
    /\ commitments \subseteq {persistentCommit(p) : p \in Openings}
    /\ matched_notional \in 0..MaxUint64
    /\ covered_notional \in 0..MaxUint64
    /\ history \in Seq(Calls)

\* A reader of the public cells can reconstruct how many transactions of each
\* kind the contract has seen, the number of covers included, although no
\* counter counts them: it is round minus opened minus matched.
CountersAddUp ==
    /\ round = Len(history)
    /\ opened = Cardinality(CallsOf("open_position"))
    /\ matched = Cardinality(CallsOf("match_positions"))
    /\ round - opened - matched = Cardinality(CallsOf("mark_covered"))

\* What a call adds to its total; a cover names its one position twice.
Notional(c) == Min({c.a.size, c.b.size})
Notionals == [i \in DOMAIN history |-> Notional(history[i])]

\* The two published totals are exactly the sums over the included calls: of
\* the smaller size of every matched pair, and of the size of every cover.
TotalsAreExact ==
    /\ matched_notional = SumFunctionOnSet(Notionals, CallsOf("match_positions"))
    /\ covered_notional = SumFunctionOnSet(Notionals, CallsOf("mark_covered"))

OpenedBefore(p, i) ==
    \E j \in 1..(i - 1) : /\ history[j].op = "open_position"
                          /\ persistentCommit(history[j].a) = persistentCommit(p)

\* "Both openings are proved against commitments that were sealed earlier"
\* (darkmarket.compact:67): every opening a match or a cover used was sealed
\* by an earlier transaction, and the two sides of a match are opposite.
UsedOnlyWhatWasSealed ==
    \A i \in DOMAIN history :
        LET c == history[i] IN
        /\ c.op # "open_position" => OpenedBefore(c.a, i) /\ OpenedBefore(c.b, i)
        /\ c.op = "match_positions" => c.a.side # c.b.side

\* "It leaves that state one of two ways" (darkmarket.compact:11): no sealed
\* position is used by two included matches or covers.
LeavesOnce ==
    \A i, j \in DOMAIN history :
        /\ i # j
        /\ history[i].op # "open_position"
        /\ history[j].op # "open_position"
        => {history[i].a, history[i].b} \intersect {history[j].a, history[j].b} = {}

=============================================================================
