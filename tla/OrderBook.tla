----------------------------- MODULE OrderBook -----------------------------
(***************************************************************************)
(* What the backend promises of its book (server.ts): a position is open   *)
(* until it is matched, together with one other open position, or covered, *)
(* and nothing ever happens to it after that.                              *)
(***************************************************************************)
EXTENDS Integers, Sequences

VARIABLE book  \* one entry per position ever listed, in order of id

Open == [status |-> "open", with |-> 0]
Covered == [status |-> "covered", with |-> 0]
MatchedWith(i) == [status |-> "matched", with |-> i]

Init == book = <<>>

List == book' = Append(book, Open)

Match(i, j) ==
    /\ i # j
    /\ book[i] = Open
    /\ book[j] = Open
    /\ book' = [book EXCEPT ![i] = MatchedWith(j), ![j] = MatchedWith(i)]

Cover(i) ==
    /\ book[i] = Open
    /\ book' = [book EXCEPT ![i] = Covered]

\* The process restarts with an empty book.
Forget == book' = <<>>

Next ==
    \/ List \/ Forget
    \/ \E i, j \in DOMAIN book : Match(i, j)
    \/ \E i \in DOMAIN book : Cover(i)

Spec == Init /\ [][Next]_book

=============================================================================
