--------------------------- MODULE TokenRegistry ---------------------------
(***************************************************************************)
(* What the chain-indexing node promises: each chain's events are taken    *)
(* once, in that chain's order, however the two chains are merged.  A      *)
(* transfer changes the owner of its token and nothing else; a Midnight    *)
(* event sets one property of its token and nothing else, or is dropped.   *)
(***************************************************************************)
EXTENDS Naturals, Sequences

CONSTANTS Erc721, Contracts, Tokens, Names, Values, Owners, NoOwner, Unset

VARIABLES evm, midnight,    \* what each chain has published and nobody has taken
          owner, property

Init ==
    /\ evm = <<>> /\ midnight = <<>>
    /\ owner = [k \in Contracts \X Tokens |-> NoOwner]
    /\ property = [k \in Contracts \X Tokens \X Names |-> Unset]

OneMore(before, after) ==
    /\ Len(after) = Len(before) + 1
    /\ SubSeq(after, 1, Len(before)) = before

Publish ==
    /\ \/ OneMore(evm, evm') /\ UNCHANGED midnight
       \/ OneMore(midnight, midnight') /\ UNCHANGED evm
    /\ UNCHANGED <<owner, property>>

TakeTransfer ==
    /\ evm # <<>> /\ evm' = Tail(evm)
    /\ owner' = [owner EXCEPT ![<<Erc721, Head(evm).token>>] = Head(evm).to]
    /\ UNCHANGED <<midnight, property>>

TakeProperty ==
    /\ midnight # <<>> /\ midnight' = Tail(midnight)
    /\ LET e == Head(midnight)
           k == <<e.contract, e.token, e.name>>
       IN  \/ k \in DOMAIN property /\ property' = [property EXCEPT ![k] = e.value]
           \/ UNCHANGED property
    /\ UNCHANGED <<evm, owner>>

Next == Publish \/ TakeTransfer \/ TakeProperty

Spec == Init /\ [][Next]_<<evm, midnight, owner, property>>
=============================================================================
