-------------------------- MODULE EvmMidnightNode --------------------------
(***************************************************************************)
(* The chain-indexing node (packages/node) and its database: it merges the *)
(* ERC721 transfers of the EVM chain and the property events of the        *)
(* Midnight contract into two tables, and /api/erc721 serves their join.   *)
(*                                                                         *)
(* The engine runs one transition at a time and commits it with the block  *)
(* it belongs to; which chain's event comes next is up to the merge.       *)
(***************************************************************************)
EXTENDS Integers, Sequences

CONSTANTS
    Tokens, Names, Values, Owners,
    Contracts,      \* what a Midnight event may name as the token's contract
    Erc721,         \* the one whose transfers the node follows
    NoOwner,        \* ""
    Unset,          \* no row
    Blank,          \* a token id that is empty once decoded and trimmed
    DbFails,        \* a query of a transition may fail
    MaxTransfers, MaxSets   \* bounds: events published

ASSUME NodeAssumption ==
    /\ Erc721 \in Contracts /\ NoOwner \notin Owners
    /\ Unset \notin Values /\ Blank \notin Tokens
    /\ DbFails \in BOOLEAN
    /\ MaxTransfers \in Nat /\ MaxSets \in Nat

VARIABLES
    evm, midnight,          \* published by each chain, not yet taken
    transfers, sets,        \* how many were ever published
    migrated,               \* the tables exist
    tokens, properties      \* evm_midnight and evm_midnight_properties, by unique key

chains == <<evm, midnight, transfers, sets>>
db == <<migrated, tokens, properties>>
nodeVars == <<chains, db>>

Key == Contracts \X Tokens
PropertyKey == Contracts \X Tokens \X Names
Transfer == [token : Tokens, to : Owners]
Set == [contract : Contracts, token : Tokens \union {Blank}, name : Names, value : Values]

NodeInit ==
    /\ evm = <<>> /\ midnight = <<>> /\ transfers = 0 /\ sets = 0
    /\ migrated = FALSE
    /\ tokens = [k \in {} |-> NoOwner] /\ properties = [k \in {} |-> Unset]

-----------------------------------------------------------------------------
(* The chains                                                              *)

PublishTransfer(t, o) ==
    /\ transfers < MaxTransfers
    /\ transfers' = transfers + 1
    /\ evm' = Append(evm, [token |-> t, to |-> o])
    /\ UNCHANGED <<midnight, sets>>

PublishSet(c, t, n, v) ==
    /\ sets < MaxSets
    /\ sets' = sets + 1
    /\ midnight' = Append(midnight, [contract |-> c, token |-> t, name |-> n, value |-> v])
    /\ UNCHANGED <<evm, transfers>>

-----------------------------------------------------------------------------
(* The queries.  Both inserts are upserts on the unique index.             *)

Upsert(f, k, v) == [j \in DOMAIN f \union {k} |-> IF j = k THEN v ELSE f[j]]
insertEvmMidnight(k, o) == Upsert(tokens, k, o)
insertEvmMidnightProperty(k, v) == Upsert(properties, k, v)

getEvmMidnightByTokenId(c, t) == <<c, t>> \in DOMAIN tokens

WithTokenAlways(c, t) ==  \* mutant: upsert without looking first
    insertEvmMidnight(<<c, t>>, NoOwner)

\* The token's row as the Midnight transition leaves it.
WithToken(c, t) ==
    IF getEvmMidnightByTokenId(c, t) THEN tokens ELSE insertEvmMidnight(<<c, t>>, NoOwner)

-----------------------------------------------------------------------------
(* The state machine                                                       *)

Migrate == ~migrated /\ migrated' = TRUE /\ UNCHANGED <<chains, tokens, properties>>

TransferKept ==  \* mutant: the insert does nothing on a conflict
    /\ migrated
    /\ evm # <<>> /\ evm' = Tail(evm)
    /\ LET k == <<Erc721, Head(evm).token>>
       IN  tokens' = IF k \in DOMAIN tokens THEN tokens ELSE insertEvmMidnight(k, Head(evm).to)
    /\ UNCHANGED <<midnight, transfers, sets, migrated, properties>>

TransferAssets ==
    /\ migrated
    /\ evm # <<>> /\ evm' = Tail(evm)
    /\ tokens' = insertEvmMidnight(<<Erc721, Head(evm).token>>, Head(evm).to)
    /\ UNCHANGED <<midnight, transfers, sets, migrated, properties>>

\* A failed query ends the transition; what it wrote before may stay.
MidnightContractState ==
    /\ migrated
    /\ midnight # <<>> /\ midnight' = Tail(midnight)
    /\ LET e == Head(midnight) IN
       \/ e.token = Blank /\ UNCHANGED <<tokens, properties>>
       \/ /\ e.token # Blank
          /\ tokens' = WithToken(e.contract, e.token)
          /\ properties' = insertEvmMidnightProperty(<<e.contract, e.token, e.name>>, e.value)
       \/ /\ e.token # Blank /\ DbFails
          /\ tokens' \in {tokens, WithToken(e.contract, e.token)}
          /\ UNCHANGED properties
    /\ UNCHANGED <<evm, transfers, sets, migrated>>

GameStateTransitions == TransferAssets \/ MidnightContractState

-----------------------------------------------------------------------------
(* /api/erc721.  The join is on the token id alone, and rows of one token  *)
(* come in no particular order; the page takes the owner of the first.     *)

Listed == {k[2] : k \in DOMAIN tokens}
Card == [owner : Owners \union {NoOwner}, props : [Names -> Values \union {Unset}]]
Views == UNION {[S -> Card] : S \in SUBSET Tokens}

OwnersOf(t) == {tokens[k] : k \in {k \in DOMAIN tokens : k[2] = t}}
ValuesOf(t, n) ==
    LET rows == {properties[k] : k \in {k \in DOMAIN properties : k[2] = t /\ k[3] = n}}
    IN  IF rows = {} THEN {Unset} ELSE rows

getEvmMidnight ==
    {v \in [Listed -> Card] : \A t \in Listed :
        /\ v[t].owner \in OwnersOf(t)
        /\ \A n \in Names : v[t].props[n] \in ValuesOf(t, n)}

ApiErc721 == IF migrated THEN getEvmMidnight ELSE {[t \in {} |-> NoOwner]}

-----------------------------------------------------------------------------
NodeNext ==
    \/ \E t \in Tokens, o \in Owners : PublishTransfer(t, o) /\ UNCHANGED db
    \/ \E c \in Contracts, t \in Tokens \union {Blank}, n \in Names, v \in Values :
          PublishSet(c, t, n, v) /\ UNCHANGED db
    \/ Migrate
    \/ GameStateTransitions

NodeSpec == NodeInit /\ [][NodeNext]_nodeVars

NodeTypeOK ==
    /\ evm \in Seq(Transfer) /\ midnight \in Seq(Set)
    /\ transfers \in Nat /\ sets \in Nat /\ migrated \in BOOLEAN
    /\ DOMAIN tokens \subseteq Key /\ tokens \in [DOMAIN tokens -> Owners \union {NoOwner}]
    /\ DOMAIN properties \subseteq PropertyKey /\ properties \in [DOMAIN properties -> Values]

\* The foreign key of evm_midnight_properties cannot fail a transition: the
\* token of every property row has a row (state-machine.ts inserts it first).
PropertiesHaveToken ==
    \A k \in DOMAIN properties : <<k[1], k[2]>> \in DOMAIN tokens

\* The tables implement the registry: a transfer and a property of the same
\* token never disturb each other, whichever chain's event is merged first.
Registry == INSTANCE TokenRegistry WITH
    owner <- [k \in Key |-> IF k \in DOMAIN tokens THEN tokens[k] ELSE NoOwner],
    property <- [k \in PropertyKey |-> IF k \in DOMAIN properties THEN properties[k] ELSE Unset]

RegistrySpec == Registry!Spec
=============================================================================
