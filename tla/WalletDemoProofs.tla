-------------------------- MODULE WalletDemoProofs -------------------------
(***************************************************************************)
(* The node and the demo page, for any tokens, owners and values and any   *)
(* number of events, requests and attempts: the page never makes the node  *)
(* do anything but take what the chains publish, so what the node promises *)
(* holds of both, and what the page shows was in the node's tables.        *)
(***************************************************************************)
EXTENDS WalletDemo, SequenceTheorems, TLAPS

-----------------------------------------------------------------------------
(* The node                                                                *)

NodeInv == NodeTypeOK /\ PropertiesHaveToken

\* The next event is one the chain published.
LEMMA NextEvent ==
    ASSUME NEW S, NEW s \in Seq(S), s # <<>>
    PROVE  Head(s) \in S /\ Tail(s) \in Seq(S)
BY HeadTailProperties

LEMMA NodeInitSound == NodeInit => NodeInv
<1> SUFFICES ASSUME NodeInit PROVE NodeInv
  OBVIOUS
<1>1. evm \in Seq(Transfer) /\ midnight \in Seq(Set)
  BY DEF NodeInit
<1>2. DOMAIN tokens = {} /\ DOMAIN properties = {}
  BY DEF NodeInit
<1>3. tokens \in [{} -> Owners \union {NoOwner}] /\ properties \in [{} -> Values]
  BY DEF NodeInit
<1> QED
  BY <1>1, <1>2, <1>3 DEF NodeInit, NodeInv, NodeTypeOK, PropertiesHaveToken

LEMMA TransferTaken ==
    ASSUME NodeInv, TransferAssets
    PROVE  /\ NodeInv'
           /\ Head(evm) \in Transfer
           /\ DOMAIN tokens' = DOMAIN tokens \union {<<Erc721, Head(evm).token>>}
           /\ tokens'[<<Erc721, Head(evm).token>>] = Head(evm).to
           /\ \A j \in DOMAIN tokens : j # <<Erc721, Head(evm).token>> => tokens'[j] = tokens[j]
<1> DEFINE k == <<Erc721, Head(evm).token>>
<1>1. Head(evm) \in Transfer /\ Tail(evm) \in Seq(Transfer)
  BY NextEvent DEF TransferAssets, NodeInv, NodeTypeOK
<1>2. k \in Key /\ Head(evm).to \in Owners
  BY <1>1, NodeAssumption DEF Key, Transfer
<1>3. tokens' = Upsert(tokens, k, Head(evm).to)
  BY DEF TransferAssets, insertEvmMidnight
<1>4. /\ DOMAIN tokens' = DOMAIN tokens \union {k} /\ DOMAIN tokens' \subseteq Key
      /\ tokens' \in [DOMAIN tokens' -> Owners \union {NoOwner}]
      /\ tokens'[k] = Head(evm).to
      /\ \A j \in DOMAIN tokens : j # k => tokens'[j] = tokens[j]
  BY <1>2, <1>3 DEF Upsert, NodeInv, NodeTypeOK
<1>5. NodeInv'
  BY <1>1, <1>4 DEF TransferAssets, NodeInv, NodeTypeOK, PropertiesHaveToken
<1> QED
  BY <1>1, <1>4, <1>5

LEMMA TokenThere ==
    ASSUME NodeInv, NEW c \in Contracts, NEW t \in Tokens, tokens' = WithToken(c, t)
    PROVE  /\ DOMAIN tokens' = DOMAIN tokens \union {<<c, t>>} /\ DOMAIN tokens' \subseteq Key
           /\ tokens' \in [DOMAIN tokens' -> Owners \union {NoOwner}]
           /\ \A j \in DOMAIN tokens : tokens'[j] = tokens[j]
           /\ <<c, t>> \notin DOMAIN tokens => tokens'[<<c, t>>] = NoOwner
<1>1. DOMAIN tokens \subseteq Key /\ tokens \in [DOMAIN tokens -> Owners \union {NoOwner}]
  BY DEF NodeInv, NodeTypeOK
<1>2. <<c, t>> \in Key
  BY DEF Key
<1>3. CASE <<c, t>> \in DOMAIN tokens
  BY <1>1, <1>3 DEF WithToken, getEvmMidnightByTokenId
<1>4. CASE <<c, t>> \notin DOMAIN tokens
  <2>1. tokens' = Upsert(tokens, <<c, t>>, NoOwner)
    BY <1>4 DEF WithToken, getEvmMidnightByTokenId, insertEvmMidnight
  <2>2. NoOwner \in Owners \union {NoOwner}
    OBVIOUS
  <2> HIDE DEF Key
  <2> QED
    BY <1>1, <1>2, <1>4, <2>1, <2>2 DEF Upsert
<1> QED
  BY <1>3, <1>4

\* What is left of the tables by each way the Midnight transition ends.
LEMMA PropertyTaken ==
    ASSUME NodeInv, MidnightContractState, NEW e, e = Head(midnight)
    PROVE  /\ NodeInv'
           /\ e \in Set
           /\ \/ UNCHANGED <<tokens, properties>>
              \/ e.token \in Tokens /\ tokens' = WithToken(e.contract, e.token)
                    /\ properties' = Upsert(properties, <<e.contract, e.token, e.name>>, e.value)
              \/ e.token \in Tokens /\ tokens' = WithToken(e.contract, e.token)
                    /\ UNCHANGED properties
<1> DEFINE k == <<e.contract, e.token, e.name>>
<1>1. e \in Set /\ Tail(midnight) \in Seq(Set)
  BY NextEvent DEF MidnightContractState, NodeInv, NodeTypeOK
<1>2. /\ evm' \in Seq(Transfer) /\ midnight' \in Seq(Set)
      /\ transfers' \in Nat /\ sets' \in Nat /\ migrated' \in BOOLEAN
  BY <1>1 DEF MidnightContractState, NodeInv, NodeTypeOK
<1>3. /\ DOMAIN tokens \subseteq Key /\ tokens \in [DOMAIN tokens -> Owners \union {NoOwner}]
      /\ DOMAIN properties \subseteq PropertyKey /\ properties \in [DOMAIN properties -> Values]
      /\ PropertiesHaveToken
  BY DEF NodeInv, NodeTypeOK
<1>4. CASE UNCHANGED <<tokens, properties>>
  BY <1>1, <1>2, <1>3, <1>4 DEF NodeInv, NodeTypeOK, PropertiesHaveToken
<1>5. ASSUME e.token # Blank, tokens' = WithToken(e.contract, e.token)
      PROVE  /\ e.token \in Tokens /\ <<e.contract, e.token>> \in DOMAIN tokens'
             /\ DOMAIN tokens \subseteq DOMAIN tokens' /\ DOMAIN tokens' \subseteq Key
             /\ tokens' \in [DOMAIN tokens' -> Owners \union {NoOwner}]
  <2>1. e.token \in Tokens /\ e.contract \in Contracts
    BY <1>1, <1>5 DEF Set
  <2> QED
    BY <1>5, <2>1, TokenThere
<1>6. ASSUME e.token # Blank, tokens' = WithToken(e.contract, e.token),
             properties' = Upsert(properties, k, e.value)
      PROVE  NodeInv' /\ e.token \in Tokens
  <2>1. k \in PropertyKey /\ e.value \in Values
    BY <1>1, <1>5, <1>6 DEF Set, PropertyKey
  <2>2. /\ DOMAIN properties' = DOMAIN properties \union {k}
        /\ DOMAIN properties' \subseteq PropertyKey
        /\ properties' \in [DOMAIN properties' -> Values]
    BY <1>3, <1>6, <2>1 DEF Upsert
  <2>3. PropertiesHaveToken'
    <3>1. <<k[1], k[2]>> \in DOMAIN tokens'
      BY <1>5, <1>6
    <3>2. \A j \in DOMAIN properties' : j = k \/ j \in DOMAIN properties
      BY <2>2
    <3> HIDE DEF k
    <3> QED
      BY <1>3, <1>5, <1>6, <3>1, <3>2 DEF PropertiesHaveToken
  <2> QED
    BY <1>2, <1>5, <1>6, <2>2, <2>3 DEF NodeInv, NodeTypeOK
<1>7. ASSUME e.token # Blank, tokens' = WithToken(e.contract, e.token), UNCHANGED properties
      PROVE  NodeInv' /\ e.token \in Tokens
  BY <1>2, <1>3, <1>5, <1>7 DEF NodeInv, NodeTypeOK, PropertiesHaveToken
<1> QED
  BY <1>1, <1>4, <1>6, <1>7 DEF MidnightContractState, insertEvmMidnightProperty

LEMMA NodeStep == ASSUME NodeInv, [NodeNext]_nodeVars PROVE NodeInv'
<1>1. CASE UNCHANGED nodeVars
  BY <1>1 DEF nodeVars, chains, db, NodeInv, NodeTypeOK, PropertiesHaveToken
<1>2. ASSUME NEW t \in Tokens, NEW o \in Owners, PublishTransfer(t, o), UNCHANGED db
      PROVE  NodeInv'
  <2>1. [token |-> t, to |-> o] \in Transfer
    BY DEF Transfer
  <2>2. evm' \in Seq(Transfer)
    BY <1>2, <2>1, AppendProperties DEF PublishTransfer, NodeInv, NodeTypeOK
  <2> QED
    BY <1>2, <2>2 DEF PublishTransfer, db, NodeInv, NodeTypeOK, PropertiesHaveToken
<1>3. ASSUME NEW c \in Contracts, NEW t \in Tokens \union {Blank}, NEW n \in Names,
             NEW v \in Values, PublishSet(c, t, n, v), UNCHANGED db
      PROVE  NodeInv'
  <2>1. [contract |-> c, token |-> t, name |-> n, value |-> v] \in Set
    BY DEF Set
  <2>2. midnight' \in Seq(Set)
    BY <1>3, <2>1, AppendProperties DEF PublishSet, NodeInv, NodeTypeOK
  <2> QED
    BY <1>3, <2>2 DEF PublishSet, db, NodeInv, NodeTypeOK, PropertiesHaveToken
<1>4. CASE Migrate
  BY <1>4 DEF Migrate, chains, NodeInv, NodeTypeOK, PropertiesHaveToken
<1>5. CASE GameStateTransitions
  BY <1>5, TransferTaken, PropertyTaken DEF GameStateTransitions
<1> QED
  BY <1>1, <1>2, <1>3, <1>4, <1>5 DEF NodeNext

\* No step of the node takes back an owner it has shown.
LEMMA OwnersStay ==
    ASSUME NodeInv, [NodeNext]_nodeVars, NEW k \in DOMAIN tokens, tokens[k] # NoOwner
    PROVE  k \in DOMAIN tokens' /\ tokens'[k] # NoOwner
<1>1. CASE UNCHANGED tokens
  BY <1>1
<1>2. CASE TransferAssets
  BY <1>2, TransferTaken, NodeAssumption DEF Transfer
<1>3. CASE MidnightContractState
  <2> DEFINE e == Head(midnight)
  <2>1. e \in Set
    BY <1>3, PropertyTaken
  <2>2. \/ UNCHANGED tokens
        \/ e.token \in Tokens /\ tokens' = WithToken(e.contract, e.token)
    BY <1>3, PropertyTaken
  <2>3. e.contract \in Contracts
    BY <2>1 DEF Set
  <2> QED
    BY <1>1, <2>2, <2>3, TokenThere
<1> QED
  BY <1>1, <1>2, <1>3
     DEF NodeNext, nodeVars, db, Migrate, GameStateTransitions

-----------------------------------------------------------------------------
(* The registry                                                            *)

OwnerNow == [k \in Key |-> IF k \in DOMAIN tokens THEN tokens[k] ELSE NoOwner]
PropertyNow == [k \in PropertyKey |-> IF k \in DOMAIN properties THEN properties[k] ELSE Unset]

LEMMA Published ==
    ASSUME NEW S, NEW s \in Seq(S), NEW e \in S
    PROVE  Registry!OneMore(s, Append(s, e))
<1>1. Append(s, e) \in Seq(S) /\ Len(Append(s, e)) = Len(s) + 1
  BY AppendProperties
<1>2. SubSeq(Append(s, e), 1, Len(s)) = s
  BY SubSeqProperties, AppendProperties
<1> QED
  BY <1>1, <1>2 DEF Registry!OneMore

LEMMA RegistryStep == ASSUME NodeInv, [NodeNext]_nodeVars
                      PROVE  [Registry!Next]_<<evm, midnight, OwnerNow, PropertyNow>>
<1>1. CASE UNCHANGED nodeVars
  BY <1>1 DEF nodeVars, chains, db, OwnerNow, PropertyNow
<1>2. ASSUME NEW t \in Tokens, NEW o \in Owners, PublishTransfer(t, o), UNCHANGED db
      PROVE  Registry!Publish
  <2>1. [token |-> t, to |-> o] \in Transfer /\ evm \in Seq(Transfer)
    BY DEF Transfer, NodeInv, NodeTypeOK
  <2>2. Registry!OneMore(evm, evm')
    BY <1>2, <2>1, Published DEF PublishTransfer
  <2> QED
    BY <1>2, <2>2 DEF Registry!Publish, PublishTransfer, db, OwnerNow, PropertyNow
<1>3. ASSUME NEW c \in Contracts, NEW t \in Tokens \union {Blank}, NEW n \in Names,
             NEW v \in Values, PublishSet(c, t, n, v), UNCHANGED db
      PROVE  Registry!Publish
  <2>1. [contract |-> c, token |-> t, name |-> n, value |-> v] \in Set /\ midnight \in Seq(Set)
    BY DEF Set, NodeInv, NodeTypeOK
  <2>2. Registry!OneMore(midnight, midnight')
    BY <1>3, <2>1, Published DEF PublishSet
  <2> QED
    BY <1>3, <2>2 DEF Registry!Publish, PublishSet, db, OwnerNow, PropertyNow
<1>4. CASE Migrate
  BY <1>4 DEF Migrate, chains, OwnerNow, PropertyNow
<1>5. CASE TransferAssets
  <2> DEFINE k == <<Erc721, Head(evm).token>>
  <2>1. /\ Head(evm) \in Transfer
        /\ DOMAIN tokens' = DOMAIN tokens \union {k} /\ tokens'[k] = Head(evm).to
        /\ \A j \in DOMAIN tokens : j # k => tokens'[j] = tokens[j]
    BY <1>5, TransferTaken
  <2>2. OwnerNow' = [OwnerNow EXCEPT ![k] = Head(evm).to]
    BY <2>1 DEF OwnerNow
  <2>3. PropertyNow' = PropertyNow
    BY <1>5 DEF TransferAssets, PropertyNow
  <2> QED
    BY <1>5, <2>2, <2>3
       DEF TransferAssets, Registry!Next, Registry!TakeTransfer, OwnerNow, PropertyNow
<1>6. CASE MidnightContractState
  <2> DEFINE e == Head(midnight)
             k == <<e.contract, e.token, e.name>>
  <2>1. /\ e \in Set
        /\ \/ UNCHANGED <<tokens, properties>>
           \/ e.token \in Tokens /\ tokens' = WithToken(e.contract, e.token)
                 /\ properties' = Upsert(properties, k, e.value)
           \/ e.token \in Tokens /\ tokens' = WithToken(e.contract, e.token)
                 /\ UNCHANGED properties
    BY <1>6, PropertyTaken
  <2>2. OwnerNow' = OwnerNow
    <3>1. CASE UNCHANGED tokens
      BY <3>1 DEF OwnerNow
    <3>2. ASSUME e.token \in Tokens, tokens' = WithToken(e.contract, e.token)
          PROVE  OwnerNow' = OwnerNow
      <4>1. e.contract \in Contracts
        BY <2>1 DEF Set
      <4>2. /\ DOMAIN tokens' = DOMAIN tokens \union {<<e.contract, e.token>>}
            /\ \A j \in DOMAIN tokens : tokens'[j] = tokens[j]
            /\ <<e.contract, e.token>> \notin DOMAIN tokens
                  => tokens'[<<e.contract, e.token>>] = NoOwner
        BY <3>2, <4>1, TokenThere
      <4> QED
        BY <4>2 DEF OwnerNow
    <3> QED
      BY <2>1, <3>1, <3>2
  <2>3. \/ PropertyNow' = PropertyNow
        \/ k \in PropertyKey /\ PropertyNow' = [PropertyNow EXCEPT ![k] = e.value]
    <3>1. CASE UNCHANGED properties
      BY <3>1 DEF PropertyNow
    <3>2. CASE e.token \in Tokens /\ properties' = Upsert(properties, k, e.value)
      <4>1. k \in PropertyKey
        BY <2>1, <3>2 DEF Set, PropertyKey
      <4> QED
        BY <3>2, <4>1 DEF Upsert, PropertyNow
    <3> QED
      BY <2>1, <3>1, <3>2
  <2> QED
    BY <1>6, <2>2, <2>3 DEF MidnightContractState, Registry!Next, Registry!TakeProperty,
                            OwnerNow, PropertyNow, PropertyKey
<1> QED
  BY <1>1, <1>2, <1>3, <1>4, <1>5, <1>6 DEF NodeNext, GameStateTransitions, Registry!Next

-----------------------------------------------------------------------------
(* The page in front of it                                                 *)

\* A view whose owned tokens are owned in the node's table, and what a request
\* may be at or have come back with.
Held(v) ==
    \A t \in DOMAIN v : v[t].owner # NoOwner =>
        \E c \in Contracts : <<c, t>> \in DOMAIN tokens /\ tokens[<<c, t>>] # NoOwner
Good == {v \in Views : Held(v)}
Replies == {Idle, Asked, Failed} \union {Answered(v) : v \in Good}

\* The page's variables, for views V and requests A.
Page(V, A) ==
    /\ evmWallet \in BOOLEAN /\ midnightWallet \in BOOLEAN
    /\ cards \in V /\ selected \in Tokens \union {None}
    /\ isLoading \in BOOLEAN /\ isCreating \in BOOLEAN /\ isIncrementing \in BOOLEAN
    /\ load \in [Loads -> A]
    /\ mint \in {NoMint} \union
          [pc : {"minting", "block", "poll"}, token : Tokens, left : 0..Polls, answer : A]
    /\ add \in {NoAdd} \union
          [pc : {"calling", "landed"}, token : Tokens, name : Names, value : Values]
    /\ confirm \in [Confirms -> {NoConfirm} \union
          [token : Tokens, name : Names, left : 0..Polls, answer : A]]

\* A poll of the mint is under way only in its last stage.
MintStage == mint.answer = Idle \/ mint.pc = "poll"

PageInv == NodeInv /\ Page(Good, Replies) /\ MintStage

\* What the steps of the page need to know of V and A.
Closed(V, A) ==
    /\ Idle \in A /\ Asked \in A /\ Failed \in A /\ Answers \subseteq A
    /\ \A a \in A : a.pc = "answered" => a.view \in V
    /\ \A v \in V : DOMAIN v \subseteq Tokens
    /\ \A v \in V, t \in Tokens, n \in Names :
          t \in DOMAIN v => v[t].props[n] \in Values \union {Unset}
    /\ \A v \in V, t \in Tokens, n \in Names, x \in Values :
          t \in DOMAIN v => [v EXCEPT ![t].props[n] = x] \in V

LEMMA ServedIsGood == ASSUME NodeInv PROVE ApiErc721 \subseteq Good
<1>1. Listed \subseteq Tokens
  BY DEF NodeInv, NodeTypeOK, Listed, Key
<1>2. CASE ~migrated
  <2>1. [t \in {} |-> NoOwner] \in Views
    BY DEF Views
  <2> QED
    BY <1>2, <2>1 DEF ApiErc721, Good, Held
<1>3. ASSUME NEW v \in getEvmMidnight PROVE v \in Good
  <2>1. v \in [Listed -> Card] /\ \A t \in Listed : v[t].owner \in OwnersOf(t)
    BY DEF getEvmMidnight
  <2>2. v \in Views
    BY <1>1, <2>1 DEF Views
  <2>3. ASSUME NEW t \in DOMAIN v, v[t].owner # NoOwner
        PROVE  \E c \in Contracts : <<c, t>> \in DOMAIN tokens /\ tokens[<<c, t>>] # NoOwner
    <3>1. PICK k \in DOMAIN tokens : k[2] = t /\ tokens[k] = v[t].owner
      BY <2>1 DEF OwnersOf
    <3>2. k \in Contracts \X Tokens
      BY DEF NodeInv, NodeTypeOK, Key
    <3>3. k = <<k[1], t>> /\ k[1] \in Contracts
      BY <3>1, <3>2
    <3> QED
      BY <2>3, <3>1, <3>3
  <2> QED
    BY <2>2, <2>3 DEF Good, Held
<1> QED
  BY <1>2, <1>3 DEF ApiErc721

LEMMA GoodIsClosed == ASSUME NodeInv PROVE Closed(Good, Replies)
<1>1. Answers \subseteq Replies
  BY ServedIsGood DEF Answers, Replies
<1>2. \A a \in Replies : a.pc = "answered" => a.view \in Good
  BY DEF Replies, Idle, Asked, Failed, Answered
<1>3. \A v \in Good : DOMAIN v \subseteq Tokens
  BY DEF Good, Views
<1>4. ASSUME NEW v \in Good, NEW t \in Tokens, NEW n \in Names, NEW x \in Values, t \in DOMAIN v
      PROVE  [v EXCEPT ![t].props[n] = x] \in Good
  <2> DEFINE w == [v EXCEPT ![t].props[n] = x]
  <2>1. PICK S \in SUBSET Tokens : v \in [S -> Card]
    BY DEF Good, Views
  <2>2. v[t] \in Card /\ DOMAIN v = S
    BY <2>1, <1>4
  <2>3. [v[t] EXCEPT !.props[n] = x] \in Card /\ [v[t] EXCEPT !.props[n] = x].owner = v[t].owner
    BY <2>2 DEF Card
  <2>4. w = [v EXCEPT ![t] = [v[t] EXCEPT !.props[n] = x]]
    BY <2>2
  <2>5. w \in [S -> Card] /\ \A u \in S : w[u].owner = v[u].owner
    BY <2>1, <2>2, <2>3, <2>4
  <2> QED
    BY <2>1, <2>5 DEF Good, Views, Held
<1>5. ASSUME NEW v \in Good, NEW t \in Tokens, NEW n \in Names, t \in DOMAIN v
      PROVE  v[t].props[n] \in Values \union {Unset}
  <2>1. PICK S \in SUBSET Tokens : v \in [S -> Card]
    BY DEF Good, Views
  <2> QED
    BY <2>1, <1>5 DEF Card
<1> QED
  BY <1>1, <1>2, <1>3, <1>4, <1>5 DEF Closed, Replies

\* No view stops being good.
LEMMA GoodStays == ASSUME NodeInv, [NodeNext]_nodeVars
                   PROVE  Good \subseteq Good' /\ Replies \subseteq Replies'
<1>1. Good \subseteq Good'
  BY OwnersStay DEF Good, Held
<1> QED
  BY <1>1 DEF Replies

LEMMA PageStep ==
    ASSUME NEW V, NEW A, Closed(V, A), Page(V, A), MintStage, Next
    PROVE  Page(V, A)' /\ MintStage'
<1> DEFINE Poll == [pc : {"minting", "block", "poll"}, token : Tokens, left : 0..Polls, answer : A]
           Question == [token : Tokens, name : Names, left : 0..Polls, answer : A]
<1>1. /\ mint \in {NoMint} \union Poll /\ (mint.pc # "idle" => mint \in Poll)
      /\ (mint.answer # Idle => mint \in Poll /\ mint.pc = "poll")
  BY DEF Page, MintStage, NoMint
<1>2. Polls \in 0..Polls
  BY PageAssumption
<1>3. ASSUME NEW l \in Loads, StartLoad(l)
      PROVE  load' \in [Loads -> A] /\ isLoading' \in BOOLEAN
  BY <1>3 DEF StartLoad, Page, Closed
<1>4. ASSUME NEW l \in Loads, Tick(l) \/ Refresh(l) PROVE Page(V, A)' /\ MintStage'
  BY <1>3, <1>4 DEF Tick, Refresh, Page, wallets, MintStage
<1>5. ASSUME NEW l \in Loads, fetchNFTData(l) PROVE Page(V, A)' /\ MintStage'
  BY <1>5 DEF fetchNFTData, Page, Closed, wallets, flags, MintStage
<1>6. ASSUME NEW l \in Loads, Loaded(l) PROVE Page(V, A)' /\ MintStage'
  <2>1. cards' \in V
    BY <1>6 DEF Loaded, Page, Closed
  <2>2. load' \in [Loads -> A]
    BY <1>6 DEF Loaded, Page, Closed
  <2> QED
    BY <1>6, <2>1, <2>2 DEF Loaded, Page, wallets, MintStage
<1>7. ASSUME NEW l \in Loads, MintGivenUp(l) PROVE Page(V, A)' /\ MintStage'
  <2>1. load' \in [Loads -> A] /\ isLoading' \in BOOLEAN
    BY <1>3, <1>7 DEF MintGivenUp, Page
  <2> QED
    BY <1>7, <2>1 DEF MintGivenUp, Page, wallets, MintStage, NoMint
<1>8. ASSUME NEW l \in Loads, Deselect(l) PROVE Page(V, A)' /\ MintStage'
  BY <1>3, <1>8 DEF Deselect, Page, wallets, MintStage
<1>9. ASSUME NEW t \in Tokens, Select(t) \/ Suggest(t) PROVE Page(V, A)' /\ MintStage'
  BY <1>9 DEF Select, Suggest, Page, wallets, flags, MintStage
<1>10. ASSUME NEW t \in Tokens, NEW v \in Values, Edit(t, v)
       PROVE  Page(V, A)' /\ MintStage'
  <2>1. cards' \in V
    BY <1>10, PageAssumption DEF Edit, Page, Closed
  <2> QED
    BY <1>10, <2>1 DEF Edit, Page, wallets, flags, MintStage
<1>11. CASE ConnectEvm \/ ConnectMidnight
  BY <1>11 DEF ConnectEvm, connectEvmWallet, ConnectMidnight, Page, flags, MintStage
<1>12. ASSUME NEW t \in Tokens, Mint(t) PROVE Page(V, A)' /\ MintStage'
  <2>1. mint' = [pc |-> "minting", token |-> t, left |-> 0, answer |-> Idle]
    BY <1>12 DEF Mint, NoMint
  <2>2. 0 \in 0..Polls /\ Idle \in A
    BY PageAssumption DEF Closed
  <2>3. mint' \in Poll /\ mint'.answer = Idle
    BY <2>1, <2>2
  <2> QED
    BY <1>12, <2>3 DEF Mint, Page, wallets, MintStage
<1>13. CASE Minted
  <2>1. mint' \in Poll /\ mint'.answer = mint.answer /\ mint.answer = Idle
    BY <1>1, <1>13 DEF Minted
  <2> QED
    BY <1>13, <2>1 DEF Minted, Page, wallets, flags, MintStage
<1>14. CASE MintFailed
  BY <1>14 DEF MintFailed, Page, wallets, MintStage, NoMint
<1>15. CASE BlockSeen
  <2>1. mint' \in Poll /\ mint'.pc = "poll"
    BY <1>1, <1>2, <1>15 DEF BlockSeen, Closed
  <2> QED
    BY <1>15, <2>1 DEF BlockSeen, Page, wallets, flags, MintStage
<1>16. CASE MintPoll
  <2>1. mint \in Poll /\ mint.pc = "poll"
    BY <1>1, <1>16 DEF MintPoll, Asked, Idle
  <2>2. mint' \in Poll /\ mint'.pc = "poll"
    BY <1>16, <2>1 DEF MintPoll, Closed
  <2> QED
    BY <1>16, <2>2 DEF MintPoll, Page, wallets, flags, MintStage
<1>17. CASE MintFound
  <2>1. mint.answer.pc = "answered" /\ mint.answer \in A
    BY <1>1, <1>17 DEF MintFound, Seen, Idle
  <2>2. cards' \in V
    BY <1>17, <2>1 DEF MintFound, Closed
  <2> QED
    BY <1>17, <2>2 DEF MintFound, Page, wallets, MintStage, NoMint
<1>18. CASE MintRetry
  <2>1. mint \in Poll /\ mint.pc = "poll"
    BY <1>1, <1>18 DEF MintRetry, Back, Idle
  <2>2. mint.left - 1 \in 0..Polls
    BY <1>18, <2>1, PageAssumption DEF MintRetry
  <2>3. mint' \in Poll /\ mint'.pc = "poll"
    BY <1>18, <2>1, <2>2 DEF MintRetry, Closed
  <2> QED
    BY <1>18, <2>3 DEF MintRetry, Page, wallets, flags, MintStage
<1>19. ASSUME NEW t \in Tokens, NEW n \in Names, NEW v \in Values, addProperty(t, n, v)
       PROVE  Page(V, A)' /\ MintStage'
  BY <1>19 DEF addProperty, Page, wallets, MintStage
<1>20. CASE Incremented
  <2>1. add' \in [pc : {"calling", "landed"}, token : Tokens, name : Names, value : Values]
    BY <1>20 DEF Incremented, Page, NoAdd
  <2> QED
    BY <1>20, <2>1 DEF Incremented, Page, wallets, flags, MintStage
<1>21. CASE AddFailed
  BY <1>21 DEF AddFailed, Page, wallets, MintStage
<1>22. ASSUME NEW c \in Confirms, Added(c) PROVE Page(V, A)' /\ MintStage'
  <2>1. add \in [pc : {"calling", "landed"}, token : Tokens, name : Names, value : Values]
    BY <1>22 DEF Added, Page, NoAdd
  <2>2. confirm'[c] \in Question
    BY <1>2, <1>22, <2>1 DEF Added, Page, Closed
  <2> QED
    BY <1>22, <2>2 DEF Added, Page, wallets, MintStage
<1>23. ASSUME NEW c \in Confirms, ConfirmPoll(c) PROVE Page(V, A)' /\ MintStage'
  <2>1. confirm[c] \in Question
    BY <1>23 DEF ConfirmPoll, Page, NoConfirm, Asked, Idle
  <2> QED
    BY <1>23, <2>1 DEF ConfirmPoll, Page, Closed, wallets, flags, MintStage
<1>24. ASSUME NEW c \in Confirms, Confirm(c) PROVE Page(V, A)' /\ MintStage'
  <2>1. confirm[c] \in Question
    BY <1>24 DEF Confirm, Page, NoConfirm, Back, Idle
  <2>2. cards' \in V
    BY <1>24, <2>1 DEF Confirm, Confirmed, Seen, Page, Closed
  <2>3. confirm' \in [Confirms -> {NoConfirm} \union Question]
    <3>1. CASE confirm' = [confirm EXCEPT ![c] = NoConfirm]
      BY <3>1 DEF Page
    <3>2. CASE /\ confirm[c].left > 0
               /\ confirm' = [confirm EXCEPT ![c].answer = Asked, ![c].left = @ - 1]
      <4>1. confirm[c].left - 1 \in 0..Polls
        BY <2>1, <3>2, PageAssumption
      <4>2. confirm' \in [Confirms -> {NoConfirm} \union Question]
        BY <2>1, <3>2, <4>1 DEF Page, Closed
      <4> QED
        BY <4>2
    <3> QED
      BY <1>24, <3>1, <3>2 DEF Confirm
  <2> QED
    BY <1>24, <2>2, <2>3 DEF Confirm, Page, wallets, flags, MintStage
<1>25. CASE NodeNext /\ UNCHANGED pageVars
  BY <1>25 DEF pageVars, Page, wallets, flags, MintStage
<1>26. ASSUME NEW t \in Tokens, Save(t) PROVE Page(V, A)' /\ MintStage'
  <2>1. NameProperty \in Names /\ cards[t].props[NameProperty] \in Values
    BY <1>26, PageAssumption DEF Save, Page, Closed
  <2> QED
    BY <1>19, <1>26, <2>1 DEF Save
<1>27. ASSUME NEW t \in Tokens, NEW n \in Names, NEW v \in Values, Add(t, n, v)
       PROVE  Page(V, A)' /\ MintStage'
  BY <1>19, <1>27 DEF Add
<1> QED
  BY <1>4, <1>5, <1>6, <1>7, <1>8, <1>9, <1>10, <1>11, <1>12, <1>13, <1>14, <1>15, <1>16, <1>17,
     <1>18, <1>19, <1>20, <1>21, <1>22, <1>23, <1>24, <1>25, <1>26, <1>27
     DEF Next, Requests, UserNext

\* Every step of the two is a step of the node, or none.
LEMMA NodeSteps == ASSUME PageInv, [Next]_vars PROVE [NodeNext]_nodeVars
<1>1. CASE UNCHANGED vars
  BY <1>1 DEF vars
<1>2. CASE Minted
  <2>1. mint.token \in Tokens
    BY <1>2 DEF Minted, PageInv, Page, NoMint
  <2>2. CASE PublishTransfer(mint.token, User)
    BY <1>2, <2>1, <2>2, PageAssumption DEF Minted, NodeNext
  <2>3. CASE UNCHANGED chains
    BY <1>2, <2>3 DEF Minted, nodeVars
  <2> QED
    BY <1>2, <2>2, <2>3 DEF Minted
<1>3. CASE Incremented
  <2>1. add.token \in Tokens /\ add.name \in Names /\ add.value \in Values
    BY <1>3 DEF Incremented, PageInv, Page, NoAdd
  <2>2. PublishSet(Erc721, add.token, add.name, add.value) /\ UNCHANGED db
    BY <1>3 DEF Incremented, increment
  <2> QED
    BY <2>1, <2>2, NodeAssumption DEF NodeNext
<1>4. CASE NodeNext
  BY <1>4
<1>5. ASSUME Next, ~Minted, ~Incremented, ~NodeNext PROVE UNCHANGED nodeVars
  BY <1>5 DEF Next, Requests, UserNext, Tick, Refresh, fetchNFTData, Loaded, MintGivenUp, Select,
        Suggest, Deselect, Edit, ConnectEvm, ConnectMidnight, Mint, MintFailed, BlockSeen, MintPoll,
        MintFound, MintRetry, Save, Add, addProperty, AddFailed, Added, ConfirmPoll, Confirm
<1> QED
  BY <1>1, <1>2, <1>3, <1>4, <1>5

LEMMA DemoInit == Init => PageInv
<1> SUFFICES ASSUME Init PROVE PageInv
  OBVIOUS
<1>1. NodeInv
  BY NodeInitSound DEF Init
<1>2. cards \in Good
  <2>1. cards \in Views /\ DOMAIN cards = {}
    BY DEF Init, Views
  <2> QED
    BY <2>1 DEF Good, Held
<1>3. Page(Good, Replies)
  BY <1>2 DEF Init, Page, Replies
<1> QED
  BY <1>1, <1>3 DEF PageInv, MintStage, Init, NoMint

LEMMA DemoStep == ASSUME PageInv, [Next]_vars PROVE PageInv'
<1>1. [NodeNext]_nodeVars /\ NodeInv'
  BY NodeSteps, NodeStep DEF PageInv
<1>2. Good \subseteq Good' /\ Replies \subseteq Replies'
  BY <1>1, GoodStays DEF PageInv
<1>3. ASSUME NEW V, NEW A, V = Good, A = Replies PROVE Page(V, A)' /\ MintStage'
  <2>1. Closed(V, A) /\ Page(V, A) /\ MintStage
    BY <1>3, GoodIsClosed DEF PageInv
  <2>2. CASE UNCHANGED vars
    BY <2>1, <2>2 DEF vars, pageVars, wallets, flags, Page, MintStage
  <2>3. CASE Next
    BY <2>1, <2>3, PageStep
  <2> QED
    BY <2>2, <2>3
<1>4. ASSUME NEW V, NEW A, NEW W, NEW B, V \subseteq W, A \subseteq B, Page(V, A)'
      PROVE  Page(W, B)'
  BY <1>4 DEF Page
<1>5. PICK V, A : V = Good /\ A = Replies
  OBVIOUS
<1>6. Page(Good, Replies)'
  BY <1>2, <1>3, <1>4, <1>5 DEF Page
<1> QED
  BY <1>1, <1>3, <1>5, <1>6 DEF PageInv

THEOREM DemoIsSound == Spec => []PageInv
BY DemoInit, DemoStep, PTL DEF Spec

\* Every variable of the node and of the page keeps its type.
THEOREM DemoTypes == Spec => []TypeOK
<1>1. Good \subseteq Views /\ Replies \subseteq LoadType
  BY DEF Good, Replies, LoadType
<1>2. PageInv => TypeOK
  BY <1>1 DEF PageInv, NodeInv, Page, TypeOK
<1> QED
  BY <1>2, DemoIsSound, PTL

\* The row a property refers to is there: the transition's foreign key holds
\* even when a query of it fails half way (state-machine.ts, 000-init.sql).
THEOREM PropertiesHaveTokens == Spec => []PropertiesHaveToken
<1>1. PageInv => PropertiesHaveToken
  BY DEF PageInv, NodeInv
<1> QED
  BY <1>1, DemoIsSound, PTL

\* A card shown as valid is of a token the table gives an owner now, whatever
\* old answers and edits the page has put on it (convertApiDataToTokens).
THEOREM ValidCardsAreMinted == Spec => []ValidIsMinted
<1>1. PageInv => ValidIsMinted
  BY DEF PageInv, Page, Good, Held, ValidIsMinted
<1> QED
  BY <1>1, DemoIsSound, PTL

\* The node and the page implement the registry: each chain's events are taken
\* in their order, each for the one entry it names (state-machine.ts).
THEOREM ImplementsRegistry == Spec => RegistrySpec
<1>1. Init => Registry!Init
  <2> SUFFICES ASSUME Init PROVE Registry!Init
    OBVIOUS
  <2>1. DOMAIN tokens = {} /\ DOMAIN properties = {} /\ evm = <<>> /\ midnight = <<>>
    BY DEF Init, NodeInit
  <2> QED
    BY <2>1 DEF Registry!Init, Key, PropertyKey
<1>2. PageInv /\ [Next]_vars => [Registry!Next]_<<evm, midnight, OwnerNow, PropertyNow>>
  BY NodeSteps, RegistryStep DEF PageInv
<1>3. Spec => [][Registry!Next]_<<evm, midnight, OwnerNow, PropertyNow>>
  BY <1>2, DemoIsSound, PTL DEF Spec
<1> QED
  BY <1>1, <1>3, PTL DEF Spec, RegistrySpec, Registry!Spec, OwnerNow, PropertyNow
=============================================================================
