---------------------------- MODULE WalletDemo -----------------------------
(***************************************************************************)
(* The demo page (frontend/client) in front of the node: it mints tokens   *)
(* on the EVM chain, sets their properties on Midnight, and shows what     *)
(* /api/erc721 answers.  Every request is suspended in one await, and what *)
(* it brings back is a snapshot of the node's tables.                      *)
(*                                                                         *)
(* How the page's Midnight wallet is built is in module MidnightWallet;    *)
(* how it learns a chain's height is in module BlockWatcher.               *)
(***************************************************************************)
EXTENDS EvmMidnightNode

CONSTANTS
    User,           \* the account of the page's EVM wallet
    NameProperty,   \* "Name", the property a card has a field for
    Loads,          \* bound: loadTokens under way at once
    Confirms,       \* bound: pollForProperty under way at once
    Polls,          \* maxAttempts
    ApiFails        \* a request to the node may fail

ASSUME PageAssumption ==
    User \in Owners /\ NameProperty \in Names /\ Polls \in Nat /\ ApiFails \in BOOLEAN

VARIABLES
    evmWallet,                  \* the EVM wallet is connected
    midnightWallet,             \* it is connected, and joined to the contract
    cards,                      \* the state variable "tokens" of the page
    selected, isLoading, isCreating, isIncrementing,
    load, mint, add, confirm    \* the page's asynchronous functions

flags == <<isLoading, isCreating, isIncrementing>>
wallets == <<evmWallet, midnightWallet>>
pageVars == <<wallets, cards, selected, flags, load, mint, add, confirm>>
vars == <<nodeVars, pageVars>>

None == "none"
Idle == [pc |-> "idle"]
Asked == [pc |-> "asked"]
Failed == [pc |-> "failed"]
Answered(v) == [pc |-> "answered", view |-> v]
Back(a) == a.pc \in {"answered", "failed"}

NoMint == [pc |-> "idle", token |-> None, left |-> 0, answer |-> Idle]
NoAdd == [pc |-> "idle", token |-> None, name |-> None, value |-> None]
NoConfirm == [token |-> None, name |-> None, left |-> 0, answer |-> Idle]

\* What a request may come back with, at the time the node serves it.
Answers == {Answered(v) : v \in ApiErc721} \union (IF ApiFails THEN {Failed} ELSE {})

Init ==
    /\ NodeInit
    /\ evmWallet = FALSE /\ midnightWallet = FALSE
    /\ cards = [t \in {} |-> NoOwner] /\ selected = None
    /\ isLoading = FALSE /\ isCreating = FALSE /\ isIncrementing = FALSE
    /\ load = [l \in Loads |-> Idle]
    /\ mint = NoMint /\ add = NoAdd
    /\ confirm = [c \in Confirms |-> NoConfirm]

-----------------------------------------------------------------------------
(* loadTokens                                                              *)

StartLoad(l) ==
    /\ load[l] = Idle
    /\ load' = [load EXCEPT ![l] = Asked]
    /\ isLoading' = TRUE

TickUntilShown(l) ==  \* mutant: the page stops asking once it has cards
    /\ selected = None /\ cards = [t \in {} |-> NoOwner]
    /\ StartLoad(l)
    /\ UNCHANGED <<nodeVars, wallets, cards, selected, isCreating, isIncrementing, mint, add,
                   confirm>>

\* The interval, while no token is selected.
Tick(l) ==
    /\ selected = None
    /\ StartLoad(l)
    /\ UNCHANGED <<nodeVars, wallets, cards, selected, isCreating, isIncrementing, mint, add,
                   confirm>>

Refresh(l) ==
    /\ ~isLoading
    /\ StartLoad(l)
    /\ UNCHANGED <<nodeVars, wallets, cards, selected, isCreating, isIncrementing, mint, add,
                   confirm>>

fetchNFTData(l) ==
    /\ load[l] = Asked
    /\ \E a \in Answers : load' = [load EXCEPT ![l] = a]
    /\ UNCHANGED <<nodeVars, wallets, cards, selected, flags, mint, add, confirm>>

Loaded(l) ==
    /\ Back(load[l])
    /\ load' = [load EXCEPT ![l] = Idle]
    /\ cards' = IF load[l].pc = "answered" THEN load[l].view ELSE cards
    /\ isLoading' = FALSE
    /\ UNCHANGED <<nodeVars, wallets, selected, isCreating, isIncrementing, mint, add, confirm>>

-----------------------------------------------------------------------------
(* The cards                                                               *)

\* A click on a card.
Select(t) ==
    /\ t \in DOMAIN cards /\ selected # t
    /\ selected' = t
    /\ UNCHANGED <<nodeVars, wallets, cards, flags, load, mint, add, confirm>>

\* A second click on it; the effect on selectedToken loads at once.
Deselect(l) ==
    /\ selected # None
    /\ selected' = None
    /\ StartLoad(l)
    /\ UNCHANGED <<nodeVars, wallets, cards, isCreating, isIncrementing, mint, add, confirm>>

\* What the page suggests for a token: properties it has no value of.
tokenSuggestions(t) == {n \in Names : cards[t].props[n] = Unset}

\* A click on a suggestion, offered while the token has no property at all;
\* it selects the card and never deselects it.
Suggest(t) ==
    /\ t \in DOMAIN cards /\ tokenSuggestions(t) = Names
    /\ selected' = t
    /\ UNCHANGED <<nodeVars, wallets, cards, flags, load, mint, add, confirm>>

\* Typing a name in the card changes the page's own copy.
Edit(t, v) ==
    /\ selected = t /\ t \in DOMAIN cards
    /\ cards' = [cards EXCEPT ![t].props[NameProperty] = v]
    /\ UNCHANGED <<nodeVars, wallets, selected, flags, load, mint, add, confirm>>

-----------------------------------------------------------------------------
(* The wallets                                                             *)

\* A login that fails is reported and changes nothing.
connectEvmWallet == evmWallet' = TRUE

\* The client that mints is made from the connected wallet.
hardhatWalletClient == evmWallet

ConnectEvm ==
    /\ ~evmWallet /\ connectEvmWallet
    /\ UNCHANGED <<nodeVars, midnightWallet, cards, selected, flags, load, mint, add, confirm>>

ConnectMidnight ==
    /\ ~midnightWallet /\ midnightWallet' = TRUE
    /\ UNCHANGED <<nodeVars, evmWallet, cards, selected, flags, load, mint, add, confirm>>

-----------------------------------------------------------------------------
(* createERC721Token                                                       *)

Mint(t) ==
    /\ evmWallet /\ ~isCreating
    /\ isCreating' = TRUE
    /\ mint' = [NoMint EXCEPT !.pc = "minting", !.token = t]
    /\ UNCHANGED <<nodeVars, wallets, cards, selected, isLoading, isIncrementing, load, add,
                   confirm>>

\* writeContract and the receipt.  A transaction that reverts has a receipt
\* too, and nobody looks at its status.
Minted ==
    /\ mint.pc = "minting" /\ hardhatWalletClient
    /\ \/ PublishTransfer(mint.token, User)
       \/ UNCHANGED chains
    /\ mint' = [mint EXCEPT !.pc = "block"]
    /\ UNCHANGED <<db, wallets, cards, selected, flags, load, add, confirm>>

\* The catch around all of it: a refused transaction, or a watcher that
\* never connected.
MintFailed ==
    /\ mint.pc \in {"minting", "block"}
    /\ mint' = NoMint /\ isCreating' = FALSE
    /\ UNCHANGED <<nodeVars, wallets, cards, selected, isLoading, isIncrementing, load, add,
                   confirm>>

\* waitForBlock("mainEvmRPC", blockNumber) asks again every half second, without
\* a limit: it ends only when the node reports a block as late as the mint's.
BlockSeen ==
    /\ mint.pc = "block"
    /\ mint' = [mint EXCEPT !.pc = "poll", !.left = Polls, !.answer = Asked]
    /\ UNCHANGED <<nodeVars, wallets, cards, selected, flags, load, add, confirm>>

MintPoll ==
    /\ mint.answer = Asked
    /\ \E a \in Answers : mint' = [mint EXCEPT !.answer = a]
    /\ UNCHANGED <<nodeVars, wallets, cards, selected, flags, load, add, confirm>>

Seen(t, a) == a.pc = "answered" /\ t \in DOMAIN a.view

MintFound ==
    /\ Seen(mint.token, mint.answer)
    /\ cards' = mint.answer.view
    /\ mint' = NoMint /\ isCreating' = FALSE
    /\ UNCHANGED <<nodeVars, wallets, selected, isLoading, isIncrementing, load, add, confirm>>

MintRetry ==
    /\ Back(mint.answer) /\ ~Seen(mint.token, mint.answer) /\ mint.left > 0
    /\ mint' = [mint EXCEPT !.answer = Asked, !.left = @ - 1]
    /\ UNCHANGED <<nodeVars, wallets, cards, selected, flags, load, add, confirm>>

MintForgotten(l) ==  \* mutant: the last attempt leaves the button alone
    /\ Back(mint.answer) /\ ~Seen(mint.token, mint.answer) /\ mint.left = 0
    /\ IF mint.answer = Failed THEN UNCHANGED <<load, isLoading>> ELSE StartLoad(l)
    /\ mint' = NoMint
    /\ UNCHANGED <<nodeVars, wallets, cards, selected, isCreating, isIncrementing, add, confirm>>

\* A last answer without the token starts one more load; a last failure does not.
MintGivenUp(l) ==
    /\ Back(mint.answer) /\ ~Seen(mint.token, mint.answer) /\ mint.left = 0
    /\ IF mint.answer = Failed THEN UNCHANGED <<load, isLoading>> ELSE StartLoad(l)
    /\ mint' = NoMint /\ isCreating' = FALSE
    /\ UNCHANGED <<nodeVars, wallets, cards, selected, isIncrementing, add, confirm>>

-----------------------------------------------------------------------------
(* addProperty                                                             *)

addProperty(t, n, v) ==
    /\ midnightWallet /\ ~isIncrementing
    /\ isIncrementing' = TRUE
    /\ add' = [pc |-> "calling", token |-> t, name |-> n, value |-> v]
    /\ UNCHANGED <<nodeVars, wallets, cards, selected, isLoading, isCreating, load, mint, confirm>>

\* "Save" sends the name the card holds, and nothing if it holds none.
Save(t) ==
    /\ selected = t /\ t \in DOMAIN cards
    /\ cards[t].props[NameProperty] # Unset
    /\ addProperty(t, NameProperty, cards[t].props[NameProperty])

\* "Add" sends what was typed below it.
Add(t, n, v) ==
    /\ selected = t /\ t \in DOMAIN cards
    /\ addProperty(t, n, v)

\* The circuit call, always for the one contract the page knows.  What does
\* not fit its 64 or 32 bytes is refused.
increment == PublishSet(Erc721, add.token, add.name, add.value)

\* incrementCounterValue
Incremented ==
    /\ add.pc = "calling"
    /\ increment
    /\ add' = [add EXCEPT !.pc = "landed"]
    /\ UNCHANGED <<db, wallets, cards, selected, flags, load, mint, confirm>>

\* The catch and the finally: the call failed, or the read after it did.
AddFailed ==
    /\ add.pc \in {"calling", "landed"}
    /\ add' = NoAdd /\ isIncrementing' = FALSE
    /\ UNCHANGED <<nodeVars, wallets, cards, selected, isLoading, isCreating, load, mint, confirm>>

\* fetchCurrentCounterState, then the page polls in the background.
Added(c) ==
    /\ add.pc = "landed" /\ confirm[c] = NoConfirm
    /\ confirm' = [confirm EXCEPT ![c] =
           [token |-> add.token, name |-> add.name, left |-> Polls, answer |-> Asked]]
    /\ add' = NoAdd /\ isIncrementing' = FALSE
    /\ UNCHANGED <<nodeVars, wallets, cards, selected, isLoading, isCreating, load, mint>>

ConfirmPoll(c) ==
    /\ confirm[c].answer = Asked
    /\ \E a \in Answers : confirm' = [confirm EXCEPT ![c].answer = a]
    /\ UNCHANGED <<nodeVars, wallets, cards, selected, flags, load, mint, add>>

\* Found is "the token has some value of that name", an older one included.
Confirmed(q) == Seen(q.token, q.answer) /\ q.answer.view[q.token].props[q.name] # Unset

Confirm(c) ==
    /\ Back(confirm[c].answer)
    /\ \/ /\ Confirmed(confirm[c])
          /\ cards' = confirm[c].answer.view
          /\ confirm' = [confirm EXCEPT ![c] = NoConfirm]
       \/ /\ ~Confirmed(confirm[c]) /\ confirm[c].left = 0
          /\ confirm' = [confirm EXCEPT ![c] = NoConfirm]
          /\ UNCHANGED cards
       \/ /\ ~Confirmed(confirm[c]) /\ confirm[c].left > 0
          /\ confirm' = [confirm EXCEPT ![c].answer = Asked, ![c].left = @ - 1]
          /\ UNCHANGED cards
    /\ UNCHANGED <<nodeVars, wallets, selected, flags, load, mint, add>>

-----------------------------------------------------------------------------
Requests ==
    \/ \E l \in Loads : fetchNFTData(l) \/ Loaded(l) \/ MintGivenUp(l)
    \/ Minted \/ BlockSeen \/ MintPoll \/ MintFound \/ MintRetry
    \/ Incremented
    \/ \E c \in Confirms : Added(c) \/ ConfirmPoll(c) \/ Confirm(c)

UserNext ==
    \/ \E l \in Loads : Refresh(l) \/ Deselect(l)
    \/ \E t \in Tokens : Select(t) \/ Suggest(t) \/ Mint(t) \/ Save(t)
    \/ \E t \in Tokens, v \in Values : Edit(t, v) \/ \E n \in Names : Add(t, n, v)
    \/ ConnectEvm \/ ConnectMidnight

Next ==
    \/ NodeNext /\ UNCHANGED pageVars
    \/ \E l \in Loads : Tick(l)
    \/ Requests \/ MintFailed \/ AddFailed
    \/ UserNext

\* Every request is answered in the end, and one that is repeated for ever is
\* not refused for ever; the engine takes what the chains publish; the interval
\* goes on.  Nothing is assumed of the user, nor that waitForBlock ever ends.
Fairness ==
    /\ WF_vars(Migrate /\ UNCHANGED pageVars)
    /\ WF_vars(GameStateTransitions /\ UNCHANGED pageVars)
    /\ WF_vars(\E l \in Loads : Tick(l))
    /\ \A l \in Loads :
          /\ WF_vars(fetchNFTData(l)) /\ WF_vars(Loaded(l))
          /\ SF_vars(fetchNFTData(l) /\ load'[l] # Failed)
    /\ SF_vars(\E l \in Loads : MintGivenUp(l))  \* a load under way ends, so Loads is no limit
    /\ WF_vars(Minted \/ (mint.pc = "minting" /\ MintFailed))
    /\ WF_vars(MintPoll \/ MintFound \/ MintRetry)
    /\ WF_vars(Incremented \/ AddFailed \/ \E c \in Confirms : Added(c))
    /\ \A c \in Confirms : WF_vars(ConfirmPoll(c) \/ Confirm(c))

Spec == Init /\ [][Next]_vars /\ Fairness

-----------------------------------------------------------------------------
LoadType == {Idle, Asked, Failed} \union {Answered(v) : v \in Views}

TypeOK ==
    /\ NodeTypeOK
    /\ evmWallet \in BOOLEAN /\ midnightWallet \in BOOLEAN
    /\ cards \in Views /\ selected \in Tokens \union {None}
    /\ isLoading \in BOOLEAN /\ isCreating \in BOOLEAN /\ isIncrementing \in BOOLEAN
    /\ load \in [Loads -> LoadType]
    /\ mint \in {NoMint} \union
          [pc : {"minting", "block", "poll"}, token : Tokens, left : 0..Polls, answer : LoadType]
    /\ add \in {NoAdd} \union
          [pc : {"calling", "landed"}, token : Tokens, name : Names, value : Values]
    /\ confirm \in [Confirms -> {NoConfirm} \union
          [token : Tokens, name : Names, left : 0..Polls, answer : LoadType]]

\* A card that is not marked "Invalid Token" is a token whose owner the node's
\* table holds now: an old answer, an edit or a property event that arrived
\* before the mint never makes a token look owned (convertApiDataToTokens).
ValidIsMinted ==
    \A t \in DOMAIN cards :
        cards[t].owner # NoOwner =>
            \E c \in Contracts : <<c, t>> \in DOMAIN tokens /\ tokens[<<c, t>>] # NoOwner

\* "Saving..." and "(Loading...)" end, and "Minting..." does unless the height
\* of the mint is never reported: every path out of the three functions clears
\* its flag, the overlapping loads that share one flag and the attempts that
\* run out included, and waitForBlock is the only place to wait for ever.
ButtonsComeBack ==
    /\ []<>(~isIncrementing) /\ []<>(~isLoading)
    /\ <>[]isCreating => <>[](mint.pc = "block")

\* While no token is selected the page settles on what the node serves, after
\* edits, overlapping loads and the polls of a mint and a property.
PageCatchesUp ==
    <>[](selected = None) => <>[](\E v \in ApiErc721 : cards = v)
=============================================================================
