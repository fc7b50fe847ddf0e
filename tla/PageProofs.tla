---------------------------- MODULE PageProofs -----------------------------
(***************************************************************************)
(* The parts of the two pages that keep state of their own, for any number *)
(* of chains, requests, coins, tables and cards: the block watcher of the  *)
(* demo page, the connection of its wallet, the hook that loads its        *)
(* tables, and the trading page. The four share nothing; one module        *)
(* extends them all, which is why no two of them use a name twice.         *)
(***************************************************************************)
EXTENDS BlockWatcher, MidnightWallet, TradingPage, TableData, TLAPS

\* Everything on its way to the page, or there already, was reached by the node.
Reachable ==
    /\ \A c \in Chains : latestBlock[c] <= height[c]
    /\ \A r \in Requests, c \in Chains :
          poll[r].pc = "told" => poll[r].seen[c] <= height[c]

WatcherInv == TypeOK /\ Reachable /\ ShownWasReached

Replies == {Idle, Sent, Failed} \union {Told(h) : h \in Heights}

LEMMA Constants == Main \in Chains /\ MaxHeight \in Nat
BY WatcherAssumption

LEMMA ZeroIsAHeight == Zero \in Heights /\ \A c \in Chains : Zero[c] = 0
BY Constants DEF Zero, Heights

LEMMA Tags ==
    /\ Idle.pc = "idle" /\ Sent.pc = "sent" /\ Failed.pc = "failed"
    /\ \A h : Told(h).pc = "told" /\ Told(h).seen = h
BY DEF Idle, Sent, Failed, Told

\* An answer that came back is a failure, or told what the node had reached.
LEMMA BackIsTold ==
    ASSUME WatcherInv, NEW r \in Requests, Back(poll[r])
    PROVE  \/ poll[r] = Failed
           \/ /\ poll[r] # Failed /\ poll[r].seen \in Heights
              /\ \A c \in Chains : poll[r].seen[c] <= height[c]
<1>1. poll[r] \in Replies
  BY DEF WatcherInv, TypeOK, Replies
<1>2. poll[r] # Idle /\ poll[r] # Sent
  BY Tags DEF Back
<1>3. ASSUME NEW h \in Heights, poll[r] = Told(h)
      PROVE  poll[r] # Failed /\ poll[r].seen \in Heights /\ poll[r].pc = "told"
  BY <1>3, Tags
<1> QED
  BY <1>1, <1>2, <1>3 DEF Replies, WatcherInv, Reachable

\* Merging an answer never lowers a height, and stays below the node's.
LEMMA MergedGrows ==
    ASSUME WatcherInv, NEW r \in Requests, Back(poll[r])
    PROVE  /\ Merged(poll[r]) \in Heights
           /\ \A c \in Chains : latestBlock[c] <= Merged(poll[r])[c]
                                  /\ Merged(poll[r])[c] <= height[c]
<1>1. latestBlock \in Heights /\ height \in Heights
  BY DEF WatcherInv, TypeOK
<1>2. CASE poll[r] = Failed
  BY <1>1, <1>2, Constants DEF Merged, WatcherInv, Reachable, Heights
<1>3. CASE poll[r] # Failed
  <2>1. poll[r].seen \in Heights /\ \A c \in Chains : poll[r].seen[c] <= height[c]
    BY <1>3, BackIsTold
  <2> QED
    BY <1>1, <1>3, <2>1, Constants DEF Merged, WatcherInv, Reachable, Heights
<1> QED
  BY <1>2, <1>3

LEMMA WatcherInit == Init => WatcherInv
<1> SUFFICES ASSUME Init PROVE WatcherInv
  OBVIOUS
<1>1. TypeOK
  BY ZeroIsAHeight DEF Init, TypeOK
<1>2. Reachable /\ ShownWasReached
  BY ZeroIsAHeight, Constants, Tags DEF Init, Reachable, ShownWasReached
<1> QED
  BY <1>1, <1>2 DEF WatcherInv

\* A step that only changes what is under way, and not into an answer.
LEMMA Requesting ==
    ASSUME WatcherInv, NEW r \in Requests, NEW a \in {Idle, Sent, Failed},
           poll' = [poll EXCEPT ![r] = a],
           initialized' \in {"none", "pending", "done", "rejected"},
           UNCHANGED <<polling, height, latestBlock, watching, shown, isConnected>>,
           mounted' \in BOOLEAN
    PROVE  WatcherInv'
<1>1. TypeOK'
  BY DEF WatcherInv, TypeOK
<1>2. a.pc # "told"
  BY Tags
<1>3. Reachable' /\ ShownWasReached'
  BY <1>2 DEF WatcherInv, TypeOK, Reachable, ShownWasReached
<1> QED
  BY <1>1, <1>3 DEF WatcherInv

\* A step that takes an answer in.
LEMMA Receiving ==
    ASSUME WatcherInv, NEW r \in Requests, Back(poll[r]),
           poll' = [poll EXCEPT ![r] = Idle],
           latestBlock' = Merged(poll[r]),
           initialized' \in {"none", "pending", "done", "rejected"},
           UNCHANGED <<polling, height, app>>
    PROVE  WatcherInv'
<1>1. TypeOK'
  BY MergedGrows DEF WatcherInv, TypeOK, app
<1>2. Reachable'
  BY MergedGrows, Tags DEF WatcherInv, TypeOK, Reachable
<1>3. ShownWasReached'
  <2>1. shown <= latestBlock[Main] /\ latestBlock[Main] <= Merged(poll[r])[Main]
        /\ Merged(poll[r])[Main] <= height[Main]
    BY MergedGrows, Constants DEF WatcherInv, ShownWasReached
  <2>2. shown \in Int /\ latestBlock[Main] \in Int /\ Merged(poll[r])[Main] \in Int
    BY MergedGrows, Constants DEF WatcherInv, TypeOK, Heights
  <2> QED
    BY <2>1, <2>2 DEF ShownWasReached, app
<1> QED
  BY <1>1, <1>2, <1>3 DEF WatcherInv

LEMMA WatcherStep == ASSUME WatcherInv, [Next]_vars PROVE WatcherInv'
<1> USE Constants
<1>1. CASE UNCHANGED vars
  BY <1>1 DEF vars, watcher, app, WatcherInv, TypeOK, Reachable, ShownWasReached
<1>2. ASSUME NEW c \in Chains, Synced(c) PROVE WatcherInv'
  <2>1. height' \in Heights /\ \A d \in Chains : height[d] <= height'[d]
    BY <1>2 DEF Synced, WatcherInv, TypeOK, Heights
  <2>2. TypeOK'
    BY <1>2, <2>1 DEF Synced, WatcherInv, TypeOK, watcher, app
  <2>3. ASSUME NEW r \in Requests, poll[r].pc = "told" PROVE poll[r].seen \in Heights
    BY <2>3, BackIsTold, Tags DEF Back
  <2>4. Reachable'
    BY <1>2, <2>1, <2>3 DEF Synced, WatcherInv, TypeOK, Reachable, Heights, watcher
  <2>5. ShownWasReached'
    BY <1>2, <2>1 DEF Synced, WatcherInv, TypeOK, ShownWasReached, Heights, watcher, app
  <2> QED
    BY <2>2, <2>4, <2>5 DEF WatcherInv
<1>3. CASE Initialized
  <2>1. ASSUME NEW r \in Requests, Back(poll[r]),
               poll' = [poll EXCEPT ![r] = Idle], latestBlock' = Merged(poll[r]),
               initialized' = IF poll[r] = Failed THEN "rejected" ELSE "done"
        PROVE  WatcherInv'
    BY <1>3, <2>1, Receiving DEF Initialized
  <2>2. CASE ~polling
    BY <1>3, <2>2 DEF Initialized, WatcherInv, TypeOK, Reachable, ShownWasReached, app
  <2> QED
    BY <1>3, <2>1, <2>2 DEF Initialized
<1>4. ASSUME NEW r \in Requests, Send(r) PROVE WatcherInv'
  BY <1>4, Requesting DEF Send, app, WatcherInv, TypeOK
<1>5. ASSUME NEW r \in Requests, Serve(r) PROVE WatcherInv'
  <2>1. PICK a \in {Failed, Told(Zero)} \union
                IF polling THEN {Told(height)}
                ELSE {Told([Zero EXCEPT ![c] = height[c]]) : c \in Chains} :
          poll' = [poll EXCEPT ![r] = a]
    BY <1>5 DEF Serve
  <2>2. CASE a = Failed
    BY <1>5, <2>1, <2>2, Requesting DEF Serve, app, WatcherInv, TypeOK
  <2>3. ASSUME NEW h \in Heights, a = Told(h), \A c \in Chains : h[c] <= height[c]
        PROVE  WatcherInv'
    <3>1. a.seen = h
      BY <2>3, Tags
    <3>2. TypeOK'
      BY <1>5, <2>1, <2>3 DEF Serve, WatcherInv, TypeOK, app
    <3>3. Reachable' /\ ShownWasReached'
      BY <1>5, <2>1, <2>3, <3>1 DEF Serve, WatcherInv, TypeOK, Reachable, ShownWasReached, app
    <3> QED
      BY <3>2, <3>3 DEF WatcherInv
  <2>4. \A c \in Chains : height[c] \in 0..MaxHeight
    BY DEF WatcherInv, TypeOK, Heights
  <2>5. \A c \in Chains : /\ [Zero EXCEPT ![c] = height[c]] \in Heights
                          /\ \A d \in Chains : [Zero EXCEPT ![c] = height[c]][d] <= height[d]
    BY <2>4, ZeroIsAHeight DEF Heights
  <2>6. height \in Heights /\ \A d \in Chains : height[d] <= height[d] /\ Zero[d] <= height[d]
    BY <2>4, ZeroIsAHeight DEF WatcherInv, TypeOK, Heights
  <2> QED
    BY <2>1, <2>2, <2>3, <2>5, <2>6, ZeroIsAHeight
<1>6. ASSUME NEW r \in Requests, Receive(r) PROVE WatcherInv'
  BY <1>6, Receiving DEF Receive, WatcherInv, TypeOK
<1>7. CASE Mount
  <2>1. CASE UNCHANGED <<initialized, poll>>
    BY <1>7, <2>1 DEF Mount, WatcherInv, TypeOK, Reachable, ShownWasReached
  <2>2. CASE EnsureInitialized
    <3>1. CASE polling
      <4>1. PICK r \in Requests : poll' = [poll EXCEPT ![r] = Sent]
        BY <2>2, <3>1 DEF EnsureInitialized
      <4>2. Sent.pc = "sent"
        BY Tags
      <4>3. TypeOK'
        BY <1>7, <2>2, <4>1 DEF Mount, EnsureInitialized, WatcherInv, TypeOK
      <4>4. Reachable' /\ ShownWasReached'
        BY <1>7, <4>1, <4>2 DEF Mount, WatcherInv, TypeOK, Reachable, ShownWasReached
      <4> QED
        BY <4>3, <4>4 DEF WatcherInv
    <3>2. CASE ~polling
      BY <1>7, <2>2, <3>2
         DEF Mount, EnsureInitialized, WatcherInv, TypeOK, Reachable, ShownWasReached
    <3> QED
      BY <3>1, <3>2
  <2> QED
    BY <1>7, <2>1, <2>2 DEF Mount
<1>8. CASE Unmount
  BY <1>8 DEF Unmount, watcher, WatcherInv, TypeOK, Reachable, ShownWasReached
<1>9. CASE WatchBlocks
  BY <1>9 DEF WatchBlocks, watcher, WatcherInv, TypeOK, Reachable, ShownWasReached, Heights
<1> QED
  BY <1>1, <1>2, <1>3, <1>4, <1>5, <1>6, <1>7, <1>8, <1>9 DEF Next

\* Every reachable state of the watcher satisfies the inductive invariant.
THEOREM WatcherIsSound == Spec => []WatcherInv
BY WatcherInit, WatcherStep, PTL DEF Spec

\* The header never shows a block the node has not synced, and every part of
\* the watcher keeps its type (BlockWatcher.ts, App.tsx).
THEOREM NeverAheadOfTheNode == Spec => [](TypeOK /\ ShownWasReached)
<1>1. WatcherInv => TypeOK /\ ShownWasReached
  BY DEF WatcherInv
<1> QED
  BY <1>1, WatcherIsSound, PTL

\* What the header shows never goes back, in whatever order answers arrive.
THEOREM HeightsOnlyGrow == Spec => HeightNeverFalls
<1>1. WatcherInv /\ [Next]_vars
        => [shown' >= shown /\ (isConnected => isConnected')]_<<shown, isConnected>>
  <2> SUFFICES ASSUME WatcherInv, [Next]_vars, ~UNCHANGED <<shown, isConnected>>
               PROVE  shown' >= shown /\ (isConnected => isConnected')
    OBVIOUS
  <2>1. WatchBlocks
    BY DEF Next, vars, watcher, app, Synced, Initialized, Send, Serve, Receive, Mount, Unmount
  <2>2. shown \in Nat /\ latestBlock[Main] \in Nat /\ shown <= latestBlock[Main]
    BY Constants DEF WatcherInv, TypeOK, ShownWasReached, Heights
  <2> QED
    BY <2>1, <2>2 DEF WatchBlocks
<1> QED
  BY <1>1, WatcherIsSound, PTL DEF Spec, HeightNeverFalls

-----------------------------------------------------------------------------
(* Connect Midnight (MidnightWallet)                                       *)

Building == {"build", "sync", "register", "nothing", "accrue", "dust", "providers"}
Registered == {"nothing", "accrue", "dust"}

\* A wallet is only built while none is kept, and joins what is kept.
OneBuildAtATime ==
    /\ pc \in Building => globalWallet = 0
    /\ pc \in Building \ {"build"} => wallet # 0
    /\ pc \in {"join", "read"} => wallet = globalWallet /\ globalWallet # 0
    /\ joined => ~connecting /\ pc = "idle"
    /\ pc # "idle" => connecting

\* The NIGHT seen is held, and has been registered past that stage.
SeenIsHeld ==
    /\ pc \in Building \ {"build", "sync"} => seen \subseteq held
    /\ pc \in Registered => seen \subseteq registered

WalletInv ==
    /\ WalletTypeOK /\ OneWalletKept /\ NightIsPutToWork
    /\ OneBuildAtATime /\ SeenIsHeld

LEMMA WalletInvInit ==
    ASSUME WalletInit
    PROVE  WalletInv
<1>1. WalletTypeOK
  <2>1. 0 \in 0..MaxBuilds
    BY WalletAssumption
  <2>2. held = {} /\ registered = {} /\ seen = {}
    BY DEF WalletInit
  <2>3. held \subseteq Coins /\ registered \subseteq held /\ seen \subseteq Coins
    BY <2>2
  <2> QED
    BY <2>1, <2>3, Zenon DEF WalletInit, WalletTypeOK
<1>2. OneWalletKept /\ NightIsPutToWork
  BY DEF WalletInit, OneWalletKept, NightIsPutToWork
<1>3. OneBuildAtATime /\ SeenIsHeld
  BY DEF WalletInit, OneBuildAtATime, SeenIsHeld, Building, Registered
<1> QED
  BY <1>1, <1>2, <1>3 DEF WalletInv

LEMMA WalletStep ==
    ASSUME WalletInv, [WalletNext]_walletVars
    PROVE  WalletInv'
<1> USE WalletAssumption DEF WalletInv, Building, Registered
<1> USE DEF WalletTypeOK, OneWalletKept, NightIsPutToWork, OneBuildAtATime,
           SeenIsHeld
<1>1. CASE UNCHANGED walletVars
  BY <1>1 DEF walletVars, account, local, globals
<1>2. CASE Accrue
  BY <1>2 DEF Accrue, local, globals
<1>3. ASSUME NEW c \in Coins, ReceiveNight(c) PROVE WalletInv'
  BY <1>3 DEF ReceiveNight, local, globals
<1>4. CASE ClickConnect
  BY <1>4 DEF ClickConnect, Reuse, account, globals
<1>5. CASE Fail
  BY <1>5 DEF Fail, account, local, globals
<1>6. CASE Build
  BY <1>6 DEF Build, account, globals
<1>7. CASE Sync
  BY <1>7 DEF Sync, Go, account, globals
<1>8. CASE Register
  BY <1>8 DEF Register, Go, account, local, globals
<1>9. CASE RegisterNothing
  BY <1>9 DEF RegisterNothing, Go, account, local, globals
<1>10. CASE Accrued
  <2>1. UNCHANGED <<files, connecting, joined, built, globals, account, wallet,
                    seen, hasDust>>
    BY <1>10 DEF Accrued, Go
  <2>2. pc = "accrue" /\ pc' \in {"dust", "providers"}
    BY <1>10 DEF Accrued, Go
  <2>3. pc' = "dust" => refused' = refused
    BY <1>10 DEF Accrued, Go
  <2>4. pc' = "providers" => refused' = TRUE
    BY <1>10 DEF Accrued, Go
  <2> QED
    BY <2>1, <2>2, <2>3, <2>4 DEF account, globals
<1>11. CASE Dust
  BY <1>11 DEF Dust, Go, account, globals
<1>12. CASE Providers
  BY <1>12 DEF Providers, account, local
<1>13. CASE Join
  BY <1>13 DEF Join, Go, account, local, globals
<1>14. CASE Joined
  BY <1>14 DEF Joined, account, local
<1> QED
  BY <1>1, <1>2, <1>3, <1>4, <1>5, <1>6, <1>7, <1>8, <1>9, <1>10, <1>11, <1>12, <1>13, <1>14
     DEF WalletNext, Chain, Connect

\* Every reachable state of the connection satisfies the inductive invariant.
THEOREM WalletIsSound ==
    WalletSpec => []WalletInv
BY WalletInvInit, WalletStep, PTL DEF WalletSpec

\* Every variable of the connection keeps its type.
THEOREM WalletTypes == WalletSpec => []WalletTypeOK
<1>1. WalletInv => WalletTypeOK
  BY DEF WalletInv
<1> QED
  BY <1>1, WalletIsSound, PTL

\* The three module variables never name two wallets (increment.ts:689-776).
THEOREM KeepsOneWallet == WalletSpec => []OneWalletKept
<1>1. WalletInv => OneWalletKept
  BY DEF WalletInv
<1> QED
  BY <1>1, WalletIsSound, PTL

\* NIGHT the wallet saw is registered before the page connects without dust,
\* unless that was refused (syncAndWaitForFunds, registerNightForDust).
THEOREM PutsNightToWork == WalletSpec => []NightIsPutToWork
<1>1. WalletInv => NightIsPutToWork
  BY DEF WalletInv
<1> QED
  BY <1>1, WalletIsSound, PTL

\* A wallet that is kept is the last one built (connectMidnightWallet).
THEOREM BuildsOnce == WalletSpec => BuiltOnce
<1>1. WalletInv /\ [WalletNext]_walletVars
        => [globalWallet # 0 => globalWallet' = globalWallet /\ built' = built]_walletVars
  <2> SUFFICES ASSUME WalletInv, WalletNext, globalWallet # 0
               PROVE  globalWallet' = globalWallet /\ built' = built
    OBVIOUS
  <2>1. ~Build /\ ~Providers
    BY DEF Build, Providers, WalletInv, OneBuildAtATime, Building
  <2> QED
    BY <2>1 DEF WalletNext, Chain, Connect, Accrue, ReceiveNight,
       ClickConnect, Fail, Sync, Register, RegisterNothing,
                Accrued, Dust, Join, Joined, Go, globals
<1> QED
  BY <1>1, WalletIsSound, PTL DEF WalletSpec, BuiltOnce

-----------------------------------------------------------------------------
(* The trading page (TradingPage)                                          *)

IsCards(cs) == cs \in [DOMAIN cs -> Toast] /\ DOMAIN cs \subseteq Ids

\* The cards new are the cards cs, with one more or one less.
Added(new, cs, id, card) ==
    /\ IsCards(new) /\ DOMAIN new = DOMAIN cs \union {id} /\ new[id] = card
    /\ \A i \in DOMAIN cs \ {id} : new[i] = cs[i]
Removed(new, cs, id) ==
    /\ IsCards(new) /\ DOMAIN new = DOMAIN cs \ {id}
    /\ \A i \in DOMAIN new : new[i] = cs[i]

LEMMA PutUpCard ==
    ASSUME NEW cs, IsCards(cs), NEW id \in Ids, NEW card \in Toast
    PROVE  Added(PutUp(cs, id, card), cs, id, card)
BY DEF IsCards, PutUp, Added

Subjects == Calls \union {BootCard}

LEMMA AnsweredCard ==
    ASSUME NEW cs, IsCards(cs), NEW id, NEW what \in Subjects,
           NEW new, new = WithAnswer(cs, id, what)
    PROVE  /\ IsCards(new) /\ DOMAIN new = DOMAIN cs
           /\ \A i \in DOMAIN cs : /\ new[i].for = cs[i].for
                                   /\ i # id => new[i] = cs[i]
                                   /\ i = id => new[i].kind = "done" /\ new[i].shows = what
<1>1. CASE id \notin DOMAIN cs
  BY <1>1 DEF WithAnswer
<1>2. CASE id \in DOMAIN cs
  <2> DEFINE card == [kind |-> "done", for |-> cs[id].for, shows |-> what]
  <2>1. cs[id] \in Toast /\ cs[id].for \in Calls \union {BootCard}
    BY <1>2 DEF IsCards, Toast
  <2>2. [[cs[id] EXCEPT !.kind = "done"] EXCEPT !.shows = what]
          = [kind |-> "done", for |-> cs[id].for, shows |-> what]
    <3>1. [cs[id] EXCEPT !.kind = "done"]
             = [kind |-> "done", for |-> cs[id].for, shows |-> cs[id].shows]
      BY <2>1 DEF Toast
    <3>2. [[kind |-> "done", for |-> cs[id].for, shows |-> cs[id].shows] EXCEPT !.shows = what]
             = [kind |-> "done", for |-> cs[id].for, shows |-> what]
      OBVIOUS
    <3> QED
      BY <3>1, <3>2
  <2>3. card \in Toast
    BY <2>1 DEF Toast, Subjects
  <2>4. [cs EXCEPT ![id].kind = "done", ![id].shows = what] = [cs EXCEPT ![id] = card]
    <3>1. [cs EXCEPT ![id].kind = "done", ![id].shows = what]
             = [cs EXCEPT ![id] = [[cs[id] EXCEPT !.kind = "done"] EXCEPT !.shows = what]]
      BY <1>2 DEF IsCards
    <3> QED
      BY <2>2, <3>1
  <2>5. new = [cs EXCEPT ![id] = card]
    BY <1>2, <2>4 DEF WithAnswer
  <2>6. card.for = cs[id].for /\ card.kind = "done" /\ card.shows = what
    OBVIOUS
  <2> HIDE DEF card
  <2> QED
    BY <1>2, <2>3, <2>5, <2>6 DEF IsCards
<1> QED
  BY <1>1, <1>2

LEMMA ClosedCard ==
    ASSUME NEW cs, IsCards(cs), NEW id
    PROVE  Removed(Restrict(cs, DOMAIN cs \ {id}), cs, id)
BY DEF IsCards, Restrict, Removed

LEMMA SpinnersAreCards ==
    /\ \A what \in Calls \union {BootCard} :
          /\ Spinner(what) \in Toast /\ Spinner(what).for = what
          /\ Spinner(what).kind = "work" /\ Spinner(what).shows = NoAnswer
    /\ FreeIds # {} => NextId \in Ids /\ NextId \notin DOMAIN toasts
BY DEF Spinner, Toast, FreeIds, NextId

\* The page's types, and cards that are a function from ids.
PageTyped == PageTypeOK /\ IsCards(toasts)

Poll == {NotAsked, Asked} \union {Answered(s) : s \in Snapshots}

LEMMA PollsAre ==
    /\ NotAsked \in Poll /\ Asked \in Poll
    /\ \A s \in Snapshots : Answered(s) \in Poll
    /\ \A q \in Poll : q.pc = "answered" => q.state \in Snapshots
<1>1. /\ NotAsked.pc = "idle" /\ Asked.pc = "asked"
      /\ \A s : Answered(s).state = s
  BY DEF NotAsked, Asked, Answered
<1>2. ASSUME NEW q \in Poll, q.pc = "answered"
      PROVE  q.state \in Snapshots
  <2>1. q # NotAsked /\ q # Asked
    BY <1>1, <1>2
  <2>2. PICK s \in Snapshots : q = Answered(s)
    BY <2>1 DEF Poll
  <2> QED
    BY <1>1, <2>2
<1> QED
  BY <1>2 DEF Poll

\* What a step may do to the cards: a new one, an answer, an end, or nothing.
LEMMA CardsStep ==
    ASSUME PageTyped, [PageNext]_pageVars
    PROVE  IsCards(toasts') /\ {workToast', bootToast'} \subseteq DOMAIN toasts' \union {None}
<1>0. IsCards(toasts) /\ {workToast, bootToast} \subseteq DOMAIN toasts \union {None}
  BY DEF PageTyped, PageTypeOK
<1>1. CASE UNCHANGED cards
  BY <1>0, <1>1 DEF cards
<1>2. ASSUME NEW p \in Polls, Refresh(p)
      PROVE  /\ IsCards(toasts')
             /\ {workToast', bootToast'} \subseteq DOMAIN toasts' \union {None}
  <2> DEFINE s == statePoll[p].state
             new == s.booting /\ bootToast = None /\ workToast = None
             id == IF new THEN NextId ELSE bootToast
             onScreen == IF new THEN PutUp(toasts, id, Spinner(BootCard)) ELSE toasts
             ended == id # None /\ (~s.booting \/ s.bootError)
  <2>1. /\ new => FreeIds # {}
        /\ toasts' = IF ended THEN WithAnswer(onScreen, id, BootCard) ELSE onScreen
        /\ bootToast' = IF ended THEN None ELSE id
        /\ workToast' = workToast
    BY <1>2 DEF Refresh, BootCardFrom
  <2>2. /\ IsCards(onScreen) /\ DOMAIN toasts \subseteq DOMAIN onScreen
        /\ id \in DOMAIN onScreen \union {None}
    <3>1. CASE new
      <4>1. Spinner(BootCard) \in Toast /\ NextId \in Ids
        BY <2>1, <3>1, SpinnersAreCards
      <4>2. /\ id = NextId
            /\ onScreen = PutUp(toasts, NextId, Spinner(BootCard))
        BY <3>1
      <4> HIDE DEF onScreen, id, new
      <4>3. IsCards(onScreen) /\ DOMAIN onScreen = DOMAIN toasts \union {NextId}
        <5>1. Added(onScreen, toasts, NextId, Spinner(BootCard))
          BY <1>0, <4>1, <4>2, PutUpCard
        <5> QED
          BY <5>1, <4>2 DEF Added
      <4> QED
        BY <4>2, <4>3
    <3>2. CASE ~new
      BY <1>0, <3>2
    <3> QED
      BY <3>1, <3>2
  <2> HIDE DEF onScreen, id, new
  <2> HIDE DEF ended
  <2>4. IsCards(toasts') /\ DOMAIN toasts' = DOMAIN onScreen
    <3>1. BootCard \in Subjects
      BY DEF Subjects
    <3>2. CASE ended
      <4>1. toasts' = WithAnswer(onScreen, id, BootCard)
        BY <2>1, <3>2
      <4> QED
        BY <2>2, <3>1, <4>1, AnsweredCard
    <3> QED
      BY <2>1, <2>2, <3>2
  <2>5. workToast' \in DOMAIN toasts' \union {None}
    BY <1>0, <2>1, <2>2, <2>4
  <2>6. bootToast' \in DOMAIN toasts' \union {None}
    BY <2>1, <2>2, <2>4
  <2> QED
    BY <2>4, <2>5, <2>6
<1>3. ASSUME NEW c \in Calls, Click(c)
      PROVE  /\ IsCards(toasts')
             /\ {workToast', bootToast'} \subseteq DOMAIN toasts' \union {None}
  <2>1. /\ FreeIds # {} /\ toasts' = PutUp(toasts, NextId, Spinner(c))
        /\ workToast' = NextId /\ bootToast' = bootToast
    BY <1>3 DEF Click
  <2>2. Spinner(c) \in Toast /\ NextId \in Ids
    BY <2>1, SpinnersAreCards
  <2>3. IsCards(toasts') /\ DOMAIN toasts' = DOMAIN toasts \union {NextId}
    <3>1. Added(toasts', toasts, NextId, Spinner(c))
      BY <1>0, <2>1, <2>2, PutUpCard
    <3> QED
      BY <3>1 DEF Added
  <2> QED
    BY <1>0, <2>1, <2>3
<1>4. ASSUME NEW c \in Calls, Answer(c)
      PROVE  /\ IsCards(toasts')
             /\ {workToast', bootToast'} \subseteq DOMAIN toasts' \union {None}
  <2>1. toasts' = WithAnswer(toasts, workToast, c)
    BY <1>4 DEF Answer, Conclude
  <2>0. c \in Subjects
    BY DEF Subjects
  <2>2. workToast' = None /\ bootToast' = bootToast
    BY <1>4 DEF Answer, Conclude
  <2>3. IsCards(toasts') /\ DOMAIN toasts' = DOMAIN toasts
    BY <1>0, <2>0, <2>1, AnsweredCard
  <2> QED
    BY <1>0, <2>2, <2>3
<1>5. ASSUME NEW id \in Ids, CloseToast(id)
      PROVE  /\ IsCards(toasts')
             /\ {workToast', bootToast'} \subseteq DOMAIN toasts' \union {None}
  <2>1. IsCards(toasts') /\ DOMAIN toasts' = DOMAIN toasts \ {id}
    BY <1>0, <1>5, ClosedCard DEF CloseToast, Removed
  <2>2. /\ workToast' = IF workToast = id THEN None ELSE workToast
        /\ bootToast' = IF bootToast = id THEN None ELSE bootToast
    BY <1>5 DEF CloseToast
  <2> QED
    BY <1>0, <2>1, <2>2
<1> QED
  BY <1>1, <1>2, <1>3, <1>4, <1>5
     DEF PageNext, pageVars, cards, PickBackend, Tick, State,
         RefreshFails,
         Book, WalletFails, BootDone

LEMMA PageTypedInit == ASSUME PageInit PROVE PageTyped
<1>1. IsCards(toasts) /\ DOMAIN toasts = {}
  BY DEF PageInit, IsCards
<1>2. 0 \in 0..MaxVersion
  BY PageAssumption
<1> QED
  BY <1>1, <1>2 DEF PageInit, PageTyped, PageTypeOK, IsCards

LEMMA PageTypedStep ==
    ASSUME PageTyped, [PageNext]_pageVars
    PROVE  PageTyped'
<1>0. /\ version \in 0..MaxVersion /\ booting \in BOOLEAN /\ bootError \in BOOLEAN
      /\ picked \in BOOLEAN /\ backendLive \in BOOLEAN
      /\ painted \in {Unpainted, Offline} \union 0..MaxVersion
      /\ statePoll \in [Polls -> Poll] /\ call \in [Calls -> {"none", "sent", "answered"}]
  BY DEF PageTyped, PageTypeOK, Poll
<1>4. crossed' \subseteq Calls
  BY DEF PageTyped, PageTypeOK, PageNext, pageVars, PickBackend, Tick, State, Refresh,
         RefreshFails, Click, InFlight, Answer, CloseToast, Book, WalletFails, BootDone
<1>1. /\ version' \in 0..MaxVersion /\ booting' \in BOOLEAN /\ bootError' \in BOOLEAN
      /\ picked' \in BOOLEAN /\ backendLive' \in BOOLEAN
  <2>1. CASE Book
    BY <1>0, <2>1, PageAssumption DEF Book
  <2>2. CASE WalletFails \/ BootDone \/ PickBackend
    BY <1>0, <2>2 DEF WalletFails, BootDone, PickBackend, backend
  <2>3. CASE UNCHANGED <<backend, picked>> /\ backendLive' \in {FALSE, backendLive}
    BY <1>0, <2>3 DEF backend
  <2> QED
    BY <2>1, <2>2, <2>3
       DEF PageNext, pageVars, Tick, State, Refresh, RefreshFails,
           Click, Answer, CloseToast
<1>2. call' \in [Calls -> {"none", "sent", "answered"}]
  BY <1>0 DEF PageNext, pageVars, PickBackend, Tick,
              State, Refresh, RefreshFails, Click, Answer, Conclude,
              CloseToast, Book, WalletFails, BootDone
<1>3. /\ statePoll' \in [Polls -> Poll]
      /\ painted' \in {Unpainted, Offline} \union 0..MaxVersion
  <2>1. ASSUME NEW p \in Polls, StartRefresh(p)
        PROVE  /\ statePoll' \in [Polls -> Poll]
               /\ painted' \in {Unpainted, Offline} \union 0..MaxVersion
    BY <1>0, <2>1, PollsAre DEF StartRefresh
  <2>2. ASSUME NEW p \in Polls, State(p) \/ RefreshFails(p)
        PROVE  /\ statePoll' \in [Polls -> Poll]
               /\ painted' \in {Unpainted, Offline} \union 0..MaxVersion
    <3>1. Snapshot \in Snapshots
      BY <1>0 DEF Snapshot, Snapshots
    <3> QED
      BY <1>0, <2>2, <3>1, PollsAre DEF State, RefreshFails
  <2>3. ASSUME NEW p \in Polls, Refresh(p)
        PROVE  /\ statePoll' \in [Polls -> Poll]
               /\ painted' \in {Unpainted, Offline} \union 0..MaxVersion
    <3>1. statePoll[p].state \in Snapshots
      BY <1>0, <2>3, PollsAre DEF Refresh
    <3>2. statePoll[p].state.version \in 0..MaxVersion
      BY <3>1 DEF Snapshots
    <3> QED
      BY <1>0, <2>3, <3>2, PollsAre DEF Refresh
  <2>4. Timers \subseteq Polls /\ Calls \subseteq Polls
    BY DEF Polls
  <2> QED
    BY <1>0, <2>1, <2>2, <2>3, <2>4
       DEF PageNext, pageVars, PickBackend, Tick, Click,
       Answer, Conclude, CloseToast, Book, WalletFails, BootDone
<1> QED
  BY <1>1, <1>2, <1>3, <1>4, CardsStep DEF PageTyped, PageTypeOK, Poll, IsCards

\* The page keeps its types, and its two globals never name a card that is
\* gone, whatever order polls, answers and the user's closing come in
\* (index.html:667-721).
THEOREM PageTypes == PageSpec => []PageTypeOK
<1>1. PageTyped => PageTypeOK
  BY DEF PageTyped
<1> QED
  BY <1>1, PageTypedInit, PageTypedStep, PTL DEF PageSpec

\* What the page's two globals stand for: the card of a click under way, and a
\* card of the boot. Clicks that are under way together have crossed.
Named(cs, work, boot, calls, over) ==
    /\ work # None => \E c \in Calls : calls[c] = "sent" /\ cs[work].for = c
    /\ boot # None => cs[boot].for = BootCard
    /\ \A c, d \in Calls :
          calls[c] = "sent" /\ calls[d] = "sent" => c = d \/ {c, d} \subseteq over

Own(cs, over) ==
    \A id \in DOMAIN cs : \/ cs[id].shows \in {NoAnswer, cs[id].for}
                          \/ {cs[id].for, cs[id].shows} \subseteq over

PageInv == PageTyped /\ Named(toasts, workToast, bootToast, call, crossed) /\ Own(toasts, crossed)

LEMMA PageInvInit == ASSUME PageInit PROVE PageInv
<1>1. DOMAIN toasts = {}
  BY DEF PageInit
<1> QED
  BY <1>1, PageTypedInit DEF PageInit, PageInv, Named, Own

\* A snapshot puts up the card of the boot, ends it, or both.
LEMMA OwnedByRefresh ==
    ASSUME PageInv, NEW p \in Polls, Refresh(p)
    PROVE  Named(toasts', workToast', bootToast', call', crossed') /\ Own(toasts', crossed')
<1>0. /\ IsCards(toasts) /\ Own(toasts, crossed)
      /\ Named(toasts, workToast, bootToast, call, crossed)
      /\ {workToast, bootToast} \subseteq DOMAIN toasts \union {None}
  BY DEF PageInv, PageTyped, PageTypeOK
<1> DEFINE s == statePoll[p].state
           new == s.booting /\ bootToast = None /\ workToast = None
           id == IF new THEN NextId ELSE bootToast
           onScreen == IF new THEN PutUp(toasts, id, Spinner(BootCard)) ELSE toasts
           ended == id # None /\ (~s.booting \/ s.bootError)
<1>1. /\ new => FreeIds # {}
      /\ toasts' = IF ended THEN WithAnswer(onScreen, id, BootCard) ELSE onScreen
      /\ bootToast' = IF ended THEN None ELSE id
      /\ workToast' = workToast /\ call' = call /\ crossed' = crossed
  BY DEF Refresh, BootCardFrom
<1>2. /\ IsCards(onScreen) /\ Own(onScreen, crossed)
      /\ Named(onScreen, workToast, id, call, crossed)
      /\ {workToast, id} \subseteq DOMAIN onScreen \union {None}
  <2>1. CASE new
    <3>1. /\ Spinner(BootCard) \in Toast /\ NextId \in Ids
          /\ Spinner(BootCard).for = BootCard
          /\ Spinner(BootCard).shows = NoAnswer
      BY <1>1, <2>1, SpinnersAreCards
    <3>2. /\ id = NextId /\ workToast = None
          /\ onScreen = PutUp(toasts, NextId, Spinner(BootCard))
      BY <2>1
    <3> HIDE DEF onScreen, id, new
    <3>3. /\ IsCards(onScreen) /\ DOMAIN onScreen = DOMAIN toasts \union {id}
          /\ onScreen[id] = Spinner(BootCard)
          /\ \A i \in DOMAIN toasts \ {id} : onScreen[i] = toasts[i]
      <4>1. Added(onScreen, toasts, NextId, Spinner(BootCard))
        BY <1>0, <3>1, <3>2, PutUpCard
      <4> QED
        BY <4>1, <3>2 DEF Added
    <3>4. Own(onScreen, crossed)
      BY <1>0, <3>1, <3>3 DEF Own
    <3>5. Named(onScreen, workToast, id, call, crossed)
      BY <1>0, <3>1, <3>2, <3>3 DEF Named
    <3> QED
      BY <3>2, <3>3, <3>4, <3>5
  <2>2. CASE ~new
    BY <1>0, <2>2
  <2> QED
    BY <2>1, <2>2
<1> HIDE DEF onScreen, id, new, ended
<1>3. CASE ended
  <2>1. BootCard \in Subjects
    BY DEF Subjects
  <2>2. toasts' = WithAnswer(onScreen, id, BootCard)
    BY <1>1, <1>3
  <2>3. /\ DOMAIN toasts' = DOMAIN onScreen
        /\ \A i \in DOMAIN onScreen : /\ toasts'[i].for = onScreen[i].for
                                      /\ i # id => toasts'[i] = onScreen[i]
                                      /\ i = id => toasts'[i].shows = BootCard
    BY <1>2, <2>1, <2>2, AnsweredCard
  <2>4. id # None /\ onScreen[id].for = BootCard
    BY <1>2, <1>3 DEF ended, Named
  <2>5. Own(toasts', crossed')
    BY <1>1, <1>2, <2>3, <2>4 DEF Own
  <2>6. Named(toasts', workToast', bootToast', call', crossed')
    BY <1>1, <1>2, <1>3, <2>3 DEF Named
  <2> QED
    BY <2>5, <2>6
<1>4. CASE ~ended
  BY <1>1, <1>2, <1>4
<1> QED
  BY <1>3, <1>4

\* A click puts up its own card, and becomes the one under way.
LEMMA OwnedByClick ==
    ASSUME PageInv, NEW c \in Calls, Click(c)
    PROVE  Named(toasts', workToast', bootToast', call', crossed') /\ Own(toasts', crossed')
<1>0. /\ IsCards(toasts) /\ Own(toasts, crossed)
      /\ Named(toasts, workToast, bootToast, call, crossed)
      /\ {workToast, bootToast} \subseteq DOMAIN toasts \union {None}
      /\ call \in [Calls -> {"none", "sent", "answered"}]
  BY DEF PageInv, PageTyped, PageTypeOK
<1>1. /\ FreeIds # {} /\ toasts' = PutUp(toasts, NextId, Spinner(c))
      /\ workToast' = NextId /\ bootToast' = bootToast
      /\ call' = [call EXCEPT ![c] = "sent"]
      /\ crossed' = IF InFlight = {} THEN crossed ELSE crossed \union InFlight \union {c}
  BY DEF Click
<1>2. /\ Spinner(c) \in Toast /\ NextId \in Ids /\ NextId \notin DOMAIN toasts
      /\ Spinner(c).for = c /\ Spinner(c).shows = NoAnswer
  BY <1>1, SpinnersAreCards
<1>3. /\ DOMAIN toasts' = DOMAIN toasts \union {NextId}
      /\ toasts'[NextId] = Spinner(c)
      /\ \A i \in DOMAIN toasts \ {NextId} : toasts'[i] = toasts[i]
  <2>1. Added(toasts', toasts, NextId, Spinner(c))
    BY <1>0, <1>1, <1>2, PutUpCard
  <2> QED
    BY <2>1 DEF Added
<1>4. Own(toasts', crossed')
  <2>1. crossed \subseteq crossed'
    BY <1>1
  <2> QED
    BY <1>0, <1>2, <1>3, <2>1 DEF Own
<1>5. /\ call'[c] = "sent"
      /\ \A d, e \in Calls : call'[d] = "sent" /\ call'[e] = "sent"
                             => d = e \/ {d, e} \subseteq crossed'
  <2>1. \A d \in Calls : call'[d] = "sent" => d = c \/ d \in InFlight
    BY <1>0, <1>1 DEF InFlight
  <2> QED
    BY <1>0, <1>1, <2>1
<1>6. bootToast' # None => toasts'[bootToast'].for = BootCard
  BY <1>0, <1>1, <1>2, <1>3 DEF Named
<1>7. toasts'[workToast'].for = c
  BY <1>1, <1>2, <1>3
<1> QED
  BY <1>4, <1>5, <1>6, <1>7 DEF Named

\* The answer goes to the card of workToast, which is that of the click.
LEMMA OwnedByAnswer ==
    ASSUME PageInv, NEW c \in Calls, Answer(c)
    PROVE  Named(toasts', workToast', bootToast', call', crossed') /\ Own(toasts', crossed')
<1>0. /\ IsCards(toasts) /\ Own(toasts, crossed)
      /\ Named(toasts, workToast, bootToast, call, crossed)
      /\ {workToast, bootToast} \subseteq DOMAIN toasts \union {None}
      /\ call \in [Calls -> {"none", "sent", "answered"}]
  BY DEF PageInv, PageTyped, PageTypeOK
<1>1. toasts' = WithAnswer(toasts, workToast, c)
  BY DEF Answer, Conclude
<1>2. /\ workToast' = None /\ bootToast' = bootToast
      /\ call[c] = "sent" /\ call' = [call EXCEPT ![c] = "answered"]
      /\ crossed' = crossed
  BY DEF Answer, Conclude
<1>3. c \in Subjects
  BY DEF Subjects
<1>4. /\ DOMAIN toasts' = DOMAIN toasts
      /\ \A i \in DOMAIN toasts : /\ toasts'[i].for = toasts[i].for
                                  /\ i # workToast => toasts'[i] = toasts[i]
                                  /\ i = workToast => toasts'[i].shows = c
  BY <1>0, <1>1, <1>3, AnsweredCard
<1>5. ASSUME workToast \in DOMAIN toasts
      PROVE  \/ toasts[workToast].for = c
             \/ {toasts[workToast].for, c} \subseteq crossed
  <2>1. workToast # None
    BY <1>0, <1>5, PageAssumption DEF None, IsCards
  <2> QED
    BY <1>0, <1>2, <2>1 DEF Named
<1>6. Own(toasts', crossed')
  BY <1>0, <1>2, <1>4, <1>5 DEF Own
<1>7. Named(toasts', workToast', bootToast', call', crossed')
  BY <1>0, <1>2, <1>4 DEF Named
<1> QED
  BY <1>6, <1>7

LEMMA PageInvStep ==
    ASSUME PageInv, [PageNext]_pageVars
    PROVE  PageInv'
<1>0. /\ IsCards(toasts) /\ Own(toasts, crossed)
      /\ Named(toasts, workToast, bootToast, call, crossed)
      /\ {workToast, bootToast} \subseteq DOMAIN toasts \union {None}
      /\ PageTyped'
  BY PageTypedStep DEF PageInv, PageTyped, PageTypeOK
<1>1. ASSUME NEW id \in Ids, CloseToast(id)
      PROVE  Named(toasts', workToast', bootToast', call', crossed') /\ Own(toasts', crossed')
  <2>1. /\ DOMAIN toasts' = DOMAIN toasts \ {id}
        /\ \A i \in DOMAIN toasts' : toasts'[i] = toasts[i]
    <3>1. Removed(toasts', toasts, id)
      BY <1>1, <1>0, ClosedCard DEF CloseToast
    <3> QED
      BY <3>1 DEF Removed
  <2>2. /\ workToast' = IF workToast = id THEN None ELSE workToast
        /\ bootToast' = IF bootToast = id THEN None ELSE bootToast
        /\ call' = call /\ crossed' = crossed
    BY <1>1 DEF CloseToast
  <2>3. Own(toasts', crossed')
    BY <1>0, <2>1, <2>2 DEF Own
  <2>4. Named(toasts', workToast', bootToast', call', crossed')
    BY <1>0, <2>1, <2>2 DEF Named
  <2> QED
    BY <2>3, <2>4
<1>2. ASSUME UNCHANGED <<cards, call, crossed>>
      PROVE  Named(toasts', workToast', bootToast', call', crossed') /\ Own(toasts', crossed')
  BY <1>0, <1>2 DEF cards
<1>3. Named(toasts', workToast', bootToast', call', crossed') /\ Own(toasts', crossed')
  <2>1. \/ UNCHANGED pageVars \/ PickBackend \/ \E t \in Timers : Tick(t)
        \/ \E p \in Polls : State(p) \/ RefreshFails(p)
        \/ Book \/ WalletFails \/ BootDone
        => UNCHANGED <<cards, call, crossed>>
    BY DEF pageVars, PickBackend, Tick, State, RefreshFails,
           Book, WalletFails, BootDone
  <2>2. ASSUME NEW p \in Polls, Refresh(p)
        PROVE  Named(toasts', workToast', bootToast', call', crossed') /\ Own(toasts', crossed')
    BY <2>2, OwnedByRefresh
  <2>3. ASSUME NEW c \in Calls, Click(c) \/ Answer(c)
        PROVE  Named(toasts', workToast', bootToast', call', crossed') /\ Own(toasts', crossed')
    BY <2>3, OwnedByClick, OwnedByAnswer
  <2> QED
    BY <1>1, <1>2, <2>1, <2>2, <2>3 DEF PageNext
<1> QED
  BY <1>0, <1>3 DEF PageInv

\* A card shows the answer of what it was put up for, unless that and what it
\* shows are two clicks that each overlapped another: no number of those ever
\* reaches the card of the boot, or of a click made after they were answered
\* (index.html:667-721, 804-818, 898-965).
THEOREM CardsKeepTheirOwn ==
    PageSpec => []CardsShowTheirOwn
<1>1. PageInv => CardsShowTheirOwn
  BY DEF PageInv, Own, CardsShowTheirOwn
<1> QED
  BY <1>1, PageInvInit, PageInvStep, PTL DEF PageSpec

\* A spinning card is the boot's, and bootToast names it, or it is the card of
\* the click under way, and workToast names it, or of a click that has crossed.
Tracked(cs, work, boot, calls, over) ==
    \A id \in DOMAIN cs : cs[id].kind = "work" =>
        IF cs[id].for = BootCard
        THEN boot = id
        ELSE \/ work = id /\ calls[cs[id].for] = "sent"
             \/ cs[id].for \in over

LEMMA TrackedByRefresh ==
    ASSUME PageInv, Tracked(toasts, workToast, bootToast, call, crossed),
           NEW p \in Polls, Refresh(p)
    PROVE  Tracked(toasts', workToast', bootToast', call', crossed')
<1>0. /\ IsCards(toasts) /\ Named(toasts, workToast, bootToast, call, crossed)
      /\ {workToast, bootToast} \subseteq DOMAIN toasts \union {None}
  BY DEF PageInv, PageTyped, PageTypeOK
<1> DEFINE s == statePoll[p].state
           new == s.booting /\ bootToast = None /\ workToast = None
           id == IF new THEN NextId ELSE bootToast
           onScreen == IF new THEN PutUp(toasts, id, Spinner(BootCard)) ELSE toasts
           ended == id # None /\ (~s.booting \/ s.bootError)
<1>1. /\ new => FreeIds # {}
      /\ toasts' = IF ended THEN WithAnswer(onScreen, id, BootCard) ELSE onScreen
      /\ bootToast' = IF ended THEN None ELSE id
      /\ workToast' = workToast /\ call' = call /\ crossed' = crossed
  BY DEF Refresh, BootCardFrom
<1>2. IsCards(onScreen) /\ Tracked(onScreen, workToast, id, call, crossed)
  <2>1. CASE new
    <3>1. /\ Spinner(BootCard) \in Toast /\ NextId \in Ids
          /\ Spinner(BootCard).for = BootCard
      BY <1>1, <2>1, SpinnersAreCards
    <3>2. /\ id = NextId /\ bootToast = None
          /\ onScreen = PutUp(toasts, NextId, Spinner(BootCard))
      BY <2>1
    <3> HIDE DEF onScreen, id, new
    <3>3. /\ IsCards(onScreen) /\ DOMAIN onScreen = DOMAIN toasts \union {id}
          /\ onScreen[id] = Spinner(BootCard)
          /\ \A i \in DOMAIN toasts \ {id} : onScreen[i] = toasts[i]
      <4>1. Added(onScreen, toasts, NextId, Spinner(BootCard))
        BY <1>0, <3>1, <3>2, PutUpCard
      <4> QED
        BY <4>1, <3>2 DEF Added
    <3>4. None \notin DOMAIN toasts
      BY <1>0, PageAssumption DEF IsCards, None
    <3> QED
      BY <3>1, <3>2, <3>3, <3>4 DEF Tracked
  <2>2. CASE ~new
    BY <1>0, <2>2
  <2> QED
    BY <2>1, <2>2
<1> HIDE DEF onScreen, id, new, ended
<1>3. CASE ended
  <2>1. BootCard \in Subjects
    BY DEF Subjects
  <2>2. toasts' = WithAnswer(onScreen, id, BootCard)
    BY <1>1, <1>3
  <2>3. /\ DOMAIN toasts' = DOMAIN onScreen
        /\ \A i \in DOMAIN onScreen : /\ i # id => toasts'[i] = onScreen[i]
                                      /\ i = id => toasts'[i].kind = "done"
    BY <1>2, <2>1, <2>2, AnsweredCard
  <2> QED
    BY <1>1, <1>2, <2>1, <2>3 DEF Tracked
<1>4. CASE ~ended
  BY <1>1, <1>2, <1>4
<1> QED
  BY <1>3, <1>4

LEMMA TrackedByClick ==
    ASSUME PageInv, Tracked(toasts, workToast, bootToast, call, crossed), NEW c \in Calls, Click(c)
    PROVE  Tracked(toasts', workToast', bootToast', call', crossed')
<1>0. IsCards(toasts) /\ call \in [Calls -> {"none", "sent", "answered"}]
  BY DEF PageInv, PageTyped, PageTypeOK
<1>1. /\ FreeIds # {} /\ toasts' = PutUp(toasts, NextId, Spinner(c))
      /\ workToast' = NextId /\ bootToast' = bootToast
      /\ call' = [call EXCEPT ![c] = "sent"]
      /\ crossed' = IF InFlight = {} THEN crossed ELSE crossed \union InFlight \union {c}
  BY DEF Click
<1>2. /\ Spinner(c) \in Toast /\ NextId \in Ids /\ NextId \notin DOMAIN toasts
      /\ Spinner(c).for = c
  BY <1>1, SpinnersAreCards
<1>3. /\ DOMAIN toasts' = DOMAIN toasts \union {NextId}
      /\ toasts'[NextId] = Spinner(c)
      /\ \A i \in DOMAIN toasts \ {NextId} : toasts'[i] = toasts[i]
  <2>1. Added(toasts', toasts, NextId, Spinner(c))
    BY <1>0, <1>1, <1>2, PutUpCard
  <2> QED
    BY <2>1 DEF Added
<1>4. \A i \in DOMAIN toasts : toasts[i].kind = "work" =>
          IF toasts[i].for = BootCard THEN bootToast = i ELSE toasts[i].for \in crossed'
  <2>1. \A i \in DOMAIN toasts : toasts[i].for \in Calls \union {BootCard}
    BY <1>0 DEF IsCards, Toast
  <2>2. ASSUME NEW d \in Calls, call[d] = "sent" PROVE d \in crossed'
    BY <1>1, <2>2 DEF InFlight
  <2> QED
    BY <1>1, <2>1, <2>2 DEF Tracked
<1>5. Spinner(c).for # BootCard /\ call'[c] = "sent"
  BY <1>0, <1>1, <1>2, PageAssumption
<1> QED
  BY <1>1, <1>2, <1>3, <1>4, <1>5 DEF Tracked

LEMMA TrackedByAnswer ==
    ASSUME PageInv, Tracked(toasts, workToast, bootToast, call, crossed),
           NEW c \in Calls, Answer(c)
    PROVE  Tracked(toasts', workToast', bootToast', call', crossed')
<1>0. IsCards(toasts)
  BY DEF PageInv, PageTyped
<1>1. toasts' = WithAnswer(toasts, workToast, c)
  BY DEF Answer, Conclude
<1>2. bootToast' = bootToast /\ crossed' = crossed
  BY DEF Answer
<1>3. c \in Subjects
  BY DEF Subjects
<1>4. /\ DOMAIN toasts' = DOMAIN toasts
      /\ \A i \in DOMAIN toasts : /\ i # workToast => toasts'[i] = toasts[i]
                                  /\ i = workToast => toasts'[i].kind = "done"
  BY <1>0, <1>1, <1>3, AnsweredCard
<1> QED
  BY <1>2, <1>3, <1>4 DEF Tracked

LEMMA TrackedStep ==
    ASSUME PageInv, Tracked(toasts, workToast, bootToast, call, crossed), [PageNext]_pageVars
    PROVE  Tracked(toasts, workToast, bootToast, call, crossed)'
<1>1. ASSUME NEW id \in Ids, CloseToast(id)
      PROVE  Tracked(toasts', workToast', bootToast', call', crossed')
  <2>1. IsCards(toasts)
    BY DEF PageInv, PageTyped
  <2>2. /\ DOMAIN toasts' = DOMAIN toasts \ {id}
        /\ \A i \in DOMAIN toasts' : toasts'[i] = toasts[i]
    <3>1. Removed(toasts', toasts, id)
      BY <1>1, <2>1, ClosedCard DEF CloseToast
    <3> QED
      BY <3>1 DEF Removed
  <2>3. /\ workToast' = IF workToast = id THEN None ELSE workToast
        /\ bootToast' = IF bootToast = id THEN None ELSE bootToast
        /\ call' = call /\ crossed' = crossed
    BY <1>1 DEF CloseToast
  <2> QED
    BY <2>2, <2>3 DEF Tracked
<1>2. ASSUME UNCHANGED <<cards, call, crossed>>
      PROVE  Tracked(toasts', workToast', bootToast', call', crossed')
  BY <1>2 DEF cards
<1>3. \/ UNCHANGED pageVars \/ PickBackend \/ \E t \in Timers : Tick(t)
      \/ \E p \in Polls : State(p) \/ RefreshFails(p)
      \/ Book \/ WalletFails \/ BootDone
      => UNCHANGED <<cards, call, crossed>>
  BY DEF pageVars, PickBackend, Tick, State, RefreshFails,
         Book, WalletFails, BootDone
<1>4. ASSUME NEW p \in Polls, Refresh(p)
      PROVE  Tracked(toasts', workToast', bootToast', call', crossed')
  BY <1>4, TrackedByRefresh
<1>5. ASSUME NEW c \in Calls, Click(c) \/ Answer(c)
      PROVE  Tracked(toasts', workToast', bootToast', call', crossed')
  BY <1>5, TrackedByClick, TrackedByAnswer
<1> QED
  BY <1>1, <1>2, <1>3, <1>4, <1>5 DEF PageNext

\* "The card goes up the moment you click and stays until the backend answers"
\* (index.html:664): a spinning card belongs to the boot, or to a click that is
\* still unanswered, and the page knows it, unless its click overlapped another.
THEOREM SpinningCardsAreTracked ==
    PageSpec => []SpinningIsTracked
<1> DEFINE Inv == PageInv /\ Tracked(toasts, workToast, bootToast, call, crossed)
<1>1. PageInit => Inv
  <2>1. ASSUME PageInit PROVE DOMAIN toasts = {}
    BY <2>1 DEF PageInit
  <2> QED
    BY <2>1, PageInvInit DEF Tracked
<1>2. Inv /\ [PageNext]_pageVars => Inv'
  BY PageInvStep, TrackedStep
<1>3. Inv => SpinningIsTracked
  BY DEF Tracked, SpinningIsTracked, Spinning
<1> HIDE DEF Inv
<1> QED
  BY <1>1, <1>2, <1>3, PTL DEF PageSpec

-----------------------------------------------------------------------------
(* The tables of the demo page (TableData)                                 *)

SchemaOf == [Primitives -> Schemas]
TableOf == [Primitives -> Table \union {Null}]
Batches == [names : SUBSET Primitives, waiting : SUBSET Primitives,
            schemas : SchemaOf, tables : TableOf]
Phases == [pc : {"idle", "config", "schemas", "data", "done"}, batch : Batches]

HookTyped ==
    /\ primitiveNames \in SUBSET Primitives
    /\ primitiveSchemas \in SchemaOf /\ primitiveData \in TableOf
    /\ init \in [Runs -> Phases] /\ refresh \in [Refreshes -> Phases]

\* Tables of which none shows guessed columns where there is a schema.
Faithful(tables, schemas) ==
    \A p \in Primitives :
        schemas[p] = "columns" /\ tables[p] # Null => tables[p].fields = "schema"

\* Until its end the initial load is alone, and nothing is shown before it.
Loading(phase, data, complete, others) ==
    /\ phase.pc # "done" => data = NothingYet /\ ~complete
    /\ ~complete => \A f \in Refreshes : others[f] = Resting

\* A batch of tables under way was asked with the schemas that are kept.
InStep(phase, schemas) ==
    phase.pc = "data" => /\ phase.batch.schemas = schemas
                         /\ Faithful(phase.batch.tables, schemas)

\* A build that loads once: the second run never starts.
Single ==
    /\ ~strict
    /\ HookTyped
    /\ init["second"].pc = "done"
    /\ Loading(init["first"], primitiveData, isInitialLoadComplete, refresh)
    /\ init["first"].pc = "schemas" =>
          \A p \in Primitives : init["first"].batch.tables[p] = Null
    /\ InStep(init["first"], primitiveSchemas)
    /\ \A f \in Refreshes : InStep(refresh[f], primitiveSchemas)
    /\ Faithful(primitiveData, primitiveSchemas)

\* Of two loads side by side it says nothing.
HookInv == strict \/ Single

LEMMA BatchesStart ==
    /\ NothingYet \in SchemaOf /\ NothingYet \in TableOf
    /\ \A p \in Primitives : NothingYet[p] = Null
    /\ \A names, waiting \in SUBSET Primitives, schemas \in SchemaOf :
          /\ Batch(names, waiting, schemas, NothingYet) \in Batches
          /\ Batch(names, waiting, schemas, NothingYet).schemas = schemas
          /\ Batch(names, waiting, schemas, NothingYet).tables = NothingYet
          /\ Batch(names, waiting, schemas, NothingYet).waiting = waiting
    /\ Resting \in Phases /\ Resting.pc = "idle" /\ Resting.batch.waiting = {}
    /\ Started \in Phases /\ Started.pc = "config"
    /\ Finished \in Phases /\ Finished.pc = "done"
<1> DEFINE none == Batch({}, {}, NothingYet, NothingYet)
<1>1. /\ NothingYet \in SchemaOf /\ NothingYet \in TableOf
      /\ \A p \in Primitives : NothingYet[p] = Null
  BY DEF NothingYet, SchemaOf, TableOf, Schemas
<1>2. ASSUME NEW names \in SUBSET Primitives, NEW waiting \in SUBSET Primitives,
             NEW schemas \in SchemaOf
      PROVE  /\ Batch(names, waiting, schemas, NothingYet) \in Batches
             /\ Batch(names, waiting, schemas, NothingYet).schemas = schemas
             /\ Batch(names, waiting, schemas, NothingYet).tables = NothingYet
             /\ Batch(names, waiting, schemas, NothingYet).waiting = waiting
  BY <1>1 DEF Batch, Batches
<1>3. /\ Resting = [pc |-> "idle", batch |-> none]
      /\ Started = [pc |-> "config", batch |-> none]
      /\ Finished = [pc |-> "done", batch |-> none]
  BY DEF Resting, Started, Finished
<1>4. none \in Batches /\ none.waiting = {}
  BY <1>1, <1>2
<1> HIDE DEF none
<1> QED
  BY <1>1, <1>2, <1>3, <1>4 DEF Phases

LEMMA HookInvInit == ASSUME HookInit PROVE HookInv
<1> SUFFICES ASSUME ~strict PROVE Single
  BY DEF HookInv
<1>1. init = [e \in Runs |-> IF e = "first" THEN Started ELSE Finished]
  BY DEF HookInit
<1>2. /\ init \in [Runs -> Phases] /\ init["first"].pc = "config"
      /\ init["second"].pc = "done"
  BY <1>1, BatchesStart DEF Runs
<1>3. refresh = [f \in Refreshes |-> Resting] /\ refresh \in [Refreshes -> Phases]
  BY BatchesStart DEF HookInit
<1>4. /\ primitiveNames = {} /\ primitiveSchemas = NothingYet
      /\ primitiveData = NothingYet /\ isInitialLoadComplete = FALSE
  BY DEF HookInit
<1> QED
  BY <1>2, <1>3, <1>4, BatchesStart DEF Single, HookTyped, Loading, InStep, Faithful

\* In such a build only the first run takes a step, and it leaves the second be.
LEMMA OnlyTheFirst ==
    ASSUME Single, NEW e \in Runs, init[e].pc # "done"
    PROVE  e = "first"
BY DEF Single, Runs

LEMMA FirstMoves ==
    ASSUME Single, NEW q \in Phases, init' = [init EXCEPT !["first"] = q]
    PROVE  /\ init' \in [Runs -> Phases] /\ init'["first"] = q
           /\ init'["second"].pc = "done"
BY DEF Single, HookTyped, Runs

\* One answer fills one table, from the schema the batch was asked with.
LEMMA AnswerIsFaithful ==
    ASSUME NEW b \in Batches, NEW p \in Primitives, NEW t \in Table \union {Null},
           fetchPrimitiveData(b, p, t), Faithful(b.tables, b.schemas)
    PROVE  Faithful([b.tables EXCEPT ![p] = t], b.schemas)
<1>1. t # Null /\ b.schemas[p] = "columns" => t.fields = "schema"
  BY DEF fetchPrimitiveData, convertPrimitiveDataToTableFormat
<1> QED
  BY <1>1 DEF Faithful, Batches, TableOf

\* A request's answer changes one entry of its batch, and asks no more of it.
LEMMA FilledIn ==
    ASSUME NEW q \in Phases, NEW p \in Primitives, NEW t
    PROVE  WithTable(q, p, t)
             = [pc |-> q.pc, batch |-> Batch(q.batch.names, q.batch.waiting \ {p},
                                             q.batch.schemas, [q.batch.tables EXCEPT ![p] = t])]
<1> DEFINE after == Batch(q.batch.names, q.batch.waiting \ {p},
                          q.batch.schemas, [q.batch.tables EXCEPT ![p] = t])
<1>1. WithTable(q, p, t) = [q EXCEPT !.batch = after]
  BY DEF WithTable
<1> HIDE DEF after
<1> QED
  BY <1>1 DEF Phases, after

LEMMA LearnedSchema ==
    ASSUME NEW q \in Phases, NEW p \in Primitives, NEW s
    PROVE  WithSchema(q, p, s)
             = [pc |-> q.pc, batch |-> Batch(q.batch.names, q.batch.waiting \ {p},
                                             [q.batch.schemas EXCEPT ![p] = s], q.batch.tables)]
<1> DEFINE after == Batch(q.batch.names, q.batch.waiting \ {p},
                          [q.batch.schemas EXCEPT ![p] = s], q.batch.tables)
<1>1. WithSchema(q, p, s) = [q EXCEPT !.batch = after]
  BY DEF WithSchema
<1> HIDE DEF after
<1> QED
  BY <1>1 DEF Phases, after

LEMMA InitAnswered ==
    ASSUME Single, NEW e \in Runs, NEW p \in Primitives, InitAnswer(e, p)
    PROVE  Single'
<1> DEFINE q == init["first"]
<1>0. /\ q \in Phases /\ q.pc = "data" /\ q.batch \in Batches /\ e = "first"
      /\ q.batch.schemas = primitiveSchemas /\ q.batch.tables \in TableOf
      /\ Faithful(q.batch.tables, q.batch.schemas)
  <2>1. e = "first"
    BY OnlyTheFirst DEF InitAnswer
  <2> QED
    BY <2>1 DEF Single, HookTyped, InStep, Phases, Batches, InitAnswer
<1>1. PICK t \in Table \union {Null} :
        fetchPrimitiveData(q.batch, p, t) /\ init' = [init EXCEPT !["first"] = WithTable(q, p, t)]
  BY <1>0 DEF InitAnswer
<1> DEFINE after == Batch(q.batch.names, q.batch.waiting \ {p},
                          q.batch.schemas, [q.batch.tables EXCEPT ![p] = t])
<1>2. WithTable(q, p, t) = [pc |-> "data", batch |-> after]
  <2> HIDE DEF q
  <2>1. WithTable(q, p, t) = [pc |-> q.pc, batch |-> after]
    BY <1>0, FilledIn
  <2> QED
    BY <1>0, <2>1
<1>3. /\ after \in Batches /\ after.schemas = primitiveSchemas
      /\ after.tables = [q.batch.tables EXCEPT ![p] = t]
  BY <1>0 DEF Batch, Batches, TableOf
<1>4. Faithful(after.tables, primitiveSchemas)
  BY <1>0, <1>1, <1>3, AnswerIsFaithful
<1> HIDE DEF after
<1>5. /\ WithTable(q, p, t) \in Phases /\ WithTable(q, p, t).pc = "data"
      /\ WithTable(q, p, t).batch = after
  BY <1>2, <1>3 DEF Phases
<1>6. /\ init' \in [Runs -> Phases] /\ init'["first"] = WithTable(q, p, t)
      /\ init'["second"].pc = "done"
  BY <1>1, <1>5, FirstMoves
<1>7. /\ UNCHANGED <<primitiveNames, primitiveSchemas, primitiveData>>
      /\ UNCHANGED <<isInitialLoadComplete, refresh, strict>>
  BY DEF InitAnswer, state, reloads
<1> HIDE DEF q
<1>8. init'["first"].pc = "data" /\ init'["first"].batch = after
  BY <1>5, <1>6
<1>9. Loading(init'["first"], primitiveData, isInitialLoadComplete, refresh)
  BY <1>0, <1>8 DEF Single, Loading, q
<1> QED
  BY <1>3, <1>4, <1>6, <1>7, <1>8, <1>9 DEF Single, HookTyped, InStep

LEMMA SchemaFetched ==
    ASSUME Single, NEW e \in Runs, NEW p \in Primitives, fetchPrimitiveSchema(e, p)
    PROVE  Single'
<1> DEFINE q == init["first"]
<1>0. /\ q \in Phases /\ q.pc = "schemas" /\ q.batch \in Batches /\ e = "first"
      /\ \A r \in Primitives : q.batch.tables[r] = Null
  <2>1. e = "first"
    BY OnlyTheFirst DEF fetchPrimitiveSchema
  <2> QED
    BY <2>1 DEF Single, HookTyped, Phases, fetchPrimitiveSchema
<1>1. PICK s \in Schemas : init' = [init EXCEPT !["first"] = WithSchema(q, p, s)]
  BY <1>0 DEF fetchPrimitiveSchema
<1> DEFINE after == Batch(q.batch.names, q.batch.waiting \ {p},
                          [q.batch.schemas EXCEPT ![p] = s], q.batch.tables)
<1>2. WithSchema(q, p, s) = [pc |-> "schemas", batch |-> after]
  BY <1>0, LearnedSchema
<1>3. after \in Batches /\ after.tables = q.batch.tables
  BY <1>0 DEF Batch, Batches, SchemaOf
<1> HIDE DEF after
<1>4. /\ WithSchema(q, p, s) \in Phases /\ WithSchema(q, p, s).pc = "schemas"
      /\ WithSchema(q, p, s).batch = after
  BY <1>2, <1>3 DEF Phases
<1>5. /\ init' \in [Runs -> Phases] /\ init'["first"] = WithSchema(q, p, s)
      /\ init'["second"].pc = "done"
  BY <1>1, <1>4, FirstMoves
<1>6. /\ UNCHANGED <<primitiveNames, primitiveSchemas, primitiveData>>
      /\ UNCHANGED <<isInitialLoadComplete, refresh, strict>>
  BY DEF fetchPrimitiveSchema, state, reloads
<1>7. /\ init'["first"].pc = "schemas"
      /\ \A r \in Primitives : init'["first"].batch.tables[r] = Null
  BY <1>0, <1>3, <1>4, <1>5
<1>8. Loading(init'["first"], primitiveData, isInitialLoadComplete, refresh)
  BY <1>0, <1>7 DEF Single, Loading
<1> HIDE DEF q
<1> QED
  BY <1>5, <1>6, <1>7, <1>8 DEF Single, HookTyped, InStep

\* Before the load is complete no table is being reloaded.
LEMMA NoReloads ==
    ASSUME Single, ~isInitialLoadComplete
    PROVE  \A f \in Refreshes : refresh[f].pc = "idle"
BY BatchesStart DEF Single, Loading

LEMMA ConfigRead ==
    ASSUME Single, NEW e \in Runs, InitConfig(e)
    PROVE  Single'
<1>0. /\ e = "first" /\ primitiveSchemas \in SchemaOf /\ init["first"].pc = "config"
      /\ UNCHANGED <<primitiveSchemas, primitiveData, isInitialLoadComplete, refresh, strict>>
      /\ primitiveNames \in SUBSET Primitives
  <2>1. e = "first"
    BY OnlyTheFirst DEF InitConfig
  <2> QED
    BY <2>1 DEF Single, HookTyped, InitConfig, reloads
<1>1. ASSUME NEW q \in Phases, init' = [init EXCEPT !["first"] = q],
             primitiveNames' \in SUBSET Primitives,
             q.pc \in {"schemas", "done"},
             \A p \in Primitives : q.batch.tables[p] = Null
      PROVE  Single'
  <2>1. /\ init' \in [Runs -> Phases] /\ init'["first"] = q /\ init'["second"].pc = "done"
    BY <1>1, FirstMoves
  <2>2. Loading(q, primitiveData, isInitialLoadComplete, refresh)
    BY <1>0 DEF Single, Loading
  <2> QED
    BY <1>0, <1>1, <2>1, <2>2 DEF Single, HookTyped, InStep
<1>2. \A p \in Primitives : Finished.batch.tables[p] = Null
  BY BatchesStart DEF Finished, Resting, Batch
<1>3. CASE init' = [init EXCEPT !["first"] = Finished] /\ primitiveNames' \in SUBSET Primitives
  BY <1>1, <1>2, <1>3, BatchesStart
<1>4. ASSUME NEW config \in SUBSET Primitives,
             primitiveNames' = extractPrimitiveNames(config),
             init' = [init EXCEPT !["first"] =
                         [pc |-> "schemas", batch |-> AskSchemas(primitiveNames')]]
      PROVE  Single'
  <2> DEFINE known == [p \in Primitives |-> IF p \in primitiveNames' \ unavailableSchemas
                                            THEN primitiveSchemas[p] ELSE Null]
             waiting == {p \in primitiveNames' \ unavailableSchemas : known[p] = Null}
             q == [pc |-> "schemas", batch |-> AskSchemas(primitiveNames')]
  <2>1. primitiveNames' \in SUBSET Primitives
    BY <1>4 DEF extractPrimitiveNames
  <2>2. AskSchemas(primitiveNames') = Batch(primitiveNames', waiting, known, NothingYet)
    BY DEF AskSchemas
  <2>3. known \in SchemaOf /\ waiting \in SUBSET Primitives
    BY <1>0, <2>1 DEF SchemaOf, Schemas
  <2> HIDE DEF known, waiting
  <2>4. /\ AskSchemas(primitiveNames') \in Batches
        /\ AskSchemas(primitiveNames').tables = NothingYet
    BY <2>1, <2>2, <2>3, BatchesStart
  <2>5. q \in Phases /\ q.pc = "schemas" /\ \A p \in Primitives : q.batch.tables[p] = Null
    BY <2>4, BatchesStart DEF Phases
  <2>6. init' = [init EXCEPT !["first"] = q]
    BY <1>4
  <2> HIDE DEF q
  <2> QED
    BY <1>1, <2>1, <2>5, <2>6
<1>5. \A config \in SUBSET Primitives : extractPrimitiveNames(config) \in SUBSET Primitives
  BY DEF extractPrimitiveNames
<1>6. CASE init' = [init EXCEPT !["first"] = Finished] /\ UNCHANGED primitiveNames
  BY <1>0, <1>3, <1>6
<1>7. ASSUME NEW config \in SUBSET Primitives,
             primitiveNames' = extractPrimitiveNames(config),
             init' = [init EXCEPT !["first"] =
                         IF primitiveNames' = {} THEN Finished
                         ELSE [pc |-> "schemas", batch |-> AskSchemas(primitiveNames')]]
      PROVE  Single'
  <2>1. CASE primitiveNames' = {}
    BY <1>3, <1>5, <1>7, <2>1
  <2>2. CASE primitiveNames' # {}
    BY <1>4, <1>7, <2>2
  <2> QED
    BY <2>1, <2>2
<1> QED
  BY <1>0, <1>6, <1>7 DEF InitConfig

LEMMA SchemasStored ==
    ASSUME Single, NEW e \in Runs, InitSchemas(e)
    PROVE  Single'
<1> DEFINE b == init["first"].batch
           asked == AskData(b.names, b.schemas)
           q == [pc |-> "data", batch |-> asked]
<1>0. /\ e = "first" /\ b \in Batches /\ b.schemas \in SchemaOf /\ b.names \in SUBSET Primitives
      /\ primitiveNames \in SUBSET Primitives /\ primitiveData = NothingYet
      /\ ~isInitialLoadComplete
  <2>1. e = "first"
    BY OnlyTheFirst DEF InitSchemas
  <2> QED
    BY <2>1 DEF Single, HookTyped, Loading, Phases, Batches, InitSchemas
<1>1. /\ UNCHANGED <<primitiveNames, primitiveData, isInitialLoadComplete, refresh, strict>>
      /\ primitiveSchemas' = b.schemas /\ init' = [init EXCEPT !["first"] = q]
  BY <1>0 DEF InitSchemas, reloads
<1> HIDE DEF b
<1>2. /\ asked \in Batches /\ asked.schemas = b.schemas /\ asked.tables = NothingYet
  BY <1>0, BatchesStart DEF AskData
<1>3. /\ q \in Phases /\ q.pc = "data"
      /\ q.batch.schemas = b.schemas /\ q.batch.tables = NothingYet
  <2> HIDE DEF asked
  <2> QED
    BY <1>2 DEF Phases
<1> HIDE DEF asked, q
<1>4. \A f \in Refreshes : refresh'[f].pc = "idle"
  BY <1>0, <1>1, NoReloads
<1>5. init' \in [Runs -> Phases] /\ init'["first"] = q /\ init'["second"].pc = "done"
  BY <1>1, <1>3, FirstMoves
<1>6. Loading(q, primitiveData, isInitialLoadComplete, refresh)
  BY <1>0 DEF Single, Loading
<1>7. Faithful(NothingYet, b.schemas)
  BY BatchesStart DEF Faithful
<1> QED
  BY <1>0, <1>1, <1>3, <1>4, <1>5, <1>6, <1>7 DEF Single, HookTyped, InStep

LEMMA DataStored ==
    ASSUME Single, NEW e \in Runs, InitData(e)
    PROVE  Single'
<1>0. /\ e = "first" /\ init["first"].batch.tables \in TableOf
      /\ Faithful(init["first"].batch.tables, primitiveSchemas) /\ ~isInitialLoadComplete
  <2>1. e = "first"
    BY OnlyTheFirst DEF InitData
  <2> QED
    BY <2>1 DEF Single, HookTyped, Loading, InStep, Phases, Batches, InitData
<1>1. /\ UNCHANGED <<primitiveNames, primitiveSchemas, isInitialLoadComplete, refresh, strict>>
      /\ primitiveData' = init["first"].batch.tables
      /\ init' = [init EXCEPT !["first"] = Finished]
  BY <1>0 DEF InitData, reloads
<1>2. init' \in [Runs -> Phases] /\ init'["first"] = Finished /\ init'["second"].pc = "done"
  BY <1>1, FirstMoves, BatchesStart
<1> QED
  BY <1>0, <1>1, <1>2, BatchesStart DEF Single, HookTyped, Loading, InStep

LEMMA Reloading ==
    ASSUME Single, NEW f \in Refreshes, refreshPrimitiveData(f)
    PROVE  Single'
<1> DEFINE asked == AskData(primitiveNames, primitiveSchemas)
           q == [pc |-> "data", batch |-> asked]
<1>0. primitiveSchemas \in SchemaOf /\ primitiveNames \in SUBSET Primitives
  BY DEF Single, HookTyped
<1>1. /\ UNCHANGED <<primitiveNames, primitiveSchemas, primitiveData>>
      /\ UNCHANGED <<isInitialLoadComplete, init, strict>>
      /\ isInitialLoadComplete /\ refresh' = [refresh EXCEPT ![f] = q]
  BY DEF refreshPrimitiveData, state, loads
<1>2. /\ asked \in Batches /\ asked.schemas = primitiveSchemas /\ asked.tables = NothingYet
  BY <1>0, BatchesStart DEF AskData
<1>3. Faithful(NothingYet, primitiveSchemas)
  BY BatchesStart DEF Faithful
<1> HIDE DEF asked
<1>4. q \in Phases /\ InStep(q, primitiveSchemas)
  BY <1>2, <1>3 DEF Phases, InStep
<1> HIDE DEF q
<1> QED
  BY <1>1, <1>4 DEF Single, HookTyped, Loading

LEMMA Reloaded ==
    ASSUME Single, NEW f \in Refreshes, Refreshed(f)
    PROVE  Single'
<1>0. /\ refresh[f].pc = "data" /\ refresh[f].batch.tables \in TableOf
      /\ Faithful(refresh[f].batch.tables, primitiveSchemas)
      /\ Faithful(primitiveData, primitiveSchemas) /\ primitiveData \in TableOf
  BY DEF Single, HookTyped, InStep, Phases, Batches, Refreshed
<1>1. /\ UNCHANGED <<primitiveNames, primitiveSchemas, isInitialLoadComplete, init, strict>>
      /\ refresh' = [refresh EXCEPT ![f] = Resting]
      /\ primitiveData' = [p \in Primitives |-> IF refresh[f].batch.tables[p] = Null
                                                THEN primitiveData[p]
                                                ELSE refresh[f].batch.tables[p]]
  BY DEF Refreshed, loads
<1>2. isInitialLoadComplete
  BY <1>0, NoReloads
<1>3. primitiveData' \in TableOf /\ Faithful(primitiveData', primitiveSchemas)
  BY <1>0, <1>1 DEF TableOf, Faithful
<1> QED
  BY <1>1, <1>2, <1>3, BatchesStart DEF Single, HookTyped, Loading, InStep

LEMMA ReloadAnswered ==
    ASSUME Single, NEW f \in Refreshes, NEW p \in Primitives, RefreshAnswer(f, p)
    PROVE  Single'
<1> DEFINE q == refresh[f]
<1>0. /\ refresh \in [Refreshes -> Phases] /\ q \in Phases /\ q.batch \in Batches
      /\ q.pc = "data" => /\ q.batch.schemas = primitiveSchemas
                          /\ Faithful(q.batch.tables, q.batch.schemas)
  BY DEF Single, HookTyped, InStep, Phases
<1>1. PICK t \in Table \union {Null} :
        fetchPrimitiveData(q.batch, p, t) /\ refresh' = [refresh EXCEPT ![f] = WithTable(q, p, t)]
  BY DEF RefreshAnswer
<1> DEFINE after == Batch(q.batch.names, q.batch.waiting \ {p},
                          q.batch.schemas, [q.batch.tables EXCEPT ![p] = t])
           r == WithTable(q, p, t)
<1>2. r = [pc |-> q.pc, batch |-> after]
  <2> HIDE DEF q
  <2> QED
    BY <1>0, FilledIn
<1>3. /\ after \in Batches /\ after.schemas = q.batch.schemas
      /\ after.tables = [q.batch.tables EXCEPT ![p] = t]
  BY <1>0 DEF Batch, Batches, TableOf
<1>4. q.pc = "data" => Faithful(after.tables, after.schemas)
  BY <1>0, <1>1, <1>3, AnswerIsFaithful
<1> HIDE DEF after
<1>5. r \in Phases /\ r.pc = q.pc /\ r.batch = after
  BY <1>0, <1>2, <1>3 DEF Phases
<1>6. InStep(r, primitiveSchemas)
  BY <1>0, <1>3, <1>4, <1>5 DEF InStep
<1>7. /\ refresh' \in [Refreshes -> Phases] /\ refresh'[f] = r
      /\ \A g \in Refreshes \ {f} : refresh'[g] = refresh[g]
  <2> HIDE DEF r
  <2> QED
    BY <1>0, <1>1, <1>5 DEF r
<1>8. isInitialLoadComplete
  BY <1>1, BatchesStart DEF fetchPrimitiveData, Single, Loading
<1>9. /\ UNCHANGED <<primitiveNames, primitiveSchemas, primitiveData>>
      /\ UNCHANGED <<isInitialLoadComplete, init, strict>>
  BY DEF RefreshAnswer, state, loads
<1> HIDE DEF r, q
<1> QED
  BY <1>6, <1>7, <1>8, <1>9 DEF Single, HookTyped, Loading

LEMMA SingleStep == ASSUME Single, [HookNext]_hookVars PROVE Single'
<1>1. ASSUME UNCHANGED <<primitiveNames, primitiveSchemas, primitiveData>>,
             UNCHANGED <<init, refresh, strict>>,
             init["first"].pc = "done" \/ UNCHANGED isInitialLoadComplete,
             isInitialLoadComplete => isInitialLoadComplete'
      PROVE  Single'
  BY <1>1 DEF Single, HookTyped, Loading, InStep, Faithful
<1>2. ASSUME \/ UNCHANGED hookVars \/ refreshScheduledData \/ ScheduledRefreshed
             \/ \E e \in Runs : initializeScheduledData(e) \/ LoadCompleted(e)
      PROVE  Single'
  <2>1. CASE \E e \in Runs : LoadCompleted(e)
    BY <1>1, <2>1 DEF LoadCompleted, Ended, Single, state, loads, reloads
  <2>2. CASE \E e \in Runs : initializeScheduledData(e)
    BY <1>1, <2>2 DEF initializeScheduledData, reloads
  <2>3. CASE UNCHANGED hookVars \/ refreshScheduledData \/ ScheduledRefreshed
    BY <1>1, <2>3
       DEF hookVars, state, loads, reloads, refreshScheduledData, ScheduledRefreshed
  <2> QED
    BY <1>2, <2>1, <2>2, <2>3
<1> QED
  BY <1>2, InitAnswered, SchemaFetched, ConfigRead, SchemasStored, DataStored, Reloading,
     Reloaded, ReloadAnswered DEF HookNext, Initialize, Reload

\* How often the build loads does not change.
LEMMA BuildStays == ASSUME [HookNext]_hookVars PROVE UNCHANGED strict
BY DEF HookNext, Initialize, Reload, hookVars, loads, InitConfig, InitSchemas, InitData,
       initializeScheduledData, LoadCompleted, fetchPrimitiveSchema, InitAnswer,
       refreshPrimitiveData, Refreshed, RefreshAnswer, refreshScheduledData, ScheduledRefreshed

LEMMA HookInvStep == ASSUME HookInv, [HookNext]_hookVars PROVE HookInv'
BY SingleStep, BuildStays DEF HookInv

\* Where the node gave a schema the columns shown are the schema's, whichever
\* request brought the rows, for any number of tables and of reloads under way
\* at once, in a build that loads once (useTableData.ts:179-215, 389-430).
THEOREM ColumnsComeFromTheSchema == HookSpec => []ColumnsFollowSchema
<1>1. HookInv => ColumnsFollowSchema
  BY DEF HookInv, Single, Faithful, ColumnsFollowSchema
<1> QED
  BY <1>1, HookInvInit, HookInvStep, PTL DEF HookSpec

\* The same of the inputs scheduled: none before the one load has them, and
\* no reload of them before its end.
ScheduledOnce ==
    ~strict => /\ initScheduled \in [Runs -> {"asked", "done"}] /\ initScheduled["second"] = "done"
               /\ initScheduled["first"] = "asked" => scheduledData = Null /\ ~isInitialLoadComplete
               /\ ~isInitialLoadComplete => refreshScheduled = "idle"

LEMMA ScheduledOnceStep ==
    ASSUME ScheduledOnce, [HookNext]_hookVars
    PROVE  ScheduledOnce'
<1> SUFFICES ASSUME ~strict PROVE ScheduledOnce'
  BY BuildStays DEF ScheduledOnce
<1>1. CASE \E e \in Runs : initializeScheduledData(e) \/ LoadCompleted(e)
  BY <1>1 DEF ScheduledOnce, initializeScheduledData, LoadCompleted, Ended, state, loads,
              reloads, Runs
<1>2. CASE refreshScheduledData \/ ScheduledRefreshed
  BY <1>2 DEF ScheduledOnce, refreshScheduledData, ScheduledRefreshed, state, loads
<1>3. CASE UNCHANGED <<initScheduled, scheduledData, isInitialLoadComplete, refreshScheduled>>
  BY <1>3, BuildStays DEF ScheduledOnce
<1> QED
  BY <1>1, <1>2, <1>3
     DEF HookNext, Initialize, Reload, hookVars, state, loads, reloads, InitConfig,
         InitSchemas, InitData, fetchPrimitiveSchema, InitAnswer,
         refreshPrimitiveData, Refreshed, RefreshAnswer

\* A table once shown stays shown: neither a request that fails, nor a 404,
\* nor the end of the initial load takes it away ("Don't clear data on error,
\* keep existing data", useTableData.ts:400). In a build that loads once this
\* holds throughout, in one that loads twice from the end of both on.
THEOREM TablesStayShown == HookSpec => KeepsWhatItShowed
<1> DEFINE Inv == HookInv /\ ScheduledOnce
           Kept == /\ \A p \in Primitives : primitiveData[p] # Null => primitiveData'[p] # Null
                   /\ scheduledData # Null => scheduledData' # Null
           Safe == ~strict \/ \A e \in Runs : Ended(e)
<1>1. HookInit => Inv
  <2> SUFFICES ASSUME HookInit PROVE ScheduledOnce
    BY HookInvInit
  <2> QED
    BY DEF ScheduledOnce, HookInit, Runs
<1>2. Inv /\ [HookNext]_hookVars => Inv'
  BY HookInvStep, ScheduledOnceStep
<1>3. Inv /\ [HookNext]_hookVars => [Safe => Kept]_hookVars
  <2> SUFFICES ASSUME Inv, HookNext, Safe PROVE Kept
    OBVIOUS
  <2>1. ASSUME NEW e \in Runs, InitData(e) PROVE Kept
    <3>1. ~Ended(e)
      BY <2>1 DEF InitData, Ended
    <3>2. ~strict /\ Single
      BY <3>1 DEF HookInv
    <3>3. e = "first"
      BY <2>1, <3>2, OnlyTheFirst DEF InitData
    <3>4. primitiveData = NothingYet /\ UNCHANGED scheduledData
      BY <2>1, <3>2, <3>3 DEF InitData, Single, Loading
    <3> QED
      BY <3>4, BatchesStart
  <2>2. ASSUME NEW f \in Refreshes, Refreshed(f) PROVE Kept
    <3>1. /\ UNCHANGED scheduledData
          /\ primitiveData' = [p \in Primitives |-> IF refresh[f].batch.tables[p] = Null
                                                    THEN primitiveData[p]
                                                    ELSE refresh[f].batch.tables[p]]
      BY <2>2 DEF Refreshed
    <3> QED
      BY <3>1
  <2>3. ASSUME NEW e \in Runs, initializeScheduledData(e) PROVE Kept
    <3>1. ~Ended(e)
      BY <2>3 DEF initializeScheduledData, Ended
    <3>2. ~strict
      BY <3>1
    <3> QED
      BY <2>3, <3>2 DEF initializeScheduledData, ScheduledOnce, Runs
  <2>4. CASE ScheduledRefreshed
    BY <2>4 DEF ScheduledRefreshed
  <2>5. CASE UNCHANGED <<primitiveData, scheduledData>>
    BY <2>5
  <2> QED
    BY <2>1, <2>2, <2>3, <2>4, <2>5
       DEF HookNext, Initialize, Reload, state, InitConfig, LoadCompleted,
           InitSchemas, fetchPrimitiveSchema, InitAnswer, refreshScheduledData,
           refreshPrimitiveData, RefreshAnswer
<1> HIDE DEF Inv
<1>4. HookSpec => [][Safe => Kept]_hookVars
  BY <1>1, <1>2, <1>3, PTL DEF HookSpec
<1> QED
  BY <1>4 DEF KeepsWhatItShowed

=============================================================================
