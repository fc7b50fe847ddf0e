--------------------------- MODULE MidnightWallet --------------------------
(***************************************************************************)
(* "Connect Midnight" of the demo page (WalletDemo.tsx, increment.ts): a   *)
(* wallet is built and synced, its NIGHT is put to work if it has no dust  *)
(* to pay fees with, and the contract is joined with it.  What was built   *)
(* is kept in three module variables, so a second click need not build it  *)
(* again.  Every await may fail, some after a timeout.                     *)
(***************************************************************************)
EXTENDS Integers, FiniteSets

CONSTANTS
    Coins,          \* NIGHT the wallet may come to hold
    Candidates,     \* the files the contract's address is looked up in, in order
    MaxBuilds       \* bound: wallets built

ASSUME WalletAssumption == Candidates \in Nat /\ MaxBuilds \in Nat /\ Coins # {}

VARIABLES
    files,          \* which candidates name an address for this network
    held, registered, dust,     \* the wallet's account on the chain
    connecting, joined,         \* the page: isConnectingMidnight, midnightWallet
    pc,             \* where the one connection under way is suspended
    wallet,         \* the wallet it works with
    seen,           \* the NIGHT it saw when it had synced
    hasDust,        \* what it takes its dust balance to be
    refused,        \* its registration failed, or no dust came of it in time
    built,          \* wallets started so far
    globalWallet, globalProviders, globalCounterContract    \* 0, or of which wallet

account == <<held, registered, dust>>
globals == <<globalWallet, globalProviders, globalCounterContract>>
local == <<wallet, seen, hasDust, refused>>
walletVars == <<files, account, connecting, joined, pc, local, built, globals>>

WalletInit ==
    /\ files \in [1..Candidates -> BOOLEAN]
    /\ held = {} /\ registered = {} /\ dust = FALSE
    /\ connecting = FALSE /\ joined = FALSE /\ pc = "idle"
    /\ wallet = 0 /\ seen = {} /\ hasDust = FALSE /\ refused = FALSE
    /\ built = 0
    /\ globalWallet = 0 /\ globalProviders = 0 /\ globalCounterContract = 0

-----------------------------------------------------------------------------
(* The chain.  Dust accrues from registered NIGHT.                         *)

ReceiveNight(c) ==
    /\ c \notin held /\ held' = held \union {c}
    /\ UNCHANGED <<files, registered, dust, connecting, joined, pc, local, built, globals>>

Accrue ==
    /\ registered # {} /\ ~dust /\ dust' = TRUE
    /\ UNCHANGED <<files, held, registered, connecting, joined, pc, local, built, globals>>

-----------------------------------------------------------------------------
(* connectMidnightWallet                                                   *)

Go(next) == pc' = next /\ UNCHANGED <<files, connecting, joined, built, globals>>

Reuse == globalWallet # 0 /\ globalProviders # 0

\* The button, and the early return of connectMidnightWalletHandler.
ClickConnect ==
    /\ ~joined /\ ~connecting
    /\ connecting' = TRUE
    /\ IF Reuse THEN pc' = "join" /\ wallet' = globalWallet ELSE pc' = "build" /\ wallet' = 0
    /\ seen' = {} /\ hasDust' = FALSE /\ refused' = FALSE
    /\ UNCHANGED <<files, account, joined, built, globals>>

FailStuck ==  \* mutant: the handler has no finally
    /\ pc # "idle" /\ pc' = "idle"
    /\ UNCHANGED <<files, account, connecting, joined, local, built, globals>>

\* The handler's catch and finally.  A wallet already started goes on running.
Fail ==
    /\ pc \in {"build", "sync", "register", "nothing", "dust", "providers", "join", "read"}
    /\ pc' = "idle" /\ connecting' = FALSE
    /\ UNCHANGED <<files, account, joined, local, built, globals>>

\* buildWalletFacade
Build ==
    /\ pc = "build" /\ built < MaxBuilds
    /\ built' = built + 1 /\ wallet' = built + 1
    /\ pc' = "sync"
    /\ UNCHANGED <<files, account, connecting, joined, seen, hasDust, refused, globals>>

\* syncAndWaitForFunds: the state the sync ends with, then the dust balance,
\* which a timeout turns into none.
Sync ==
    /\ pc = "sync"
    /\ seen' = held
    /\ \/ hasDust' = dust
       \/ hasDust' = FALSE
    /\ Go(IF ~hasDust' /\ held # {} THEN "register" ELSE "providers")
    /\ UNCHANGED <<account, wallet, refused>>

RegisterFirst ==  \* mutant: one registered coin is taken for all of them
    /\ pc = "register"
    /\ IF held \intersect registered # {}
       THEN Go("nothing") /\ UNCHANGED <<account, local>>
       ELSE \/ registered' = held /\ Go("accrue") /\ UNCHANGED <<held, dust, local>>
            \/ refused' = TRUE /\ Go("providers") /\ UNCHANGED <<account, wallet, seen, hasDust>>

\* registerNightForDust: once the wallet calls itself synced again, a wait that
\* has no time limit, the NIGHT not yet registered is submitted in one
\* transaction; a failure of that is reported and nothing more.
Register ==
    /\ pc = "register"
    /\ IF held \subseteq registered
       THEN Go("nothing") /\ UNCHANGED <<account, local>>
       ELSE \/ registered' = held /\ Go("accrue") /\ UNCHANGED <<held, dust, local>>
            \/ refused' = TRUE /\ Go("providers") /\ UNCHANGED <<account, wallet, seen, hasDust>>

\* Nothing to register: one more look at the dust, which may throw.
RegisterNothing ==
    /\ pc = "nothing"
    /\ Go(IF dust THEN "dust" ELSE "providers")
    /\ UNCHANGED <<account, local>>

\* The dust of the registration, or the end of the wait for it.
Accrued ==
    /\ pc = "accrue"
    /\ \/ dust /\ Go("dust") /\ UNCHANGED refused
       \/ Go("providers") /\ refused' = TRUE
    /\ UNCHANGED <<account, wallet, seen, hasDust>>

\* The last waitForDustFunds, which may throw.
Dust ==
    /\ pc = "dust"
    /\ hasDust' = dust
    /\ Go("providers")
    /\ UNCHANGED <<account, wallet, seen, refused>>

ProvidersFirst ==  \* mutant: the wallet is kept before its providers exist
    /\ pc = "providers"
    /\ globalWallet' = wallet /\ globalProviders' \in {0, wallet}
    /\ pc' = "join"
    /\ UNCHANGED <<files, account, connecting, joined, local, built, globalCounterContract>>

\* configureProviders; both globals are set together, after everything.
Providers ==
    /\ pc = "providers"
    /\ globalWallet' = wallet /\ globalProviders' = wallet
    /\ pc' = "join"
    /\ UNCHANGED <<files, account, connecting, joined, local, built, globalCounterContract>>

-----------------------------------------------------------------------------
(* connectToContract                                                       *)

\* getContractAddress: the first candidate with an address for the network.
Address(fs) == {i \in DOMAIN fs : fs[i] /\ \A j \in 1..(i - 1) : ~fs[j]}

\* getContractAddress throws when no candidate will do; findDeployedContract.
Join ==
    /\ pc = "join" /\ Address(files) # {}
    /\ Go("read")
    /\ UNCHANGED <<account, local>>

\* displayCounterValue; the contract is kept only after it, and the handler
\* tells the page.
Joined ==
    /\ pc = "read"
    /\ globalCounterContract' = wallet
    /\ joined' = TRUE /\ connecting' = FALSE /\ pc' = "idle"
    /\ UNCHANGED <<files, account, local, built, globalWallet, globalProviders>>

-----------------------------------------------------------------------------
Chain == Accrue \/ \E c \in Coins : ReceiveNight(c)
Connect ==
    \/ Build \/ Sync \/ Register \/ RegisterNothing \/ Accrued \/ Dust \/ Providers
    \/ Join \/ Joined \/ Fail

WalletNext == Chain \/ ClickConnect \/ Connect

\* Every await of the connection ends, one way or the other, but the wait for
\* isSynced that registerNightForDust begins with (increment.ts:319).
WalletSpec ==
    /\ WalletInit /\ [][WalletNext]_walletVars
    /\ WF_walletVars(pc # "register" /\ Connect)

WalletTypeOK ==
    /\ files \in [1..Candidates -> BOOLEAN]
    /\ held \subseteq Coins /\ registered \subseteq held /\ dust \in BOOLEAN
    /\ connecting \in BOOLEAN /\ joined \in BOOLEAN
    /\ pc \in {"idle", "build", "sync", "register", "nothing", "accrue", "dust",
               "providers", "join", "read"}
    /\ wallet \in 0..MaxBuilds /\ seen \subseteq Coins
    /\ hasDust \in BOOLEAN /\ refused \in BOOLEAN /\ built \in 0..MaxBuilds
    /\ {globalWallet, globalProviders, globalCounterContract} \subseteq 0..MaxBuilds

\* The contract the page calls was joined with the wallet and the providers it
\* keeps: no failed attempt, retry or second click mixes those of two wallets.
OneWalletKept ==
    /\ globalProviders = globalWallet
    /\ globalCounterContract \in {0, globalWallet}
    /\ joined => globalCounterContract # 0

\* Once a wallet is kept no further one is started, whatever fails after it.
BuiltOnce == [][globalWallet # 0 => globalWallet' = globalWallet /\ built' = built]_walletVars

\* A page that connects without dust has registered all the NIGHT its wallet
\* held when it synced, or registering it was refused (syncAndWaitForFunds).
NightIsPutToWork ==
    pc \in {"providers", "join", "read"} /\ ~hasDust /\ ~refused => seen \subseteq registered

\* "Connecting..." ends, unless the wallet never calls itself synced a second
\* time: no other path of the connection leaves the button disabled.
ConnectEnds == <>[]connecting => <>[](pc = "register")
=============================================================================
