---------------------------- MODULE BackendBoot ----------------------------
(***************************************************************************)
(* How the backend boots (packages/ui/server.ts, bringUpChain to the boot  *)
(* driver), behind a server that is listening already: wait for the chain, *)
(* find or deploy the contract, pay the participants, then boot every      *)
(* wallet at once, each on its own schedule of attempts.                   *)
(*                                                                         *)
(* What is asked of the chain may be done although the answer is lost: a   *)
(* deployment whose output has no address line, a payment that throws      *)
(* after it was submitted.  And it may never be answered at all: but for   *)
(* the wait for dust no await of boot has a time limit.                    *)
(***************************************************************************)
EXTENDS Integers, FiniteSets

CONSTANTS
    Wallets,         \* participants
    Payer,           \* wallet 0, the only one genesis funds
    WaitSeconds,     \* DARKMARKET_CHAIN_WAIT_S: polls of the proof server
    DeployAttempts,  \* 8 in the code
    Rungs,           \* length of FUND_LADDER
    BootAttempts     \* DARKMARKET_BOOT_ATTEMPTS

ASSUME BootAssumption ==
    /\ IsFiniteSet(Wallets) /\ Payer \in Wallets
    /\ WaitSeconds \in Nat /\ DeployAttempts \in Nat
    /\ Rungs \in Nat /\ BootAttempts \in Nat \ {0}

VARIABLES
    stage,      \* which await of the boot driver is running
    tries,      \* rounds of the loop of this stage that have failed
    address,    \* the contract the backend will use, or NoAddress
    booting, bootError,
    attempt,    \* per wallet: attempts that have failed
    joined,     \* per wallet: the contract it has joined, or NoAddress
    hung,       \* the driver, or wallets, whose await never settles
    onChain,    \* contracts that exist on this chain
    funded,     \* the participants have NIGHT to register for dust
    payments,   \* history: payments to the participants
    deployed,   \* history: contracts this process has deployed
    lostPayments, lostDeployments  \* history: those that went unanswered

driver == <<stage, tries, address, booting>>
wallets == <<attempt, joined, bootError, hung>>
chain == <<onChain, funded, payments, deployed, lostPayments, lostDeployments>>
vars == <<driver, wallets, chain>>

NoAddress == 0
Configured == 1  \* the address the process is started with
Contracts == {Configured} \union (Configured + 1)..(Configured + DeployAttempts)
Stages == {"polling", "checking", "deploying", "funding", "settling", "wallets", "done"}
Driver == "driver"

Init ==
    /\ stage = "polling"
    /\ tries = 0
    /\ address \in {NoAddress, Configured}
    /\ booting = TRUE
    /\ bootError = FALSE
    /\ attempt = [w \in Wallets |-> 0]
    /\ joined = [w \in Wallets |-> NoAddress]
    /\ hung = {}
    /\ onChain \in {{}, {Configured}}
    /\ funded \in BOOLEAN
    /\ payments = 0
    /\ deployed = 0
    /\ lostPayments = 0
    /\ lostDeployments = 0

At(s) == stage = s /\ Driver \notin hung
Enter(s) == stage' = s /\ tries' = 0
TryAgain == stage' = stage /\ tries' = tries + 1

-----------------------------------------------------------------------------
(* bringUpChain *)

\* The proof server answers, or does not, or never did: boot goes on anyway.
Poll ==
    /\ At("polling")
    /\ IF tries < WaitSeconds THEN TryAgain \/ Enter("checking") ELSE Enter("checking")
    /\ UNCHANGED <<address, booting, wallets, chain>>

CheckTrusting ==  \* mutant: an address that is configured is taken as it is
    /\ At("checking")
    /\ IF address = NoAddress THEN Enter("deploying") ELSE Enter("funding")
    /\ UNCHANGED <<address, booting, wallets, chain>>

\* The contract is found, or it is not, or the indexer cannot be asked.
Check ==
    /\ At("checking")
    /\ \/ address \in onChain /\ Enter("funding") /\ UNCHANGED address
       \/ Enter("deploying") /\ address' = NoAddress
    /\ UNCHANGED <<booting, wallets, chain>>

DeployAnswered ==
    /\ At("deploying") /\ tries < DeployAttempts
    /\ deployed' = deployed + 1
    /\ address' = Configured + deployed'
    /\ onChain' = onChain \union {address'}
    /\ Enter("funding")
    /\ UNCHANGED <<booting, wallets, funded, payments, lostPayments, lostDeployments>>

\* No address line in the output, whether or not a contract was deployed.
DeployUnanswered ==
    /\ At("deploying") /\ tries < DeployAttempts
    /\ \/ UNCHANGED <<onChain, deployed, lostDeployments>>
       \/ /\ deployed' = deployed + 1
          /\ onChain' = onChain \union {Configured + deployed'}
          /\ lostDeployments' = lostDeployments + 1
    /\ TryAgain
    /\ UNCHANGED <<address, booting, wallets, funded, payments, lostPayments>>

\* "gave up deploying": the driver returns at once and no wallet boots.
GiveUpDeploying ==
    /\ At("deploying") /\ tries = DeployAttempts
    /\ Enter("done")
    /\ booting' = FALSE
    /\ UNCHANGED <<address, wallets, chain>>

-----------------------------------------------------------------------------
(* fundParticipants.  Whatever it throws is caught: the wallets boot next. *)

Pay ==
    /\ payments' = payments + 1
    /\ funded' = TRUE
    /\ UNCHANGED <<onChain, deployed, lostDeployments>>

FundUnbroken ==  \* mutant: no break after a payment went through
    /\ At("funding") /\ tries < Rungs
    /\ Pay
    /\ TryAgain
    /\ UNCHANGED <<address, booting, wallets, lostPayments>>

Fund ==
    /\ At("funding") /\ tries < Rungs
    /\ Pay
    /\ Enter("settling")
    /\ UNCHANGED <<address, booting, wallets, lostPayments>>

\* The transfer throws, before or after it was submitted: the next rung.
FundUnanswered ==
    /\ At("funding") /\ tries < Rungs
    /\ \/ UNCHANGED chain
       \/ Pay /\ lostPayments' = lostPayments + 1
    /\ TryAgain
    /\ UNCHANGED <<address, booting, wallets>>

\* Building the payer's wallet throws, or every rung did.
FundThrows ==
    /\ At("funding")
    /\ tries = 0 \/ tries = Rungs
    /\ Enter("wallets")
    /\ UNCHANGED <<address, booting, wallets, chain>>

\* The payer's wallet is closed and the payment given time to be in a block.
Settle ==
    /\ At("settling")
    /\ Enter("wallets")
    /\ UNCHANGED <<address, booting, wallets, chain>>

-----------------------------------------------------------------------------
(* bootOne, for all wallets at once                                        *)

Booting(w) == stage = "wallets" /\ joined[w] = NoAddress /\ attempt[w] < BootAttempts

\* Dust takes NIGHT, and findDeployedContract wants the contract to be there.
WalletReady(w) ==
    /\ Booting(w) /\ w \notin hung
    /\ w = Payer \/ funded
    /\ address \in onChain
    /\ joined' = [joined EXCEPT ![w] = address]
    /\ UNCHANGED <<driver, attempt, bootError, hung, chain>>

WalletRetries(w) ==  \* mutant: the attempt is not counted
    /\ Booting(w) /\ w \notin hung
    /\ bootError' = TRUE
    /\ UNCHANGED <<driver, attempt, joined, hung, chain>>

WalletFails(w) ==
    /\ Booting(w) /\ w \notin hung
    /\ attempt' = [attempt EXCEPT ![w] = @ + 1]
    /\ bootError' = TRUE
    /\ UNCHANGED <<driver, joined, hung, chain>>

\* Promise.all: every wallet is ready or has given up, and none hangs.
BootDone ==
    /\ stage = "wallets"
    /\ \A w \in Wallets : ~Booting(w)
    /\ Enter("done")
    /\ booting' = FALSE
    /\ UNCHANGED <<address, wallets, chain>>

-----------------------------------------------------------------------------

(* Calls that neither answer nor throw: the fetch of a poll, the indexer,  *)
(* a deployment's output, a wallet that syncs for as long as it takes.     *)

DriverWaits ==
    \/ stage = "polling" /\ tries < WaitSeconds
    \/ stage = "checking" /\ address # NoAddress
    \/ stage = "deploying" /\ tries < DeployAttempts
    \/ stage = "funding" /\ (tries < Rungs \/ tries = 0)
    \/ stage = "settling"

Hang(p) ==
    /\ IF p = Driver THEN DriverWaits ELSE Booting(p)
    /\ hung' = hung \union {p}
    /\ UNCHANGED <<driver, attempt, joined, bootError, chain>>

-----------------------------------------------------------------------------

BringUpChain == Poll \/ Check \/ DeployAnswered \/ DeployUnanswered \/ GiveUpDeploying
FundParticipants == Fund \/ FundUnanswered \/ FundThrows \/ Settle
BootOne(w) == WalletReady(w) \/ WalletFails(w)

Next ==
    \/ BringUpChain \/ FundParticipants \/ BootDone
    \/ \E w \in Wallets : BootOne(w)
    \/ \E p \in Wallets \union {Driver} : Hang(p)

\* An await of the driver or of a wallet answers or throws, unless it hangs,
\* which any of them may; no step is owed by who hangs.
Fairness ==
    /\ WF_vars(BringUpChain) /\ WF_vars(FundParticipants) /\ WF_vars(BootDone)
    /\ \A w \in Wallets : WF_vars(BootOne(w))

Spec == Init /\ [][Next]_vars /\ Fairness

-----------------------------------------------------------------------------

\* The counters of every loop stay within it.
TypeOK ==
    /\ stage \in Stages /\ tries \in 0..(WaitSeconds + DeployAttempts + Rungs)
    /\ address \in Contracts \union {NoAddress} /\ onChain \subseteq Contracts
    /\ booting \in BOOLEAN /\ bootError \in BOOLEAN /\ funded \in BOOLEAN
    /\ attempt \in [Wallets -> 0..BootAttempts]
    /\ joined \in [Wallets -> Contracts \union {NoAddress}]
    /\ hung \subseteq Wallets \union {Driver}
    /\ payments \in Nat /\ deployed \in 0..DeployAttempts
    /\ lostPayments \in Nat /\ lostDeployments \in Nat

\* "Check before trusting it, otherwise every wallet fails to join something
\* that was never here" (server.ts:153): from the moment money is spent on it,
\* the address names a contract of this chain, and all wallets join that one.
AddressIsReal ==
    /\ stage \in {"funding", "settling", "wallets"} => address \in onChain
    /\ \A w \in Wallets : joined[w] \in {NoAddress, address}

\* What boot leaves on chain is one contract and one payment and nothing
\* more, but for what it did without being told (server.ts:167-188, 235-263):
\* the contract it uses is the one deployment that answered, none is deployed
\* if the configured one is there, and no payment follows one that answered.
SpendsOnce ==
    /\ deployed = lostDeployments + (IF address \in {NoAddress, Configured} THEN 0 ELSE 1)
    /\ payments <= lostPayments + 1

\* Once booting is over the handlers may rely on what boot has set up: no
\* wallet appears, no address changes, no error is reported any more
\* (server.ts:344, 440).
BootedForGood == [][~booting => UNCHANGED vars]_vars

\* A wallet the page shows as missing is one whose failure it can show too
\* (server.ts:327, unless there is no contract to boot for).
MissingIsReported ==
    ~booting /\ address # NoAddress /\ (\E w \in Wallets : joined[w] = NoAddress) => bootError

\* Boot ends, with however few wallets, so that the page is let in, unless
\* an await hangs; and a wallet that hangs keeps no other from being ready or
\* giving up (server.ts:344), though it does keep boot from ending.
BootEnds ==
    /\ <>(~booting \/ hung # {})
    /\ \A w \in Wallets : stage = "wallets" ~> ~Booting(w) \/ w \in hung

=============================================================================
