------------------------- MODULE BackendBootProofs -------------------------
(***************************************************************************)
(* The boot driver for any number of wallets and any length of its loops.  *)
(*                                                                         *)
(* What boot promises at its end rests on what each stage may assume of    *)
(* the stages before it: StageSound says so, stage by stage.               *)
(***************************************************************************)
EXTENDS BackendBoot, TLAPS

\* How far the counter of each loop, the addresses and the spending have got.
StageSound ==
    /\ booting <=> stage # "done"
    /\ deployed = lostDeployments + (IF address \in {NoAddress, Configured} THEN 0 ELSE 1)
    /\ payments <= lostPayments + (IF stage \in {"settling", "wallets", "done"} THEN 1 ELSE 0)
    /\ stage \in {"polling", "checking"} => deployed = 0
    /\ stage = "polling" => tries <= WaitSeconds
    /\ stage = "checking" => tries = 0
    /\ stage = "deploying" => /\ tries <= DeployAttempts /\ deployed <= tries
                              /\ address = NoAddress
    /\ stage = "funding" => tries <= Rungs
    /\ stage \in {"funding", "settling"} => address # NoAddress

\* No wallet joins before its stage, and every failure sets bootError.
WalletsSound ==
    \A w \in Wallets :
        /\ stage \notin {"wallets", "done"} => joined[w] = NoAddress
        /\ attempt[w] > 0 => bootError
        /\ stage = "done" /\ address # NoAddress =>
               joined[w] # NoAddress \/ attempt[w] > 0

BootSound == TypeOK /\ AddressIsReal /\ StageSound /\ WalletsSound

LEMMA BootInitSound == Init => BootSound
<1> SUFFICES ASSUME Init PROVE BootSound
  OBVIOUS
<1> USE BootAssumption DEF Init, Stages, Contracts, NoAddress, Configured
<1>1. TypeOK
  <2>1. /\ booting \in BOOLEAN /\ bootError \in BOOLEAN /\ funded \in BOOLEAN
        /\ hung \subseteq Wallets \union {Driver}
    BY DEF TypeOK
  <2>2. /\ attempt \in [Wallets -> 0..BootAttempts]
        /\ joined \in [Wallets -> Contracts \union {NoAddress}]
    BY DEF TypeOK
  <2>3. address \in Contracts \union {NoAddress} /\ onChain \subseteq Contracts
    BY DEF TypeOK
  <2>4. /\ stage \in Stages /\ tries \in 0..(WaitSeconds + DeployAttempts + Rungs)
        /\ payments \in Nat /\ deployed \in 0..DeployAttempts
        /\ lostPayments \in Nat /\ lostDeployments \in Nat
    BY DEF TypeOK
  <2> QED
    BY <2>1, <2>2, <2>3, <2>4 DEF TypeOK
<1>2. AddressIsReal /\ StageSound /\ WalletsSound
  BY DEF AddressIsReal, StageSound, WalletsSound
<1> QED
  BY <1>1, <1>2 DEF BootSound

LEMMA BringUpChainSound ==
    ASSUME BootSound, BringUpChain PROVE BootSound'
<1> USE BootAssumption
    DEF BootSound, AddressIsReal, StageSound, WalletsSound, Stages, Contracts,
        NoAddress, Configured, At, Enter, TryAgain, wallets, chain
<1>1. CASE Poll
  BY <1>1 DEF Poll, TypeOK
<1>2. CASE Check
  BY <1>2 DEF Check, TypeOK
<1>3. CASE DeployAnswered
  BY <1>3 DEF DeployAnswered, TypeOK
<1>4. CASE DeployUnanswered
  <2>1. TypeOK'
    <3>1. /\ booting' \in BOOLEAN /\ bootError' \in BOOLEAN /\ funded' \in BOOLEAN
          /\ hung' \subseteq Wallets \union {Driver}
      BY <1>4 DEF DeployUnanswered, TypeOK
    <3>2. /\ attempt' \in [Wallets -> 0..BootAttempts]
          /\ joined' \in [Wallets -> Contracts \union {NoAddress}]
      BY <1>4 DEF DeployUnanswered, TypeOK
    <3>3. address' \in Contracts \union {NoAddress} /\ onChain' \subseteq Contracts
      <4>1. deployed + 1 \in 1..DeployAttempts
        BY <1>4 DEF DeployUnanswered, TypeOK
      <4>2. Configured + (deployed + 1) \in Contracts
        BY <4>1
      <4>3. onChain' \subseteq onChain \union {Configured + (deployed + 1)}
        BY <1>4 DEF DeployUnanswered
      <4>4. address' = address /\ address \in Contracts \union {NoAddress}
              /\ onChain \subseteq Contracts
        BY <1>4 DEF DeployUnanswered, TypeOK
      <4> QED
        BY <4>2, <4>3, <4>4
    <3>4. /\ stage' \in Stages /\ tries' \in 0..(WaitSeconds + DeployAttempts + Rungs)
          /\ payments' \in Nat /\ deployed' \in 0..DeployAttempts
          /\ lostPayments' \in Nat /\ lostDeployments' \in Nat
      BY <1>4 DEF DeployUnanswered, TypeOK
    <3> QED
      BY <3>1, <3>2, <3>3, <3>4 DEF TypeOK
  <2>2. AddressIsReal'
    BY <1>4 DEF DeployUnanswered, TypeOK
  <2>3. StageSound'
    BY <1>4 DEF DeployUnanswered, TypeOK
  <2>4. WalletsSound'
    BY <1>4 DEF DeployUnanswered, TypeOK
  <2> QED
    BY <2>1, <2>2, <2>3, <2>4
<1>5. CASE GiveUpDeploying
  <2>1. TypeOK'
    <3>1. /\ booting' \in BOOLEAN /\ bootError' \in BOOLEAN /\ funded' \in BOOLEAN
          /\ hung' \subseteq Wallets \union {Driver}
      BY <1>5 DEF GiveUpDeploying, TypeOK
    <3>2. /\ attempt' \in [Wallets -> 0..BootAttempts]
          /\ joined' \in [Wallets -> Contracts \union {NoAddress}]
      BY <1>5 DEF GiveUpDeploying, TypeOK
    <3>3. address' \in Contracts \union {NoAddress} /\ onChain' \subseteq Contracts
      BY <1>5 DEF GiveUpDeploying, TypeOK
    <3>4. /\ stage' \in Stages /\ tries' \in 0..(WaitSeconds + DeployAttempts + Rungs)
          /\ payments' \in Nat /\ deployed' \in 0..DeployAttempts
          /\ lostPayments' \in Nat /\ lostDeployments' \in Nat
      BY <1>5 DEF GiveUpDeploying, TypeOK
    <3> QED
      BY <3>1, <3>2, <3>3, <3>4 DEF TypeOK
  <2>2. AddressIsReal'
    BY <1>5 DEF GiveUpDeploying, TypeOK
  <2>3. StageSound'
    BY <1>5 DEF GiveUpDeploying, TypeOK
  <2>4. WalletsSound'
    BY <1>5 DEF GiveUpDeploying, TypeOK
  <2> QED
    BY <2>1, <2>2, <2>3, <2>4
<1> QED
  BY <1>1, <1>2, <1>3, <1>4, <1>5 DEF BringUpChain

LEMMA FundParticipantsSound ==
    ASSUME BootSound, FundParticipants PROVE BootSound'
<1> USE BootAssumption
    DEF BootSound, AddressIsReal, StageSound, WalletsSound, Stages, Contracts,
        NoAddress, Configured, At, Enter, TryAgain, Pay, wallets, chain
<1>1. CASE Fund
  BY <1>1 DEF Fund, TypeOK
<1>2. CASE FundUnanswered
  <2>1. TypeOK'
    <3>1. /\ booting' \in BOOLEAN /\ bootError' \in BOOLEAN /\ funded' \in BOOLEAN
          /\ hung' \subseteq Wallets \union {Driver}
      BY <1>2 DEF FundUnanswered, TypeOK
    <3>2. /\ attempt' \in [Wallets -> 0..BootAttempts]
          /\ joined' \in [Wallets -> Contracts \union {NoAddress}]
      BY <1>2 DEF FundUnanswered, TypeOK
    <3>3. address' \in Contracts \union {NoAddress} /\ onChain' \subseteq Contracts
      BY <1>2 DEF FundUnanswered, TypeOK
    <3>4. /\ stage' \in Stages /\ tries' \in 0..(WaitSeconds + DeployAttempts + Rungs)
          /\ payments' \in Nat /\ deployed' \in 0..DeployAttempts
          /\ lostPayments' \in Nat /\ lostDeployments' \in Nat
      BY <1>2 DEF FundUnanswered, TypeOK
    <3> QED
      BY <3>1, <3>2, <3>3, <3>4 DEF TypeOK
  <2>2. AddressIsReal'
    BY <1>2 DEF FundUnanswered, TypeOK
  <2>3. StageSound'
    BY <1>2 DEF FundUnanswered, TypeOK
  <2>4. WalletsSound'
    BY <1>2 DEF FundUnanswered, TypeOK
  <2> QED
    BY <2>1, <2>2, <2>3, <2>4
<1>3. CASE FundThrows
  BY <1>3 DEF FundThrows, TypeOK
<1>4. CASE Settle
  BY <1>4 DEF Settle, TypeOK
<1> QED
  BY <1>1, <1>2, <1>3, <1>4 DEF FundParticipants

LEMMA WalletsAreSound ==
    ASSUME BootSound, BootDone \/ \E w \in Wallets : BootOne(w) PROVE BootSound'
<1> USE BootAssumption
    DEF BootSound, AddressIsReal, StageSound, WalletsSound, Stages, Contracts,
        NoAddress, Configured, Enter, Booting, driver, wallets, chain
<1>1. CASE BootDone
  <2>1. TypeOK'
    <3>1. /\ booting' \in BOOLEAN /\ bootError' \in BOOLEAN /\ funded' \in BOOLEAN
          /\ hung' \subseteq Wallets \union {Driver}
      BY <1>1 DEF BootDone, TypeOK
    <3>2. /\ attempt' \in [Wallets -> 0..BootAttempts]
          /\ joined' \in [Wallets -> Contracts \union {NoAddress}]
      BY <1>1 DEF BootDone, TypeOK
    <3>3. address' \in Contracts \union {NoAddress} /\ onChain' \subseteq Contracts
      BY <1>1 DEF BootDone, TypeOK
    <3>4. /\ stage' \in Stages /\ tries' \in 0..(WaitSeconds + DeployAttempts + Rungs)
          /\ payments' \in Nat /\ deployed' \in 0..DeployAttempts
          /\ lostPayments' \in Nat /\ lostDeployments' \in Nat
      BY <1>1 DEF BootDone, TypeOK
    <3> QED
      BY <3>1, <3>2, <3>3, <3>4 DEF TypeOK
  <2>2. AddressIsReal'
    BY <1>1 DEF BootDone, TypeOK
  <2>3. StageSound'
    BY <1>1 DEF BootDone, TypeOK
  <2>4. WalletsSound'
    BY <1>1 DEF BootDone, TypeOK
  <2> QED
    BY <2>1, <2>2, <2>3, <2>4
<1>2. ASSUME NEW w \in Wallets, WalletReady(w) PROVE BootSound'
  BY <1>2 DEF WalletReady, TypeOK
<1>3. ASSUME NEW w \in Wallets, WalletFails(w) PROVE BootSound'
  BY <1>3 DEF WalletFails, TypeOK
<1> QED
  BY <1>1, <1>2, <1>3 DEF BootOne

\* Who hangs leaves everything as it was.
LEMMA HangSound ==
    ASSUME BootSound, NEW p \in Wallets \union {Driver}, Hang(p) PROVE BootSound'
<1> USE DEF Hang, driver, chain
<1>1. TypeOK'
  BY DEF BootSound, TypeOK
<1>2. AddressIsReal' /\ StageSound' /\ WalletsSound'
  BY DEF BootSound, AddressIsReal, StageSound, WalletsSound
<1> QED
  BY <1>1, <1>2 DEF BootSound

LEMMA BootNextSound == BootSound /\ [Next]_vars => BootSound'
<1> SUFFICES ASSUME BootSound, [Next]_vars PROVE BootSound'
  OBVIOUS
<1>1. CASE UNCHANGED vars
  BY <1>1 DEF vars, driver, wallets, chain, BootSound, TypeOK, AddressIsReal,
              StageSound, WalletsSound
<1> QED
  BY <1>1, BringUpChainSound, FundParticipantsSound, WalletsAreSound, HangSound DEF Next

-----------------------------------------------------------------------------

\* The inductive invariant of the boot driver (server.ts, bringUpChain to the
\* driver): each stage finds what the ones before it were to leave.
THEOREM BootIsSound == Spec => []BootSound
<1> QED
  BY BootInitSound, BootNextSound, PTL DEF Spec

\* The loops of the driver stay within their bounds, and so does the number
\* of contracts it deploys.
THEOREM BootTypes == Spec => []TypeOK
<1>1. BootSound => TypeOK
  BY DEF BootSound
<1> QED
  BY <1>1, BootIsSound, PTL

\* From the moment money is spent on it, the address names a contract of this
\* chain, and every wallet joins that contract (server.ts:153).
THEOREM JoinsARealContract == Spec => []AddressIsReal
<1>1. BootSound => AddressIsReal
  BY DEF BootSound
<1> QED
  BY <1>1, BootIsSound, PTL

\* Boot leaves one contract and one payment on chain and no more, but for what
\* it did without being told, however many attempts and rungs it has.
THEOREM BootSpendsOnce == Spec => []SpendsOnce
<1>1. BootSound => SpendsOnce
  BY DEF BootSound, TypeOK, StageSound, SpendsOnce
<1> QED
  BY <1>1, BootIsSound, PTL

\* Whoever is missing once booting is over left an error the page can show.
THEOREM NobodyIsMissedSilently == Spec => []MissingIsReported
<1>1. BootSound => MissingIsReported
  BY DEF BootSound, TypeOK, StageSound, WalletsSound, MissingIsReported
<1> QED
  BY <1>1, BootIsSound, PTL

\* Once booting is over nothing of boot moves any more: what the handlers
\* read without a lock cannot change under them.
THEOREM BootIsForGood == Spec => BootedForGood
<1>1. BootSound /\ [Next]_vars => [~booting => UNCHANGED vars]_vars
  <2> SUFFICES ASSUME BootSound, Next, ~booting PROVE FALSE
    OBVIOUS
  <2>1. stage = "done"
    BY DEF BootSound, StageSound
  <2> QED
    BY <2>1 DEF Next, BringUpChain, FundParticipants, BootOne, Poll, Check,
       DeployAnswered, DeployUnanswered, GiveUpDeploying, Fund, FundUnanswered,
       FundThrows, Settle, BootDone, WalletReady, WalletFails, Booting, At, Hang,
       DriverWaits
<1> QED
  BY <1>1, BootIsSound, PTL DEF Spec, BootedForGood

=============================================================================
