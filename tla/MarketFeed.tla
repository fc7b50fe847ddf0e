----------------------------- MODULE MarketFeed ----------------------------
(***************************************************************************)
(* Where markets come from (packages/ui/polymarket.ts, server.ts): Gamma's *)
(* rows become the market an order is for, or the list of the front page,  *)
(* which /api/markets keeps for a minute.  Requests overlap, and the cache *)
(* is written by whichever of them comes back last.                        *)
(*                                                                         *)
(* A condition id is a hash in some spelling; toLowerCase forgets that.    *)
(***************************************************************************)
EXTENDS Netting, Sequences, FiniteSets, TLAPS

CONSTANTS
    NoId,           \* a row without a condition id
    Requests        \* /api/markets under way

-----------------------------------------------------------------------------
(* Gamma's rows                                                            *)

Lower(id) == id.hash

\* resolveMarket does not throw.
Resolves(rows, id) ==
    /\ rows # <<>>
    /\ rows[1].conditionId # NoId => Lower(rows[1].conditionId) = Lower(id)
    /\ Len(rows[1].tokenIds) >= 2

resolveMarket(rows) ==
    [conditionId |-> rows[1].conditionId,
     yesTokenId |-> rows[1].tokenIds[1], noTokenId |-> rows[1].tokenIds[2]]

\* In hundredths; a market nearly decided is not worth hiding in.
Undecided(price) == 5 < price /\ price < 95

Usable(m) ==
    /\ Len(m.tokenIds) >= 2 /\ Len(m.prices) >= 2
    /\ m.conditionId # NoId
    /\ Undecided(m.prices[1])

\* The places of the rows listed.
listMarkets(rows, limit) ==
    LET usable == {i \in DOMAIN rows : Usable(rows[i])}
    IN  {i \in usable : Cardinality({j \in usable : j < i}) < limit}

\* The order executeEpoch prints; nothing in this code sends it.
executeEpoch(agg, rows) ==
    LET order == buildOrder(netOff(agg))
        market == resolveMarket(rows)
    IN  [outcome |-> order.outcome, sizeUsdc |-> order.sizeUsdc,
         conditionId |-> market.conditionId,
         tokenId |-> IF order.outcome = "YES" THEN market.yesTokenId ELSE market.noTokenId]

-----------------------------------------------------------------------------
(* /api/markets                                                            *)

VARIABLES
    clock,          \* Date.now()
    marketCache,    \* whether it lists any, and when Gamma said so
    marketCachedAt,
    req

vars == <<clock, marketCache, marketCachedAt, req>>

Lifetime == 60000

Lists == [asOf : Nat, listed : BOOLEAN]
Nothing == [asOf |-> 0, listed |-> FALSE]
Steps == {"idle", "asked", "answered", "failed", "served", "refused"}
Request == [pc : Steps, now : Nat, list : Lists, failed : BOOLEAN]
Idle == [pc |-> "idle", now |-> 0, list |-> Nothing, failed |-> FALSE]

Init ==
    /\ clock \in Nat
    /\ marketCache = Nothing /\ marketCachedAt = 0
    /\ req = [r \in Requests |-> Idle]

Tick ==
    /\ clock' \in Nat /\ clock' > clock
    /\ UNCHANGED <<marketCache, marketCachedAt, req>>

Stale == ~marketCache.listed \/ clock - marketCachedAt > Lifetime

Ask(r) ==
    /\ req[r].pc = "idle"
    /\ req' = [req EXCEPT ![r] =
          [pc |-> IF Stale THEN "asked" ELSE "served", now |-> clock,
           list |-> marketCache, failed |-> FALSE]]
    /\ UNCHANGED <<clock, marketCache, marketCachedAt>>

\* Gamma answers, perhaps with no market at all, or does not.
Gamma(r) ==
    /\ req[r].pc = "asked"
    /\ \/ \E some \in BOOLEAN :
             req' = [req EXCEPT ![r].pc = "answered",
                                ![r].list = [asOf |-> clock, listed |-> some]]
       \/ req' = [req EXCEPT ![r].pc = "failed", ![r].failed = TRUE]
    /\ UNCHANGED <<clock, marketCache, marketCachedAt>>

\* The cache is dated by when its request began.
Refreshed(r) ==
    /\ req[r].pc = "answered"
    /\ marketCache' = req[r].list /\ marketCachedAt' = req[r].now
    /\ req' = [req EXCEPT ![r].pc = "served"]
    /\ UNCHANGED clock

Unrefreshed(r) ==
    /\ req[r].pc = "failed"
    /\ req' = [req EXCEPT ![r].pc = IF marketCache.listed THEN "served" ELSE "refused",
                          ![r].list = marketCache]
    /\ UNCHANGED <<clock, marketCache, marketCachedAt>>

Answered(r) ==
    /\ req[r].pc \in {"served", "refused"}
    /\ req' = [req EXCEPT ![r] = Idle]
    /\ UNCHANGED <<clock, marketCache, marketCachedAt>>

Next ==
    \/ Tick
    \/ \E r \in Requests : Ask(r) \/ Gamma(r) \/ Refreshed(r) \/ Unrefreshed(r) \/ Answered(r)

Spec == Init /\ [][Next]_vars

TypeOK ==
    /\ clock \in Nat /\ marketCache \in Lists /\ marketCachedAt \in Nat
    /\ req \in [Requests -> Request]

\* Unless Gamma failed, a list that is served is no older than Lifetime when it
\* was asked for, however the refreshes of other requests overlap.
ServedIsFresh ==
    \A r \in Requests :
        req[r].pc = "served" /\ ~req[r].failed => req[r].list.asOf >= req[r].now - Lifetime

\* The inductive invariant: a list is at least as new as its date says.
DatedBefore ==
    /\ marketCache.asOf >= marketCachedAt
    /\ \A r \in Requests :
          /\ req[r].pc = "answered" => req[r].list.asOf >= req[r].now
          /\ req[r].pc = "failed" => req[r].failed
          /\ req[r].now <= clock

FeedInv == TypeOK /\ DatedBefore /\ ServedIsFresh

-----------------------------------------------------------------------------

(* What the executor does with an epoch.                                   *)

\* No notional is lost or invented between the epoch and the order: each side
\* gets exactly what it submitted (netting.ts:30-43, polymarket.ts:70-90).
THEOREM EachSideIsFilled ==
    ASSUME NEW agg \in Aggregates
    PROVE  /\ Filled(agg, "YES") = agg.yesNotional
           /\ Filled(agg, "NO") = agg.noNotional
<1>1. agg.yesNotional \in Nat /\ agg.noNotional \in Nat
  BY DEF Aggregates
<1>2. CASE agg.yesNotional = agg.noNotional
  BY <1>1, <1>2 DEF Filled, netOff, buildOrder, NoOrder, Crossed
<1>3. CASE agg.yesNotional > agg.noNotional
  BY <1>1, <1>3 DEF Filled, netOff, buildOrder, Crossed
<1>4. CASE agg.yesNotional < agg.noNotional
  BY <1>1, <1>4 DEF Filled, netOff, buildOrder, Crossed
<1> QED
  BY <1>1, <1>2, <1>3, <1>4

\* What goes to the market tells an observer the difference and nothing else:
\* two epochs with the same difference send the same order, and a balanced one
\* sends none (netting.ts:1-9).
THEOREM OrderShowsTheDifference ==
    ASSUME NEW a \in Aggregates, NEW b \in Aggregates
    PROVE  /\ a.yesNotional - a.noNotional = b.yesNotional - b.noNotional
                => buildOrder(netOff(a)) = buildOrder(netOff(b))
           /\ buildOrder(netOff(a)) = NoOrder <=> a.yesNotional = a.noNotional
<1>1. /\ a.yesNotional \in Nat /\ a.noNotional \in Nat
      /\ b.yesNotional \in Nat /\ b.noNotional \in Nat
  BY DEF Aggregates
<1>2. ASSUME a.yesNotional - a.noNotional = b.yesNotional - b.noNotional
      PROVE  buildOrder(netOff(a)) = buildOrder(netOff(b))
  BY <1>1, <1>2 DEF netOff, buildOrder, NoOrder
<1>3. buildOrder(netOff(a)) = NoOrder <=> a.yesNotional = a.noNotional
  BY <1>1 DEF netOff, buildOrder, NoOrder
<1> QED
  BY <1>2, <1>3

\* The division of shieldedFraction, which an empty epoch does not reach.
LEMMA PartOfTotal ==
    ASSUME NEW total \in Nat, NEW part \in 0..total
    PROVE  ShareOf(part, total) \in 0..Whole
<1> DEFINE q == (part * Whole) \div total
<1>1. CASE total = 0
  BY <1>1 DEF ShareOf, Whole
<1>2. CASE total # 0
  <2>1. q \in Int /\ total * q <= part * Whole /\ part * Whole < total * q + total
    BY <1>2, Z3 DEF Whole
  <2>2. q \in 0..Whole
    BY <1>2, <2>1, Z3 DEF Whole
  <2> QED
    BY <1>2, <2>2 DEF ShareOf
<1> QED
  BY <1>1, <1>2

\* The share kept private is a percentage for every epoch, the empty one
\* included (netting.ts:46-53).
THEOREM ShieldedIsAShare ==
    ASSUME NEW agg \in Aggregates
    PROVE  shieldedFraction(agg) \in 0..Whole
<1>1. agg.yesNotional \in Nat /\ agg.noNotional \in Nat
  BY DEF Aggregates
<1>2. Total(agg) \in Nat /\ Total(agg) - netOff(agg).size \in 0..Total(agg)
  BY <1>1 DEF netOff, Total
<1> QED
  BY <1>2, PartOfTotal DEF shieldedFraction


-----------------------------------------------------------------------------
(* Where the markets come from.                                            *)

\* What the front page lists, /api/state can resolve when Gamma answers with
\* the same row: the two functions reject rows for the same reasons.
THEOREM ListedResolves ==
    ASSUME NEW rows, NEW limit, NEW i \in listMarkets(rows, limit)
    PROVE  Resolves(<<rows[i]>>, rows[i].conditionId)
<1>1. Usable(rows[i])
  BY DEF listMarkets
<1>2. <<rows[i]>> # <<>> /\ <<rows[i]>>[1] = rows[i]
  OBVIOUS
<1> QED
  BY <1>1, <1>2 DEF Resolves, Usable

\* An order is for the market whose id the chain holds, and buys the token of
\* the heavier side of the epoch, provided Gamma's row says whose it is.
THEOREM OrdersTheRightToken ==
    ASSUME NEW agg \in Aggregates, NEW rows, NEW id,
           Resolves(rows, id), rows[1].conditionId # NoId,
           agg.yesNotional # agg.noNotional
    PROVE  LET order == executeEpoch(agg, rows) IN
           /\ Lower(order.conditionId) = Lower(id)
           /\ order.tokenId = rows[1].tokenIds[IF agg.yesNotional > agg.noNotional THEN 1 ELSE 2]
<1>1. Lower(rows[1].conditionId) = Lower(id)
  BY DEF Resolves
<1>2. agg.yesNotional \in Nat /\ agg.noNotional \in Nat
  BY DEF Aggregates
<1>3. buildOrder(netOff(agg)).outcome = (IF agg.yesNotional > agg.noNotional THEN "YES" ELSE "NO")
  BY <1>2 DEF buildOrder, netOff
<1>4. executeEpoch(agg, rows).conditionId = rows[1].conditionId
  BY DEF executeEpoch, resolveMarket
<1>5. executeEpoch(agg, rows).tokenId
        = IF buildOrder(netOff(agg)).outcome = "YES" THEN rows[1].tokenIds[1]
          ELSE rows[1].tokenIds[2]
  BY DEF executeEpoch, resolveMarket
<1> QED
  BY <1>1, <1>2, <1>3, <1>4, <1>5

LEMMA FeedInit == ASSUME Init PROVE FeedInv
<1>1. Nothing \in Lists /\ Nothing.asOf = 0
  BY DEF Nothing, Lists
<1>2. Idle \in Request /\ Idle.pc = "idle" /\ Idle.now = 0
  BY <1>1 DEF Idle, Request, Steps
<1> QED
  BY <1>1, <1>2 DEF Init, FeedInv, TypeOK, DatedBefore, ServedIsFresh

\* What a step of one request must show of that request.
Sound(q) ==
    /\ q \in Request
    /\ q.pc = "served" /\ ~q.failed => q.list.asOf >= q.now - Lifetime
    /\ q.pc = "answered" => q.list.asOf >= q.now
    /\ q.pc = "failed" => q.failed
    /\ q.now <= clock

LEMMA OneRequest ==
    ASSUME FeedInv, NEW r \in Requests, NEW q,
           req' = [req EXCEPT ![r] = q], Sound(q), UNCHANGED clock,
           marketCache' \in Lists, marketCachedAt' \in Nat,
           marketCache'.asOf >= marketCachedAt'
    PROVE  FeedInv'
<1>1. TypeOK'
  BY DEF FeedInv, TypeOK, Sound
<1>2. ASSUME NEW s \in Requests
      PROVE  /\ req'[s].pc = "served" /\ ~req'[s].failed
                  => req'[s].list.asOf >= req'[s].now - Lifetime
             /\ req'[s].pc = "answered" => req'[s].list.asOf >= req'[s].now
             /\ req'[s].pc = "failed" => req'[s].failed
             /\ req'[s].now <= clock'
  <2>1. CASE s = r
    BY <2>1 DEF FeedInv, TypeOK, Sound
  <2>2. CASE s # r
    BY <2>2 DEF FeedInv, TypeOK, DatedBefore, ServedIsFresh
  <2> QED
    BY <2>1, <2>2
<1> QED
  BY <1>1, <1>2 DEF FeedInv, DatedBefore, ServedIsFresh

LEMMA FeedStep == ASSUME FeedInv, [Next]_vars PROVE FeedInv'
<1> USE DEF FeedInv, TypeOK, DatedBefore, ServedIsFresh
<1>1. CASE UNCHANGED vars
  BY <1>1 DEF vars
<1>2. CASE Tick
  BY <1>2 DEF Tick, Request
<1>3. ASSUME NEW r \in Requests, Ask(r) PROVE FeedInv'
  <2> DEFINE q == [pc |-> IF Stale THEN "asked" ELSE "served", now |-> clock,
                   list |-> marketCache, failed |-> FALSE]
  <2>1. q \in Request
    BY DEF Request, Steps
  <2>2. ~Stale => marketCache.asOf >= clock - Lifetime
    BY DEF Stale, Lists, Lifetime
  <2>3. Sound(q)
    BY <2>1, <2>2 DEF Sound
  <2> QED
    BY <1>3, <2>3, OneRequest DEF Ask
<1>4. ASSUME NEW r \in Requests, Gamma(r) PROVE FeedInv'
  <2>1. req[r] \in Request /\ req[r].now <= clock /\ req[r].pc = "asked"
    BY <1>4 DEF Gamma
  <2>2. ASSUME NEW some \in BOOLEAN,
               req' = [req EXCEPT ![r].pc = "answered",
                                  ![r].list = [asOf |-> clock, listed |-> some]]
        PROVE  FeedInv'
    <3> DEFINE q == [req[r] EXCEPT !.pc = "answered", !.list = [asOf |-> clock, listed |-> some]]
    <3>1. req' = [req EXCEPT ![r] = q]
      BY <2>2
    <3>2. Sound(q)
      BY <2>1 DEF Sound, Request, Steps, Lists
    <3> QED
      BY <1>4, <3>1, <3>2, OneRequest DEF Gamma
  <2>3. CASE req' = [req EXCEPT ![r].pc = "failed", ![r].failed = TRUE]
    <3> DEFINE q == [req[r] EXCEPT !.pc = "failed", !.failed = TRUE]
    <3>1. req' = [req EXCEPT ![r] = q]
      BY <2>3
    <3>2. Sound(q)
      BY <2>1 DEF Sound, Request, Steps
    <3> QED
      BY <1>4, <3>1, <3>2, OneRequest DEF Gamma
  <2> QED
    BY <1>4, <2>2, <2>3 DEF Gamma
<1>5. ASSUME NEW r \in Requests, Refreshed(r) PROVE FeedInv'
  <2> DEFINE q == [req[r] EXCEPT !.pc = "served"]
  <2>1. req[r] \in Request /\ req[r].now <= clock /\ req[r].list.asOf >= req[r].now
    BY <1>5 DEF Refreshed
  <2>2. Sound(q)
    BY <2>1 DEF Sound, Request, Steps, Lists, Lifetime
  <2>3. req' = [req EXCEPT ![r] = q]
    BY <1>5 DEF Refreshed
  <2>4. marketCache' \in Lists /\ marketCachedAt' \in Nat /\ marketCache'.asOf >= marketCachedAt'
    BY <1>5, <2>1 DEF Refreshed, Request
  <2> QED
    BY <1>5, <2>2, <2>3, <2>4, OneRequest DEF Refreshed
<1>6. ASSUME NEW r \in Requests, Unrefreshed(r) PROVE FeedInv'
  <2> DEFINE q == [req[r] EXCEPT !.pc = IF marketCache.listed THEN "served" ELSE "refused",
                                 !.list = marketCache]
  <2>1. req[r] \in Request /\ req[r].now <= clock /\ req[r].failed
    BY <1>6 DEF Unrefreshed
  <2>2. Sound(q)
    BY <2>1 DEF Sound, Request, Steps
  <2>3. req' = [req EXCEPT ![r] = q]
    BY <1>6 DEF Unrefreshed
  <2> QED
    BY <1>6, <2>2, <2>3, OneRequest DEF Unrefreshed
<1>7. ASSUME NEW r \in Requests, Answered(r) PROVE FeedInv'
  <2>1. Sound(Idle)
    BY DEF Sound, Idle, Nothing, Request, Steps, Lists
  <2> QED
    BY <1>7, <2>1, OneRequest DEF Answered
<1> QED
  BY <1>1, <1>2, <1>3, <1>4, <1>5, <1>6, <1>7 DEF Next

\* No market list older than a minute is served while Gamma answers, for any
\* number of overlapping requests (server.ts:400-413).
THEOREM ServesFreshLists == Spec => []ServedIsFresh
<1>1. Init => FeedInv
  BY FeedInit
<1>2. FeedInv /\ [Next]_vars => FeedInv'
  BY FeedStep
<1>3. FeedInv => ServedIsFresh
  BY DEF FeedInv
<1> QED
  BY <1>1, <1>2, <1>3, PTL DEF Spec
=============================================================================
