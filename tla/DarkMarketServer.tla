-------------------------- MODULE DarkMarketServer --------------------------
(***************************************************************************)
(* The backend (packages/ui/server.ts, with settleOnPolygon of evm.ts):    *)
(* the HTTP handlers /api/open, /api/match and /api/cover between the      *)
(* Compact contract on Midnight and the vault on Polygon.                  *)
(*                                                                         *)
(* JavaScript runs one handler at a time, but every await lets another in: *)
(* a handler is split there, one pc value per await.  What it read before  *)
(* an await it uses after it.  Each request in progress is a Client.       *)
(*                                                                         *)
(* Faults names what the environment may do to a run beyond refusing a     *)
(* transaction outright; {} is a quiet day, all of them the worst one.     *)
(***************************************************************************)
EXTENDS Integers, FiniteSetsExt, Functions, SequencesExt

CONSTANTS
    Clients,      \* requests that can be in progress at once
    Wallets,      \* the participants' wallets, indices into wallets[]
    Sizes,        \* Math.floor of the size a body may carry: 0 for 0 < x < 1
    Conditions,   \* Polymarket condition ids
    Operator,     \* the EVM account of the executor key
    Trader,       \* everybody else with a deposit in the vault
    Unit,         \* EVM_UNIT_WEI
    StartSlot,    \* EVM_START_SLOT
    Deposits,     \* amounts Trader may deposit or withdraw at a time
    Faults,       \* which of FaultKinds may happen
    MaxBlinds,    \* bound: commitments ever made
    MaxSlots,     \* bound: covers tried by one run of the process
    MaxContracts, \* bound: Midnight contracts deployed
    MaxDeposits   \* bound: currency in the vault

FaultKinds ==
    {"overlap",     \* a request arrives while another's body is being read
     "lost_reply",  \* a call throws although its transaction goes through
     "mark_lost",   \* mark_covered fails
     "withdraw",    \* a trader withdraws between the check and the fill
     "restart"}     \* the process dies and starts again

ASSUME ServerAssumption ==
    /\ Sizes \subseteq Nat /\ Deposits \subseteq Nat
    /\ Unit \in Nat \ {0} /\ StartSlot \in Nat
    /\ Faults \subseteq FaultKinds
    /\ MaxBlinds \in Nat /\ MaxSlots \in Nat /\ MaxContracts \in Nat \ {0} /\ MaxDeposits \in Nat
    /\ Operator # Trader

VARIABLES
    \* the process's memory
    positions, nextId, nextCoverSlot, booting, busy, ready, request,
    \* the Compact contract, its address and transactions nobody waits for
    round, condition_id, commitments, opened, matched,
    matched_notional, covered_notional, history, address, midnightLate,
    \* the vault, transactions nobody waits for
    executor, deposits, totalDeposits, committed, settlements, settled,
    released, exact, balance, frames, polygonLate,
    blinds,  \* history: commitments made so far, so the next blind is fresh
    fills    \* history: which position (by blind) each settlement was for

memory == <<positions, nextId, nextCoverSlot, booting, busy, ready, request>>
ledger == <<round, condition_id, commitments, opened, matched,
            matched_notional, covered_notional, history>>
midnight == <<ledger, address, midnightLate>>
vault == <<executor, deposits, totalDeposits, committed, settlements, settled,
           released, exact, balance, frames>>
polygon == <<vault, polygonLate, fills>>
vars == <<memory, midnight, polygon, blinds>>

Addresses == 1..MaxContracts
Slots == StartSlot..(StartSlot + MaxSlots - 1)

\* An opened commitment is at most matched, covered and counted once per retry.
Midnight == INSTANCE DarkMarketLedger WITH
    Blinds <- 1..MaxBlinds,
    MaxUint64 <- 1000, MaxCalls <- 1000

Vault == INSTANCE DarkPoolVault WITH
    Accounts <- {Operator, Trader}, Contracts <- {}, Owner <- Operator,
    Midnights <- Addresses, Epochs <- Slots, Sizes <- Deposits, Crossed <- {0},
    MaxSettlements <- Cardinality(Addresses \X Slots), MaxDepth <- 0

-----------------------------------------------------------------------------
(* The book *)

NoMatch == 0
NoCover == -1  \* EVM_START_SLOT may be 0

Position == [id : Nat, wallet : Wallets, side : {"YES", "NO"}, size : Sizes,
             blind : 1..MaxBlinds, conditionId : Conditions,
             status : {"open", "matched", "covered"},
             matchedWith : Nat, cover : {NoCover} \union Slots]

\* What the process knows to open the commitment of p.
OpeningOf(p) == [side |-> p.side = "YES", size |-> p.size, blind |-> p.blind]

DraftReused(w, side, size, cond) ==  \* mutant: the last blind instead of a fresh one
    [id |-> 0, wallet |-> w, side |-> side, size |-> size, blind |-> blinds,
     conditionId |-> cond, status |-> "open", matchedWith |-> NoMatch, cover |-> NoCover]

Draft(w, side, size, cond) ==
    [id |-> 0, wallet |-> w, side |-> side, size |-> size, blind |-> blinds + 1,
     conditionId |-> cond, status |-> "open", matchedWith |-> NoMatch, cover |-> NoCover]

Opposite(side) == IF side = "YES" THEN "NO" ELSE "YES"

-----------------------------------------------------------------------------
(* Requests.  pc names the await a request is suspended at.  tx is what    *)
(* has become of the transaction it waits for.                             *)

Idle == [pc |-> "idle"]
BodyPcs == {"open_body", "match_body", "cover_body"}
MidnightPcs == {"opening", "opening_other", "matching", "marking"}
PolygonPcs == {"read_free", "read_settled", "write", "receipt"}

Requests ==
    [pc : {"idle"} \union BodyPcs]
    \union [pc : {"opening"}, own : Position, tx : {"sent", "included"}]
    \union [pc : {"opening_other", "matching"}, own : Position, target : Nat,
            tx : {"sent", "included"}]
    \union [pc : PolygonPcs, target : Nat, slot : Slots,
            tx : {"none", "sent", "settled", "reverted"}]
    \union [pc : {"marking"}, target : Nat, slot : Slots, tx : {"sent", "included"}]

At(r, pc) == request[r].pc = pc
Bodies == {r \in Clients : request[r].pc \in BodyPcs}

\* Requests between busy = true and the finally that clears it.
Critical == {r \in Clients : request[r].pc \in MidnightPcs \union PolygonPcs}

Become(r, state) == request' = [request EXCEPT ![r] = state]

FinishBusy(r) == Become(r, Idle) /\ UNCHANGED busy  \* mutant: no finally

\* The finally of every handler.
Finish(r) == Become(r, Idle) /\ busy' = FALSE

\* The Midnight transaction request r waits for.
Circuit(q) ==
    CASE q.pc \in {"opening", "opening_other"} ->
            [op |-> "open_position", a |-> OpeningOf(q.own), b |-> OpeningOf(q.own),
             cond |-> q.own.conditionId, slot |-> NoCover]
      [] q.pc = "matching" ->
            [op |-> "match_positions", a |-> OpeningOf(positions[q.target]),
             b |-> OpeningOf(q.own), cond |-> q.own.conditionId, slot |-> NoCover]
      [] q.pc = "marking" ->
            LET p == positions[q.target] IN
            [op |-> "mark_covered", a |-> OpeningOf(p), b |-> OpeningOf(p),
             cond |-> p.conditionId, slot |-> q.slot]

Settlement(p, slot, side, size) ==
    [address |-> address, slot |-> slot, side |-> side, size |-> size,
     cond |-> p.conditionId, blind |-> p.blind]

SettleOpposite(q) ==  \* mutant: the side of the counterparty
    LET p == positions[q.target] IN Settlement(p, q.slot, Opposite(p.side), p.size * Unit)

\* The Polygon transaction request q waits for.
Settle(q) ==
    LET p == positions[q.target] IN Settlement(p, q.slot, p.side, p.size * Unit)

-----------------------------------------------------------------------------
Init ==
    /\ positions = <<>>
    /\ nextId = 1
    /\ nextCoverSlot = StartSlot
    /\ booting = TRUE
    /\ busy = FALSE
    /\ ready = {}
    /\ request = [r \in Clients |-> Idle]
    /\ Midnight!Init
    /\ address = 1
    /\ midnightLate = {}
    /\ Vault!Init
    /\ executor = Operator
    /\ polygonLate = {}
    /\ fills = {}
    /\ blinds = 0

\* bootOne: the wallet has funds and dust and has joined the contract.
BootOne(w) ==
    /\ booting
    /\ w \notin ready
    /\ ready' = ready \union {w}
    /\ UNCHANGED <<positions, nextId, nextCoverSlot, booting, busy, request,
                   midnight, polygon, blinds>>

\* The boot driver's end, whichever wallets made it.
BootDone ==
    /\ booting
    /\ booting' = FALSE
    /\ UNCHANGED <<positions, nextId, nextCoverSlot, busy, ready, request,
                   midnight, polygon, blinds>>

-----------------------------------------------------------------------------
(* A request comes in.  One that is turned away here changes nothing.      *)

ArriveBooting(r) ==  \* mutant: no check that the wallets have booted
    /\ At(r, "idle")
    /\ ~busy
    /\ \E pc \in BodyPcs : Become(r, [pc |-> pc])
    /\ UNCHANGED <<positions, nextId, nextCoverSlot, booting, busy, ready,
                   midnight, polygon, blinds>>

Arrive(r) ==
    /\ At(r, "idle")
    /\ ~busy
    /\ \/ ~booting /\ Become(r, [pc |-> "open_body"])
       \/ ~booting /\ Become(r, [pc |-> "match_body"])
       \/ Become(r, [pc |-> "cover_body"])
    /\ UNCHANGED <<positions, nextId, nextCoverSlot, booting, busy, ready,
                   midnight, polygon, blinds>>

\* A body the checks after req.json() refuse, or that is not JSON at all.
Refuse(r) ==
    /\ request[r].pc \in BodyPcs
    /\ Become(r, Idle)
    /\ UNCHANGED <<positions, nextId, nextCoverSlot, booting, busy, ready,
                   midnight, polygon, blinds>>

SealDraftUnmarked(r, draft, state) ==  \* mutant: busy = true is missing
    /\ blinds < MaxBlinds
    /\ blinds' = blinds + 1
    /\ Become(r, state)
    /\ UNCHANGED <<positions, nextId, nextCoverSlot, booting, busy, ready, midnight, polygon>>

\* callTx.open_position for a fresh blind: the common part of open and match.
SealDraft(r, draft, state) ==
    /\ blinds < MaxBlinds
    /\ blinds' = blinds + 1
    /\ busy' = TRUE
    /\ Become(r, state)
    /\ UNCHANGED <<positions, nextId, nextCoverSlot, booting, ready, midnight, polygon>>

OpenBegin(r) ==
    /\ At(r, "open_body")
    /\ \E w \in ready, side \in {"YES", "NO"}, size \in Sizes, cond \in Conditions :
          LET draft == Draft(w, side, size, cond) IN
          SealDraft(r, draft, [pc |-> "opening", own |-> draft, tx |-> "sent"])

\* A size the circuit refuses or a condition that is no hex, thrown before the
\* transaction and answered in one go.
OpenBadBody(r) ==
    /\ At(r, "open_body") /\ ready # {}
    /\ Finish(r)
    /\ UNCHANGED <<positions, nextId, nextCoverSlot, booting, ready,
                   midnight, polygon, blinds>>

\* nextId++ and positions.push.
Push(own) ==
    /\ positions' = Append(positions, [own EXCEPT !.id = nextId])
    /\ nextId' = nextId + 1

OpenDoneEager(r) ==  \* mutant: callTx is not awaited
    /\ At(r, "opening")
    /\ Push(request[r].own)
    /\ Finish(r)
    /\ UNCHANGED <<nextCoverSlot, booting, ready, midnight, polygon, blinds>>

OpenDoneUnlisted(r) ==  \* mutant: positions.push is missing
    /\ At(r, "opening")
    /\ request[r].tx = "included"
    /\ Finish(r)
    /\ UNCHANGED <<positions, nextId, nextCoverSlot, booting, ready, midnight, polygon, blinds>>

OpenDone(r) ==
    /\ At(r, "opening")
    /\ request[r].tx = "included"
    /\ Push(request[r].own)
    /\ Finish(r)
    /\ UNCHANGED <<nextCoverSlot, booting, ready, midnight, polygon, blinds>>

\* The other side of position t, opened by wallet w.
SealOther(r, t, w, size) ==
    LET target == positions[t]
        draft == Draft(w, Opposite(target.side), size, target.conditionId)
    IN SealDraft(r, draft, [pc |-> "opening_other", own |-> draft, target |-> t, tx |-> "sent"])

MatchBeginTaken(r) ==  \* mutant: the target's status is not checked
    /\ At(r, "match_body")
    /\ \E t \in DOMAIN positions, w \in ready, size \in Sizes :
          w # positions[t].wallet /\ SealOther(r, t, w, size)

\* body.size may name another size than the target's; nothing checks it.
MatchBegin(r) ==
    /\ At(r, "match_body")
    /\ \E t \in DOMAIN positions, w \in ready, size \in Sizes :
          /\ positions[t].status = "open"
          /\ w # positions[t].wallet
          /\ SealOther(r, t, w, size)

\* The sizes BigInt or the circuit refuse: thrown and answered in one go.
MatchBadSize(r) ==
    /\ At(r, "match_body")
    /\ \E t \in DOMAIN positions, w \in ready :
          positions[t].status = "open" /\ w # positions[t].wallet
    /\ Finish(r)
    /\ UNCHANGED <<positions, nextId, nextCoverSlot, booting, ready,
                   midnight, polygon, blinds>>

\* The counterpart is listed, open, before the second transaction starts.
ListOther(r) ==
    /\ Push(request[r].own)
    /\ Become(r, [request[r] EXCEPT !.pc = "matching", !.own.id = nextId, !.tx = "sent"])
    /\ UNCHANGED <<nextCoverSlot, booting, busy, ready, midnight, polygon, blinds>>

MatchOpened(r) ==
    /\ At(r, "opening_other")
    /\ request[r].tx = "included"
    /\ ListOther(r)

CloseBoth(r) ==
    LET t == request[r].target
        c == request[r].own.id
    IN positions' = [positions EXCEPT
           ![t].status = "matched", ![t].matchedWith = c,
           ![c].status = "matched", ![c].matchedWith = t]

MatchDoneEager(r) ==  \* mutant: the proof is not awaited
    /\ At(r, "matching")
    /\ CloseBoth(r)
    /\ Finish(r)
    /\ UNCHANGED <<nextId, nextCoverSlot, booting, ready, midnight, polygon, blinds>>

MatchDoneHalf(r) ==  \* mutant: the counterpart's status is forgotten
    /\ At(r, "matching")
    /\ request[r].tx = "included"
    /\ positions' = [positions EXCEPT ![request[r].target].status = "matched",
                                     ![request[r].target].matchedWith = request[r].own.id]
    /\ Finish(r)
    /\ UNCHANGED <<nextId, nextCoverSlot, booting, ready, midnight, polygon, blinds>>

MatchDone(r) ==
    /\ At(r, "matching")
    /\ request[r].tx = "included"
    /\ CloseBoth(r)
    /\ Finish(r)
    /\ UNCHANGED <<nextId, nextCoverSlot, booting, ready, midnight, polygon, blinds>>

-----------------------------------------------------------------------------
(* Covering.  The slot is taken before anything can fail and never given   *)
(* back.                                                                   *)

\* What follows the checks: a size of nothing throws before the first await.
StartCover(r, t) ==
    /\ \/ /\ positions[t].size * Unit = 0
          /\ Finish(r)
       \/ /\ positions[t].size * Unit # 0
          /\ busy' = TRUE
          /\ Become(r, [pc |-> "read_free", target |-> t,
                        slot |-> nextCoverSlot, tx |-> "none"])
    /\ UNCHANGED <<positions, nextId, booting, ready, midnight, polygon, blinds>>

CoverBeginSameSlot(r) ==  \* mutant: the slot is read, not taken
    /\ At(r, "cover_body")
    /\ nextCoverSlot \in Slots
    /\ \E t \in DOMAIN positions : positions[t].status = "open" /\ StartCover(r, t)
    /\ UNCHANGED nextCoverSlot

CoverBeginTaken(r) ==  \* mutant: the position's status is not checked
    /\ At(r, "cover_body")
    /\ nextCoverSlot \in Slots
    /\ nextCoverSlot' = nextCoverSlot + 1
    /\ \E t \in DOMAIN positions : StartCover(r, t)

CoverBegin(r) ==
    /\ At(r, "cover_body")
    /\ nextCoverSlot \in Slots
    /\ nextCoverSlot' = nextCoverSlot + 1
    /\ \E t \in DOMAIN positions : positions[t].status = "open" /\ StartCover(r, t)

\* The next await of settleOnPolygon, or its throw.
Proceed(r, pc, tx, ok) ==
    /\ \/ ok /\ Become(r, [request[r] EXCEPT !.pc = pc, !.tx = tx]) /\ UNCHANGED busy
       \/ ~ok /\ Finish(r)
    /\ UNCHANGED <<positions, nextId, nextCoverSlot, booting, ready,
                   midnight, polygon, blinds>>

CoverReadFree(r) ==
    /\ At(r, "read_free")
    /\ Proceed(r, "read_settled", "none", Settle(request[r]).size <= Vault!freeCollateral)

CoverReadSettled(r) ==
    /\ At(r, "read_settled")
    /\ Proceed(r, "write", "none", <<address, request[r].slot>> \notin settled)

CoverWrite(r) ==
    /\ At(r, "write")
    /\ Proceed(r, "receipt", "sent", TRUE)

\* waitForTransactionReceipt returns; nobody looks at the receipt's status.
CoverReceipt(r) ==
    /\ At(r, "receipt")
    /\ request[r].tx \in {"settled", "reverted"}
    /\ Proceed(r, "marking", "sent", TRUE)

CloseCovered(r) ==
    /\ positions' = [positions EXCEPT ![request[r].target].status = "covered",
                                     ![request[r].target].cover = request[r].slot]
    /\ Finish(r)
    /\ UNCHANGED <<nextId, nextCoverSlot, booting, ready, ledger, address, polygon, blinds>>

CoverDoneUnmarked(r) ==  \* mutant: mark_covered is not called
    At(r, "marking") /\ request[r].tx = "sent" /\ CloseCovered(r) /\ UNCHANGED midnightLate

\* A mark_covered that throws is swallowed; it may still reach the chain.
CoverDone(r) ==
    /\ At(r, "marking")
    /\ \/ request[r].tx = "included" /\ UNCHANGED midnightLate
       \/ /\ "mark_lost" \in Faults
          /\ \/ UNCHANGED midnightLate
             \/ /\ request[r].tx = "sent"
                /\ midnightLate' = midnightLate \union {Circuit(request[r])}
    /\ CloseCovered(r)

-----------------------------------------------------------------------------
(* An await throws.  The transaction was refused and never happens, or it  *)
(* is still out there, or it has happened and only the answer was lost.    *)

Throw(r) ==
    /\ r \in Critical
    /\ ~At(r, "marking")
    /\ request[r].tx \in {"none", "sent"} \/ "lost_reply" \in Faults
    /\ Finish(r)
    /\ UNCHANGED <<positions, nextId, nextCoverSlot, booting, ready,
                   midnight, polygon, blinds>>

ThrowAndLeave(r) ==
    /\ "lost_reply" \in Faults
    /\ \/ /\ request[r].pc \in MidnightPcs \ {"marking"}
          /\ request[r].tx = "sent"
          /\ midnightLate' = midnightLate \union {Circuit(request[r])}
          /\ UNCHANGED polygonLate
       \/ /\ \/ At(r, "write")
             \/ At(r, "receipt") /\ request[r].tx = "sent"
          /\ polygonLate' = polygonLate \union {Settle(request[r])}
          /\ UNCHANGED midnightLate
    /\ Finish(r)
    /\ UNCHANGED <<positions, nextId, nextCoverSlot, booting, ready,
                   ledger, address, vault, fills, blinds>>

-----------------------------------------------------------------------------
(* The two chains                                                          *)

Include(c) ==
    \/ c.op = "open_position" /\ Midnight!open_position(c.cond, c.a)
    \/ c.op = "match_positions" /\ Midnight!match_positions(c.a, c.b)
    \/ c.op = "mark_covered" /\ Midnight!mark_covered(c.a)

MidnightBlock ==
    /\ \/ \E r \in Clients :
            /\ request[r].pc \in MidnightPcs
            /\ request[r].tx = "sent"
            /\ Include(Circuit(request[r]))
            /\ Become(r, [request[r] EXCEPT !.tx = "included"])
            /\ UNCHANGED midnightLate
       \/ \E c \in midnightLate :
            /\ Include(c)
            /\ midnightLate' = midnightLate \ {c}
            /\ UNCHANGED request
    /\ UNCHANGED <<positions, nextId, nextCoverSlot, booting, busy, ready,
                   address, polygon, blinds>>

\* A settleResidual transaction is mined: it settles, or it reverts.
Mine(s, outcome) ==
    \/ /\ outcome = "settled"
       /\ Vault!settleResidual(Operator, s.address, s.slot, s.cond, s.side, s.size, 0)
       /\ fills' = fills \union {[address |-> s.address, slot |-> s.slot, blind |-> s.blind]}
    \/ /\ outcome = "reverted"
       /\ <<s.address, s.slot>> \in settled \/ s.size > Vault!freeCollateral
       /\ UNCHANGED <<vault, fills>>

PolygonBlock ==
    /\ \E outcome \in {"settled", "reverted"} :
          \/ \E r \in Clients :
               /\ At(r, "receipt")
               /\ request[r].tx = "sent"
               /\ Mine(Settle(request[r]), outcome)
               /\ Become(r, [request[r] EXCEPT !.tx = outcome])
               /\ UNCHANGED polygonLate
          \/ \E s \in polygonLate :
               /\ Mine(s, outcome)
               /\ polygonLate' = polygonLate \ {s}
               /\ UNCHANGED request
    /\ UNCHANGED <<positions, nextId, nextCoverSlot, booting, busy, ready, midnight, blinds>>

\* Other holders of vault deposits.
Trading ==
    /\ \E v \in Deposits :
          \/ Vault!deposit(Trader, v)
          \/ "withdraw" \in Faults /\ Vault!withdraw(Trader, v)
    /\ UNCHANGED <<memory, midnight, polygonLate, fills, blinds>>

NewContract ==
    /\ address < MaxContracts
    /\ address' = address + 1
    /\ midnightLate' = {}
    /\ Midnight!deploy

ForgetBook ==
    /\ positions' = <<>>
    /\ nextId' = 1
    /\ nextCoverSlot' = StartSlot

Sent(r, pcs) == request[r].pc \in pcs /\ request[r].tx \in {"none", "sent"}

\* The process dies and starts again.  Its memory is gone, what it sent is
\* not.  It joins the contract it is configured with, or the chain went down
\* with the container and it deploys a new one.
Restart ==
    /\ "restart" \in Faults
    /\ ~booting
    /\ ForgetBook
    /\ booting' = TRUE
    /\ busy' = FALSE
    /\ ready' = {}
    /\ request' = [r \in Clients |-> Idle]
    /\ \/ /\ midnightLate' = midnightLate \union
               {Circuit(request[r]) : r \in {q \in Critical : Sent(q, MidnightPcs)}}
          /\ UNCHANGED <<ledger, address>>
       \/ NewContract
    /\ polygonLate' = polygonLate \union
           {Settle(request[r]) : r \in {q \in Critical : Sent(q, {"write", "receipt"})}}
    /\ UNCHANGED <<vault, fills, blinds>>

-----------------------------------------------------------------------------

Body(r) ==
    \/ Refuse(r)
    \/ OpenBegin(r) \/ OpenBadBody(r)
    \/ MatchBegin(r) \/ MatchBadSize(r)
    \/ CoverBegin(r)

\* What a handler does once its await has settled, well or badly.
Resume(r) ==
    \/ OpenDone(r)
    \/ MatchOpened(r) \/ MatchDone(r)
    \/ CoverReadFree(r) \/ CoverReadSettled(r) \/ CoverWrite(r)
    \/ CoverReceipt(r) \/ CoverDone(r)
    \/ Throw(r) \/ ThrowAndLeave(r)

Boot == BootDone \/ \E w \in Wallets : BootOne(w)

AnyStep ==
    \/ Boot \/ Restart
    \/ MidnightBlock \/ PolygonBlock \/ Trading
    \/ \E r \in Clients : Arrive(r) \/ Body(r) \/ Resume(r)

\* Without "overlap" a body is there as soon as its headers are.
Next ==
    IF "overlap" \in Faults \/ Bodies = {}
    THEN AnyStep
    ELSE \E r \in Bodies : Body(r)

Spec == Init /\ [][Next]_vars

\* Every promise a handler awaits settles in the end, and nothing is assumed
\* of clients, who may leave a body half sent.
Fairness ==
    /\ \A r \in Clients : WF_vars(Resume(r))
    /\ WF_vars(MidnightBlock)

FairSpec == Spec /\ Fairness

-----------------------------------------------------------------------------
(* Invariants that no fault and no interleaving may break                  *)

\* The program's memory and both contracts keep their types, whatever the
\* handlers interleave: no id, slot or blind leaves its range.
TypeOK ==
    /\ positions \in Seq(Position)
    /\ nextId \in Nat /\ nextCoverSlot \in StartSlot..(StartSlot + MaxSlots)
    /\ booting \in BOOLEAN /\ busy \in BOOLEAN /\ ready \subseteq Wallets
    /\ request \in [Clients -> Requests]
    /\ address \in Addresses /\ blinds \in 0..MaxBlinds
    /\ Midnight!TypeOK
    /\ Vault!TypeOK

\* Ids name places in the book and are never handed out twice, and every
\* position listed is sealed on the contract the server reports, under a
\* blind of its own, whatever other handlers did between the awaits of
\* /api/open and /api/match (server.ts:459-472, 507-520).
ListedIsSealed ==
    /\ nextId = Len(positions) + 1
    /\ \A i \in DOMAIN positions :
          /\ positions[i].id = i
          /\ Midnight!IsOpened(OpeningOf(positions[i]))
    /\ \A i, j \in DOMAIN positions : positions[i].blind = positions[j].blind => i = j

\* While the wallets boot the book is empty and no transaction is being
\* waited for, so /api/cover needs no check of its own (server.ts:555).
BootingIsQuiet == booting => positions = <<>> /\ Critical = {}

\* A position shown as matched was proved against the one it is shown with:
\* opposite sides, two wallets, one market (server.ts:494, 499, 534-541).
MatchedIsProved ==
    \A i \in DOMAIN positions : positions[i].status = "matched" =>
        LET j == positions[i].matchedWith
            a == OpeningOf(positions[i])
            b == OpeningOf(positions[j])
        IN /\ \/ Midnight!Included(Midnight!Call("match_positions", a, b))
              \/ Midnight!Included(Midnight!Call("match_positions", b, a))
           /\ a.side # b.side
           /\ positions[i].wallet # positions[j].wallet
           /\ positions[i].conditionId = positions[j].conditionId

Covers == {r \in Critical : request[r].pc \in PolygonPcs \union {"marking"}}
Used(slot) == \E i \in DOMAIN positions : positions[i].cover = slot

\* Two covers of one run of the process never use the same settlement slot,
\* at whatever pace they go ("each cover has to pass a number nobody has
\* used yet", evm.ts:109).
SlotsAreNotShared ==
    /\ \A r, q \in Covers : r # q => request[r].slot # request[q].slot
    /\ \A r \in Covers : ~Used(request[r].slot)

SettlementOf(f) == CHOOSE s \in ToSet(settlements) : Vault!Key(s) = <<f.address, f.slot>>

\* Each settlement in the vault can be lined up with a commitment on the
\* Midnight contract it names: same side, same size in units of the vault.
FillsAreSealed ==
    \A f \in fills : f.address = address =>
        LET s == SettlementOf(f) IN
        \E size \in Sizes :
            /\ s.size = size * Unit
            /\ <<[side |-> s.side = "YES", size |-> size], f.blind>> \in commitments

-----------------------------------------------------------------------------
(* What holds when requests do not overlap                                 *)

\* At most one request is past the busy check, and busy says whether one is
\* ("another transaction is in flight", server.ts:441).
OneAtATime == Cardinality(Critical) <= 1 /\ (busy <=> Critical # {})

Entry(p) == [status |-> p.status, with |-> p.matchedWith]

Book == INSTANCE OrderBook WITH
    book <- [i \in DOMAIN positions |-> Entry(positions[i])]

\* A position leaves the open state once, one of two ways, and a match takes
\* both of its positions in the same step (server.ts:8).
LeavesTheBookOnce == Book!Spec

-----------------------------------------------------------------------------
(* What holds when, besides, nothing gets lost                             *)

Uses(op, b) == {i \in DOMAIN history : history[i].op = op /\ b \in {history[i].a.blind,
                                                                   history[i].b.blind}}
Matches(b) == Cardinality(Uses("match_positions", b))
Marks(b) == Cardinality(Uses("mark_covered", b))
FillsOf(b) == {f \in fills : f.address = address /\ f.blind = b}
FillsFor(b) == Cardinality(FillsOf(b))

\* "A position leaves that state one of two ways" (server.ts:8), on the
\* chains: it is matched once, or filled on Polygon once, never both.
OneFate == \A b \in 1..blinds : Matches(b) + FillsFor(b) <= 1 /\ Marks(b) <= 1

AtRest == Critical = {} /\ midnightLate = {} /\ polygonLate = {}

\* Between requests the book shows what the chains hold.
BookAgreesWithChains ==
    AtRest => \A i \in DOMAIN positions :
        LET p == positions[i] IN
        /\ p.status = "matched" <=> Matches(p.blind) = 1
        /\ p.status = "covered" <=> FillsFor(p.blind) = 1

\* What the vault settled for the contract in use.
FillSizes == [f \in fills |-> SettlementOf(f).size]
FilledHere == SumFunctionOnSet(FillSizes, {f \in fills : f.address = address})

\* "so both ledgers carry the same number" (server.ts:579): what Midnight
\* calls covered is what the vault settled for this contract.
LedgersAgree == AtRest => covered_notional * Unit = FilledHere

\* "the same number should appear in the vault's settlement"
\* (darkmarket.compact:98): no cover is marked on Midnight without its fill.
MarkedIsFilled == \A b \in 1..blinds : Marks(b) > 0 => FillsFor(b) > 0

\* A position is filled on Polygon at most once: the aggregate a reader finds
\* on Midnight counts it once (DarkPoolVault.sol:12).
FilledOnce == \A b \in 1..blinds : FillsFor(b) <= 1

\* "whatever is left over still needs a counterparty somewhere else"
\* (darkmarket.compact:86): a position the book closes has nothing left over.
NothingLeftOver ==
    \A i \in DOMAIN positions : positions[i].status = "matched" =>
        positions[i].size <= positions[positions[i].matchedWith].size

\* "size must be positive" (server.ts:445).
SizesArePositive == \A i \in DOMAIN positions : positions[i].size > 0

-----------------------------------------------------------------------------
(* Liveness                                                                *)

\* The busy flag is let go again, however a handler ends: with an answer, with a
\* refusal after it was set, with an answer lost, or with the process.
BusyIsReleased == busy ~> ~busy

\* A commitment that reached the chain is listed in the end, if no answer is
\* lost.
SealedIsListed ==
    \A b \in 1..MaxBlinds :
        (\E i \in DOMAIN history : history[i].op = "open_position" /\ history[i].a.blind = b)
            ~> (\E i \in DOMAIN positions : positions[i].blind = b)

=============================================================================
