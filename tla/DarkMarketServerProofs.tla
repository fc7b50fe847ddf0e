----------------------- MODULE DarkMarketServerProofs -----------------------
(***************************************************************************)
(* The backend, for any number of requests, wallets, sizes, markets and    *)
(* contracts, and any of the faults a theorem does not exclude.            *)
(***************************************************************************)
EXTENDS DarkMarketServer, Sums, SequenceTheorems, TLAPS

-----------------------------------------------------------------------------
(* Requests                                                                *)

Targeting == {"opening_other", "matching", "marking"} \union PolygonPcs
Owning == {"opening", "opening_other", "matching"}

LEMMA Shapes ==
    ASSUME NEW q \in Requests
    PROVE  /\ q.pc \in {"idle"} \union BodyPcs \union MidnightPcs \union PolygonPcs
           /\ q.pc \in Owning => q.own \in Position
           /\ q.pc \in Targeting => q.target \in Nat
           /\ q.pc \in PolygonPcs \union {"marking"} => q.slot \in Slots
           /\ q.pc \in MidnightPcs => q.tx \in {"sent", "included"}
           /\ q.pc \in PolygonPcs => q.tx \in {"none", "sent", "settled", "reverted"}
BY DEF Requests, Owning, Targeting, BodyPcs, MidnightPcs, PolygonPcs

\* The transaction a request waits for is in a block.
LEMMA Answered ==
    ASSUME NEW q \in Requests, q.pc \in MidnightPcs
    PROVE  LET a == [q EXCEPT !.tx = "included"] IN
           /\ a \in Requests /\ a.pc = q.pc /\ a.tx = "included"
           /\ q.pc \in Owning => a.own = q.own
           /\ q.pc \in Targeting => a.target = q.target
           /\ q.pc = "marking" => a.slot = q.slot
BY DEF Requests, Owning, Targeting, BodyPcs, MidnightPcs, PolygonPcs

CoverAt(pc, target, slot, tx) == [pc |-> pc, target |-> target, slot |-> slot, tx |-> tx]

\* A cover goes on to its next await.
LEMMA Proceeds ==
    ASSUME NEW q \in Requests, q.pc \in PolygonPcs, NEW pc \in PolygonPcs \union {"marking"},
           NEW tx \in {"none", "sent", "settled", "reverted"}, pc = "marking" => tx = "sent"
    PROVE  /\ [q EXCEPT !.pc = pc] = CoverAt(pc, q.target, q.slot, q.tx)
           /\ [q EXCEPT !.tx = tx] = CoverAt(q.pc, q.target, q.slot, tx)
           /\ CoverAt(pc, q.target, q.slot, tx) \in Requests
           /\ CoverAt(q.pc, q.target, q.slot, tx) \in Requests
<1>1. q \in [pc : PolygonPcs, target : Nat, slot : Slots,
             tx : {"none", "sent", "settled", "reverted"}]
  BY DEF Requests, BodyPcs, MidnightPcs, PolygonPcs
<1>2. /\ [q EXCEPT !.pc = pc] = CoverAt(pc, q.target, q.slot, q.tx)
      /\ [q EXCEPT !.tx = tx] = CoverAt(q.pc, q.target, q.slot, tx)
  <2>1. [q EXCEPT !.tx = tx] = CoverAt(q.pc, q.target, q.slot, tx)
    BY <1>1 DEF CoverAt
  <2>2. [q EXCEPT !.pc = pc] = CoverAt(pc, q.target, q.slot, q.tx)
    BY <1>1 DEF CoverAt
  <2> QED
    BY <2>1, <2>2
<1>3. q.target \in Nat /\ q.slot \in Slots
  BY <1>1
<1>4. CoverAt(pc, q.target, q.slot, tx) \in Requests
  BY <1>3 DEF CoverAt, Requests, PolygonPcs
<1>5. CoverAt(q.pc, q.target, q.slot, tx) \in Requests
  BY <1>1, <1>3 DEF CoverAt, Requests, PolygonPcs
<1> QED
  BY <1>2, <1>4, <1>5

\* Nothing but the request of r changes.
LEMMA Becomes ==
    ASSUME request \in [Clients -> Requests], NEW r \in Clients, NEW q \in Requests, Become(r, q)
    PROVE  /\ request' \in [Clients -> Requests] /\ request'[r] = q
           /\ \A s \in Clients : s # r => request'[s] = request[s]
BY DEF Become

LEMMA Appended ==
    ASSUME NEW S, NEW seq \in Seq(S), NEW e
    PROVE  /\ DOMAIN Append(seq, e) = DOMAIN seq \union {Len(seq) + 1}
           /\ \A i \in DOMAIN seq : Append(seq, e)[i] = seq[i]
           /\ Append(seq, e)[Len(seq) + 1] = e /\ Len(seq) + 1 \notin DOMAIN seq
OBVIOUS

LEMMA IdleIsARequest == Idle \in Requests /\ Idle.pc = "idle"
BY DEF Idle, Requests

-----------------------------------------------------------------------------
(* Types                                                                   *)

Circuits == [op : {"open_position", "match_positions", "mark_covered"},
             a : Midnight!Openings, b : Midnight!Openings,
             cond : Conditions, slot : {NoCover} \union Slots]

Settles == [address : Addresses, slot : Slots, side : {"YES", "NO"}, size : Nat,
            cond : Conditions, blind : 1..MaxBlinds]

\* What requests name is in the book, and a match names two positions.
Targets ==
    \A r \in Clients :
        /\ request[r].pc \in Targeting => request[r].target \in DOMAIN positions
        /\ request[r].pc = "matching" =>
              request[r].own.id \in DOMAIN positions \ {request[r].target}

\* The backend's own memory, and what is on its way.
Memory ==
    /\ positions \in Seq(Position)
    /\ nextId = Len(positions) + 1 /\ nextCoverSlot \in StartSlot..(StartSlot + MaxSlots)
    /\ booting \in BOOLEAN /\ busy \in BOOLEAN /\ ready \subseteq Wallets
    /\ request \in [Clients -> Requests]
    /\ address \in Addresses /\ blinds \in 0..MaxBlinds
    /\ Targets
    /\ midnightLate \subseteq Circuits /\ polygonLate \subseteq Settles

LEMMA OpeningTyped ==
    ASSUME NEW p \in Position
    PROVE  OpeningOf(p) \in Midnight!Openings
BY DEF OpeningOf, Midnight!Openings, Position

\* What a request sends has the types of the two contracts.
LEMMA CircuitTyped ==
    ASSUME Memory, NEW r \in Clients, request[r].pc \in MidnightPcs
    PROVE  Circuit(request[r]) \in Circuits
<1> DEFINE q == request[r]
<1>1. q \in Requests /\ DOMAIN positions = 1..Len(positions)
      /\ \A i \in DOMAIN positions : positions[i] \in Position
  BY DEF Memory
<1>2. \A p \in Position : p.conditionId \in Conditions
  BY DEF Position
<1>3. CASE q.pc \in {"opening", "opening_other"}
  <2>1. q.own \in Position
    BY <1>1, <1>3, Shapes DEF Owning
  <2>2. Circuit(q) = [op |-> "open_position", a |-> OpeningOf(q.own), b |-> OpeningOf(q.own),
                      cond |-> q.own.conditionId, slot |-> NoCover]
    BY <1>3 DEF Circuit
  <2> QED
    BY <1>2, <2>1, <2>2, OpeningTyped DEF Circuits
<1>4. CASE q.pc = "matching"
  <2>1. q.own \in Position /\ positions[q.target] \in Position
    BY <1>1, <1>4, Shapes DEF Owning, Targeting, Memory, Targets
  <2>2. Circuit(q) = [op |-> "match_positions", a |-> OpeningOf(positions[q.target]),
                      b |-> OpeningOf(q.own), cond |-> q.own.conditionId, slot |-> NoCover]
    BY <1>4 DEF Circuit
  <2> QED
    BY <1>2, <2>1, <2>2, OpeningTyped DEF Circuits
<1>5. CASE q.pc = "marking"
  <2>1. q.slot \in Slots /\ positions[q.target] \in Position
    BY <1>1, <1>5, Shapes DEF Owning, Targeting, Memory, Targets
  <2>2. Circuit(q) = [op |-> "mark_covered", a |-> OpeningOf(positions[q.target]),
                      b |-> OpeningOf(positions[q.target]),
                      cond |-> positions[q.target].conditionId, slot |-> q.slot]
    BY <1>5 DEF Circuit
  <2> QED
    BY <1>2, <2>1, <2>2, OpeningTyped DEF Circuits
<1> QED
  BY <1>3, <1>4, <1>5 DEF MidnightPcs

LEMMA SettleTyped ==
    ASSUME Memory, NEW r \in Clients, request[r].pc \in PolygonPcs
    PROVE  Settle(request[r]) \in Settles
<1> DEFINE q == request[r]
           p == positions[q.target]
<1>1. q \in Requests /\ q.slot \in Slots /\ p \in Position
  BY Shapes DEF Memory, Targets, Targeting
<1>2. p.size \in Nat /\ p.side \in {"YES", "NO"} /\ p.conditionId \in Conditions
      /\ p.blind \in 1..MaxBlinds
  BY <1>1, ServerAssumption DEF Position
<1>3. p.size * Unit \in Nat
  BY <1>2, ServerAssumption
<1> QED
  BY <1>1, <1>2, <1>3 DEF Settle, Settlement, Settles, Memory

\* The book stays as it is.
LEMMA OnlyRequest ==
    ASSUME Memory, NEW r \in Clients, NEW q \in Requests, Become(r, q),
           q.pc \in Targeting => q.target \in DOMAIN positions,
           q.pc = "matching" => q.own.id \in DOMAIN positions \ {q.target},
           UNCHANGED <<positions, nextId, address, booting, ready>>,
           nextCoverSlot' \in StartSlot..(StartSlot + MaxSlots), busy' \in BOOLEAN,
           blinds' \in 0..MaxBlinds, midnightLate' \subseteq Circuits,
           polygonLate' \subseteq Settles
    PROVE  Memory'
<1>1. /\ request' \in [Clients -> Requests] /\ request'[r] = q
      /\ \A s \in Clients : s # r => request'[s] = request[s]
  BY Becomes DEF Memory
<1>2. Targets'
  BY <1>1 DEF Memory, Targets
<1> QED
  BY <1>1, <1>2 DEF Memory

\* One position more.
LEMMA Pushed ==
    ASSUME Memory, NEW own \in Position, Push(own)
    PROVE  /\ positions' \in Seq(Position) /\ nextId' = Len(positions') + 1
           /\ DOMAIN positions = 1..Len(positions) /\ Len(positions) \in Nat
           /\ DOMAIN positions' = DOMAIN positions \union {nextId}
           /\ nextId \notin DOMAIN positions /\ nextId \in Nat
           /\ \A i \in DOMAIN positions : positions'[i] = positions[i]
           /\ positions'[nextId] = [own EXCEPT !.id = nextId]
           /\ [own EXCEPT !.id = nextId] \in Position
<1> DEFINE p == [own EXCEPT !.id = nextId]
<1>1. nextId = Len(positions) + 1 /\ positions \in Seq(Position) /\ Len(positions) \in Nat
      /\ DOMAIN positions = 1..Len(positions)
  BY LenProperties DEF Memory
<1>2. p \in Position
  <2>1. nextId \in Nat
    BY <1>1
  <2> QED
    BY <2>1 DEF Position
<1> HIDE DEF p
<1>3. positions' = Append(positions, p)
  BY DEF Push, p
<1>4. /\ positions' \in Seq(Position) /\ Len(positions') = Len(positions) + 1
      /\ DOMAIN positions' = 1..(Len(positions) + 1)
      /\ \A i \in 1..Len(positions) : positions'[i] = positions[i]
      /\ positions'[Len(positions) + 1] = p
  BY <1>1, <1>2, <1>3, AppendProperties, LenProperties
<1>5. 1..(Len(positions) + 1) = (1..Len(positions)) \union {nextId}
        /\ nextId \notin 1..Len(positions)
  BY <1>1
<1>6. nextId' = Len(positions') + 1
  BY <1>1, <1>4 DEF Push
<1> QED
  BY <1>1, <1>2, <1>4, <1>5, <1>6 DEF p

LEMMA Listing ==
    ASSUME Memory, NEW r \in Clients, NEW own \in Position, Push(own),
           NEW q \in Requests, Become(r, q),
           q.pc \in Targeting => q.target \in DOMAIN positions,
           q.pc = "matching" => q.own.id = nextId,
           UNCHANGED <<address, booting, ready, nextCoverSlot, blinds, midnightLate, polygonLate>>,
           busy' \in BOOLEAN
    PROVE  Memory'
<1>1. /\ request' \in [Clients -> Requests] /\ request'[r] = q
      /\ \A s \in Clients : s # r => request'[s] = request[s]
  BY Becomes DEF Memory
<1>2. Targets'
  <2>1. DOMAIN positions' = DOMAIN positions \union {nextId} /\ nextId \notin DOMAIN positions
    BY Pushed
  <2>2. q.pc = "matching" => q.own.id \in DOMAIN positions' \ {q.target}
    BY <2>1 DEF Targeting
  <2> QED
    BY <1>1, <2>1, <2>2 DEF Memory, Targets
<1> QED
  BY <1>1, <1>2, Pushed DEF Memory

-----------------------------------------------------------------------------
(* Closing positions                                                       *)

Matched(p, j) == [p EXCEPT !.status = "matched", !.matchedWith = j]
Covered(p, slot) == [p EXCEPT !.status = "covered", !.cover = slot]

\* What is sealed of a position, and whose it is, never changes.
Same(p, q) == /\ p.id = q.id /\ p.wallet = q.wallet /\ p.side = q.side /\ p.size = q.size
              /\ p.blind = q.blind /\ p.conditionId = q.conditionId

LEMMA MatchedPosition ==
    ASSUME NEW p \in Position, NEW j \in Nat
    PROVE  /\ Matched(p, j) \in Position /\ Same(Matched(p, j), p)
           /\ Matched(p, j).status = "matched" /\ Matched(p, j).matchedWith = j
           /\ Matched(p, j).cover = p.cover
BY DEF Matched, Same, Position

LEMMA CoveredPosition ==
    ASSUME NEW p \in Position, NEW slot \in Slots
    PROVE  /\ Covered(p, slot) \in Position /\ Same(Covered(p, slot), p)
           /\ Covered(p, slot).status = "covered" /\ Covered(p, slot).cover = slot
           /\ Covered(p, slot).matchedWith = p.matchedWith
BY DEF Covered, Same, Position

LEMMA BothClosed ==
    ASSUME Memory, NEW r \in Clients, At(r, "matching"), CloseBoth(r)
    PROVE  LET t == request[r].target  c == request[r].own.id IN
           /\ t \in DOMAIN positions /\ c \in DOMAIN positions \ {t}
           /\ positions' \in Seq(Position) /\ Len(positions') = Len(positions)
           /\ DOMAIN positions' = DOMAIN positions
           /\ positions'[t] = Matched(positions[t], c)
           /\ positions'[c] = Matched(positions[c], t)
           /\ \A i \in DOMAIN positions \ {t, c} : positions'[i] = positions[i]
<1> DEFINE t == request[r].target  c == request[r].own.id  n == Len(positions)
<1>1. n \in Nat /\ positions \in [1..n -> Position] /\ DOMAIN positions = 1..n
  BY LenProperties DEF Memory
<1>2. t \in 1..n /\ c \in (1..n) \ {t}
  BY <1>1 DEF Memory, Targets, At, Targeting
<1>3. /\ DOMAIN positions' = 1..n
      /\ positions'[t] = Matched(positions[t], c) /\ positions'[c] = Matched(positions[c], t)
      /\ \A i \in (1..n) \ {t, c} : positions'[i] = positions[i]
  <2>1. positions' = [positions EXCEPT ![t].status = "matched", ![t].matchedWith = c,
                                      ![c].status = "matched", ![c].matchedWith = t]
    BY DEF CloseBoth
  <2> HIDE DEF n, t, c
  <2> QED
    BY <1>1, <1>2, <2>1 DEF Matched
<1>4. \A i \in 1..n : positions'[i] \in Position
  <2>1. \A i \in 1..n : positions[i] \in Position /\ i \in Nat
    BY <1>1
  <2> HIDE DEF n, t, c
  <2>2. Matched(positions[t], c) \in Position /\ Matched(positions[c], t) \in Position
    BY <1>2, <2>1, MatchedPosition
  <2> QED
    BY <1>2, <1>3, <2>1, <2>2
<1>5. positions' \in [1..n -> Position]
  BY <1>1, <1>3, <1>4 DEF CloseBoth
<1>6. positions' \in Seq(Position)
  BY <1>1, <1>5 DEF Seq
<1> QED
  BY <1>1, <1>2, <1>3, <1>6, LenProperties

LEMMA OneCovered ==
    ASSUME Memory, NEW r \in Clients, At(r, "marking"), CloseCovered(r)
    PROVE  LET t == request[r].target IN
           /\ t \in DOMAIN positions
           /\ positions' \in Seq(Position) /\ Len(positions') = Len(positions)
           /\ DOMAIN positions' = DOMAIN positions
           /\ positions'[t] = Covered(positions[t], request[r].slot)
           /\ \A i \in DOMAIN positions \ {t} : positions'[i] = positions[i]
<1> DEFINE t == request[r].target  n == Len(positions)
<1>1. n \in Nat /\ positions \in [1..n -> Position] /\ DOMAIN positions = 1..n
  BY LenProperties DEF Memory
<1>2. t \in 1..n /\ request[r].slot \in Slots
  BY <1>1, Shapes DEF Memory, Targets, At, Targeting
<1>3. /\ DOMAIN positions' = 1..n
      /\ positions'[t] = Covered(positions[t], request[r].slot)
      /\ \A i \in (1..n) \ {t} : positions'[i] = positions[i]
  BY <1>1, <1>2 DEF CloseCovered, Covered
<1>4. \A i \in 1..n : positions'[i] \in Position
  BY <1>1, <1>2, <1>3, CoveredPosition
<1>5. positions' \in [1..n -> Position]
  BY <1>1, <1>3, <1>4 DEF CloseCovered
<1>6. positions' \in Seq(Position)
  BY <1>1, <1>5 DEF Seq
<1> QED
  BY <1>1, <1>2, <1>3, <1>6, LenProperties

-----------------------------------------------------------------------------
(* Every step keeps the memory as it should be                             *)

LEMMA NextIsAStep == ASSUME [Next]_vars PROVE AnyStep \/ UNCHANGED vars
BY DEF Next, AnyStep, Bodies

\* A sealed draft is a position that could be listed.
LEMMA DraftIsAPosition ==
    ASSUME NEW w \in Wallets, NEW side \in {"YES", "NO"}, NEW size \in Sizes,
           NEW cond \in Conditions, Memory, blinds < MaxBlinds
    PROVE  /\ Draft(w, side, size, cond) \in Position
           /\ blinds + 1 \in 0..MaxBlinds
<1>1. blinds + 1 \in 1..MaxBlinds
  BY ServerAssumption DEF Memory
<1> QED
  BY <1>1 DEF Draft, Position, NoMatch, NoCover

LEMMA RequestsMade ==
    /\ \A own \in Position : [pc |-> "opening", own |-> own, tx |-> "sent"] \in Requests
    /\ \A own \in Position, t \in Nat :
          [pc |-> "opening_other", own |-> own, target |-> t, tx |-> "sent"] \in Requests
    /\ \A t \in Nat, slot \in Slots :
          [pc |-> "read_free", target |-> t, slot |-> slot, tx |-> "none"] \in Requests
    /\ \A pc \in BodyPcs : [pc |-> pc] \in Requests
BY DEF Requests, BodyPcs, PolygonPcs

LEMMA MemoryInit == Init => Memory
<1> SUFFICES ASSUME Init PROVE Memory
  OBVIOUS
<1>1. positions = <<>> /\ Len(positions) = 0 /\ positions \in Seq(Position)
  BY DEF Init
<1>2. request \in [Clients -> Requests] /\ \A r \in Clients : request[r].pc = "idle"
  BY IdleIsARequest DEF Init
<1>3. Targets
  BY <1>2 DEF Targets, Targeting, PolygonPcs
<1>4. /\ nextCoverSlot \in StartSlot..(StartSlot + MaxSlots)
      /\ address \in Addresses /\ blinds \in 0..MaxBlinds
  BY ServerAssumption DEF Init, Addresses
<1>5. nextId = Len(positions) + 1
  BY <1>1 DEF Init
<1>6. ready \subseteq Wallets /\ midnightLate \subseteq Circuits /\ polygonLate \subseteq Settles
  BY DEF Init
<1>7. booting \in BOOLEAN /\ busy \in BOOLEAN
  BY DEF Init
<1> QED
  BY <1>1, <1>2, <1>3, <1>4, <1>5, <1>6, <1>7 DEF Memory

\* Before the first transaction: what arrives, and how far its body gets it.
LEMMA MemoryBody ==
    ASSUME Memory, NEW r \in Clients, Arrive(r) \/ Body(r)
    PROVE  Memory'
<1>0. Idle \in Requests /\ ~(Idle.pc \in Targeting) /\ Idle.pc # "matching"
      /\ \A pc \in BodyPcs : ~([pc |-> pc].pc \in Targeting) /\ [pc |-> pc].pc # "matching"
  BY IdleIsARequest DEF Targeting, PolygonPcs, BodyPcs
<1>1. CASE Arrive(r)
  <2>1. PICK pc \in BodyPcs : Become(r, [pc |-> pc])
    BY <1>1 DEF Arrive, BodyPcs
  <2>2. [pc |-> pc] \in Requests
    BY DEF Requests
  <2> QED
    BY <1>0, <1>1, <2>1, <2>2, OnlyRequest DEF Arrive, midnight, polygon, Memory
<1>2. CASE Refuse(r) \/ OpenBadBody(r) \/ MatchBadSize(r)
  BY <1>0, <1>2, OnlyRequest DEF Refuse,
                                 OpenBadBody, MatchBadSize, Finish, midnight, polygon, Memory
<1>3. CASE OpenBegin(r)
  <2>1. PICK w \in ready, side \in {"YES", "NO"}, size \in Sizes, cond \in Conditions :
          LET draft == Draft(w, side, size, cond) IN
          SealDraft(r, draft, [pc |-> "opening", own |-> draft, tx |-> "sent"])
    BY <1>3 DEF OpenBegin
  <2> DEFINE draft == Draft(w, side, size, cond)
             q == [pc |-> "opening", own |-> draft, tx |-> "sent"]
  <2>2. w \in Wallets /\ blinds < MaxBlinds /\ blinds' = blinds + 1
    BY <2>1 DEF SealDraft, Memory
  <2>3. draft \in Position /\ blinds' \in 0..MaxBlinds
    BY <2>2, DraftIsAPosition
  <2>4. q \in Requests /\ q.pc \notin Targeting /\ q.pc # "matching"
    BY <2>3, RequestsMade DEF Targeting, PolygonPcs, Requests
  <2> QED
    BY <2>1, <2>3, <2>4, OnlyRequest DEF SealDraft, midnight, polygon, Memory
<1>4. CASE MatchBegin(r)
  <2>1. PICK t \in DOMAIN positions, w \in ready, size \in Sizes : SealOther(r, t, w, size)
    BY <1>4 DEF MatchBegin
  <2> DEFINE draft == Draft(w, Opposite(positions[t].side), size, positions[t].conditionId)
             q == [pc |-> "opening_other", own |-> draft, target |-> t, tx |-> "sent"]
  <2>2. SealDraft(r, draft, q)
    BY <2>1 DEF SealOther
  <2>3. w \in Wallets /\ blinds < MaxBlinds /\ blinds' = blinds + 1
    BY <2>2 DEF SealDraft, Memory
  <2>4. positions[t] \in Position /\ t \in Nat
    BY LenProperties DEF Memory
  <2>5. positions[t].conditionId \in Conditions /\ Opposite(positions[t].side) \in {"YES", "NO"}
    BY <2>4 DEF Position, Opposite
  <2>6. draft \in Position /\ blinds' \in 0..MaxBlinds
    BY <2>3, <2>5, DraftIsAPosition
  <2>7. q \in Requests /\ q.target = t /\ q.pc # "matching"
    BY <2>4, <2>6, RequestsMade
  <2> QED
    BY <2>2, <2>6, <2>7, OnlyRequest DEF SealDraft, midnight, polygon, Memory
<1>5. CASE CoverBegin(r)
  <2>1. PICK t \in DOMAIN positions : StartCover(r, t)
    BY <1>5 DEF CoverBegin
  <2>2. t \in Nat /\ nextCoverSlot \in Slots /\ nextCoverSlot' = nextCoverSlot + 1
    BY <1>5, LenProperties DEF CoverBegin, Memory
  <2>3. nextCoverSlot' \in StartSlot..(StartSlot + MaxSlots)
    BY <2>2, ServerAssumption DEF Slots
  <2> DEFINE q == [pc |-> "read_free", target |-> t, slot |-> nextCoverSlot, tx |-> "none"]
  <2>4. q \in Requests /\ q.target = t /\ q.pc # "matching"
    BY <2>2, RequestsMade
  <2> QED
    BY <1>0, <2>1, <2>3, <2>4, OnlyRequest DEF StartCover, Finish, midnight, polygon, Memory
<1> QED
  BY <1>1, <1>2, <1>3, <1>4, <1>5 DEF Body

MatchingOf(own, target) == [pc |-> "matching", own |-> own, target |-> target, tx |-> "sent"]

LEMMA ProceedsToMatch ==
    ASSUME NEW q \in Requests, q.pc = "opening_other", NEW n \in Nat
    PROVE  /\ [q EXCEPT !.pc = "matching", !.own.id = n, !.tx = "sent"]
                  = MatchingOf([q.own EXCEPT !.id = n], q.target)
           /\ MatchingOf([q.own EXCEPT !.id = n], q.target) \in Requests
           /\ [q.own EXCEPT !.id = n].id = n
<1>1. q \in [pc : {"opening_other", "matching"}, own : Position, target : Nat,
             tx : {"sent", "included"}]
  BY DEF Requests, BodyPcs, PolygonPcs
<1>2. [q.own EXCEPT !.id = n] \in Position /\ [q.own EXCEPT !.id = n].id = n
  BY <1>1 DEF Position
<1> DEFINE own == [q.own EXCEPT !.id = n]
<1>3. q.target \in Nat
  BY <1>1
<1> HIDE DEF own
<1>4. [q EXCEPT !.pc = "matching"]
          = [pc |-> "matching", own |-> q.own, target |-> q.target, tx |-> q.tx]
  BY <1>1
<1>5. [[pc |-> "matching", own |-> q.own, target |-> q.target, tx |-> q.tx] EXCEPT !.own.id = n]
          = [pc |-> "matching", own |-> own, target |-> q.target, tx |-> q.tx]
  BY DEF own
<1>6. [[pc |-> "matching", own |-> own, target |-> q.target, tx |-> q.tx] EXCEPT !.tx = "sent"]
          = MatchingOf(own, q.target)
  BY DEF MatchingOf
<1>8. [q EXCEPT !.pc = "matching", !.own.id = n, !.tx = "sent"] = MatchingOf(own, q.target)
  BY <1>4, <1>5, <1>6
<1>7. MatchingOf(own, q.target) \in Requests
  BY <1>2, <1>3 DEF MatchingOf, Requests, own
<1> QED
  BY <1>2, <1>7, <1>8 DEF own

\* A cover goes on to its next await, or ends there.
LEMMA CoverProceeds ==
    ASSUME Memory, NEW r \in Clients,
           CoverReadFree(r) \/ CoverReadSettled(r) \/ CoverWrite(r) \/ CoverReceipt(r)
    PROVE  /\ request[r].pc \in PolygonPcs
           /\ UNCHANGED <<positions, nextId, nextCoverSlot, booting, ready, midnight, polygon,
                       blinds>>
           /\ \/ Finish(r)
              \/ /\ UNCHANGED busy
                 /\ \E pc \in PolygonPcs \union {"marking"}, tx \in {"none", "sent"} :
                       LET q == CoverAt(pc, request[r].target, request[r].slot, tx) IN
                       q \in Requests /\ Become(r, q)
<1> DEFINE q == request[r]
<1>1. q \in Requests
  BY DEF Memory
<1>2. /\ q.pc \in PolygonPcs
      /\ UNCHANGED <<positions, nextId, nextCoverSlot, booting, ready, midnight, polygon, blinds>>
  BY DEF CoverReadFree, CoverReadSettled, CoverWrite, CoverReceipt, At, PolygonPcs, Proceed
<1>3. ASSUME ~Finish(r)
      PROVE  /\ UNCHANGED busy
             /\ \E pc \in PolygonPcs \union {"marking"}, tx \in {"none", "sent"} :
                   /\ pc = "marking" => tx = "sent"
                   /\ Become(r, [q EXCEPT !.pc = pc, !.tx = tx])
  BY <1>3 DEF CoverReadFree, CoverReadSettled, CoverWrite, CoverReceipt, PolygonPcs, Proceed
<1>4. ASSUME NEW pc \in PolygonPcs \union {"marking"}, NEW tx \in {"none", "sent"},
             pc = "marking" => tx = "sent"
      PROVE  /\ [q EXCEPT !.pc = pc, !.tx = tx] = CoverAt(pc, q.target, q.slot, tx)
             /\ CoverAt(pc, q.target, q.slot, tx) \in Requests
  <2> HIDE DEF q
  <2>1. /\ [q EXCEPT !.pc = pc] = CoverAt(pc, q.target, q.slot, q.tx)
        /\ CoverAt(pc, q.target, q.slot, tx) \in Requests
    BY <1>1, <1>2, <1>4, Proceeds
  <2>2. [CoverAt(pc, q.target, q.slot, q.tx) EXCEPT !.tx = tx]
          = CoverAt(pc, q.target, q.slot, tx)
    BY DEF CoverAt
  <2> QED
    BY <2>1, <2>2
<1>5. CASE ~Finish(r)
  <2>1. PICK pc \in PolygonPcs \union {"marking"}, tx \in {"none", "sent"} :
            /\ pc = "marking" => tx = "sent"
            /\ Become(r, [q EXCEPT !.pc = pc, !.tx = tx])
    BY <1>3, <1>5
  <2>2. /\ CoverAt(pc, q.target, q.slot, tx) \in Requests
        /\ Become(r, CoverAt(pc, q.target, q.slot, tx))
    BY <1>4, <2>1
  <2> QED
    BY <1>2, <1>3, <1>5, <2>2
<1> QED
  BY <1>2, <1>5

\* A match lists its counterpart and goes on to the proof.
LEMMA MatchProceeds ==
    ASSUME Memory, NEW r \in Clients, MatchOpened(r)
    PROVE  /\ request[r].own \in Position /\ request[r].pc = "opening_other"
           /\ request[r].target \in DOMAIN positions
           /\ Push(request[r].own)
           /\ LET q == MatchingOf([request[r].own EXCEPT !.id = nextId], request[r].target) IN
              q \in Requests /\ q.own.id = nextId /\ Become(r, q)
<1> DEFINE q == request[r]
           m == MatchingOf([q.own EXCEPT !.id = nextId], q.target)
<1>1. q.own \in Position /\ q.pc = "opening_other" /\ nextId \in Nat /\ q \in Requests
      /\ q.target \in DOMAIN positions
  BY Shapes, LenProperties DEF MatchOpened, At, Owning, Memory, Targets, Targeting
<1>2. m \in Requests /\ m.own.id = nextId
      /\ [q EXCEPT !.pc = "matching", !.own.id = nextId, !.tx = "sent"] = m
  BY <1>1, ProceedsToMatch DEF MatchingOf
<1> HIDE DEF m
<1> QED
  BY <1>1, <1>2 DEF MatchOpened, ListOther, m

\* What a handler does after an await.
LEMMA MemoryResume ==
    ASSUME Memory, NEW r \in Clients, Resume(r)
    PROVE  Memory'
<1> DEFINE q == request[r]
<1>0. Idle \in Requests /\ Idle.pc \notin Targeting /\ Idle.pc # "matching" /\ q \in Requests
  BY IdleIsARequest DEF Targeting, PolygonPcs, Memory
<1>1. CASE OpenDone(r)
  <2>1. q.own \in Position
    BY <1>0, <1>1, Shapes DEF OpenDone, At, Owning
  <2> QED
    BY <1>0, <1>1, <2>1, Listing DEF OpenDone, Finish, midnight, polygon
<1>2. CASE MatchOpened(r)
  <2> DEFINE m == MatchingOf([q.own EXCEPT !.id = nextId], q.target)
  <2>1. m.target = q.target
    BY DEF MatchingOf
  <2>2. /\ q.own \in Position /\ q.target \in DOMAIN positions /\ Push(q.own)
        /\ m \in Requests /\ m.own.id = nextId /\ Become(r, m)
    BY <1>2, MatchProceeds
  <2> HIDE DEF m
  <2> QED
    BY <1>2, <2>1, <2>2, Listing DEF MatchOpened, ListOther, midnight, polygon, Memory
<1>3. CASE MatchDone(r)
  <2>1. /\ request' \in [Clients -> Requests] /\ request'[r] = Idle
        /\ \A s \in Clients : s # r => request'[s] = request[s]
    BY <1>0, <1>3, Becomes DEF MatchDone, Finish, Memory
  <2>2. positions' \in Seq(Position) /\ Len(positions') = Len(positions)
        /\ DOMAIN positions' = DOMAIN positions
    BY <1>3, BothClosed DEF MatchDone
  <2>3. Targets'
    BY <1>0, <2>1, <2>2 DEF Memory, Targets
  <2> QED
    BY <1>3, <2>1, <2>2, <2>3 DEF MatchDone, Finish, Memory, midnight, polygon
<1>4. CASE CoverDone(r)
  <2>1. /\ request' \in [Clients -> Requests] /\ request'[r] = Idle
        /\ \A s \in Clients : s # r => request'[s] = request[s]
    BY <1>0, <1>4, Becomes DEF CoverDone, CloseCovered, Finish, Memory
  <2>2. positions' \in Seq(Position) /\ Len(positions') = Len(positions)
        /\ DOMAIN positions' = DOMAIN positions
    BY <1>4, OneCovered DEF CoverDone
  <2>3. Targets'
    BY <1>0, <2>1, <2>2 DEF Memory, Targets
  <2>4. midnightLate' \subseteq Circuits
    BY <1>4, CircuitTyped DEF CoverDone, At, MidnightPcs, Memory
  <2> QED
    BY <1>4, <2>1, <2>2, <2>3, <2>4 DEF CoverDone, CloseCovered, Finish, Memory, polygon
<1>6. CASE CoverReadFree(r) \/ CoverReadSettled(r) \/ CoverWrite(r) \/ CoverReceipt(r)
  <2>1. /\ q.pc \in PolygonPcs
        /\ UNCHANGED <<positions, nextId, nextCoverSlot, booting, ready, midnight, polygon, blinds>>
    BY <1>6, CoverProceeds
  <2>2. CASE Finish(r)
    BY <1>0, <2>1, <2>2, OnlyRequest DEF Finish, midnight, polygon, Memory
  <2>3. ASSUME NEW pc \in PolygonPcs \union {"marking"}, NEW tx \in {"none", "sent"},
          UNCHANGED busy,
               CoverAt(pc, q.target, q.slot, tx) \in Requests,
               Become(r, CoverAt(pc, q.target, q.slot, tx))
        PROVE  Memory'
    <3>1. q.target \in DOMAIN positions
      BY <2>1 DEF Memory, Targets, Targeting
    <3>2. CoverAt(pc, q.target, q.slot, tx).pc = pc
          /\ CoverAt(pc, q.target, q.slot, tx).target = q.target /\ pc # "matching"
      BY DEF CoverAt, PolygonPcs
    <3> QED
      BY <2>1, <2>3, <3>1, <3>2, OnlyRequest DEF midnight, polygon, Memory
  <2> QED
    BY <1>6, <2>2, <2>3, CoverProceeds
<1>7. CASE Throw(r)
  BY <1>0, <1>7, OnlyRequest DEF Throw, Finish, midnight, polygon, Memory
<1>8. CASE ThrowAndLeave(r)
  <2>1. midnightLate' \subseteq Circuits
    BY <1>8, CircuitTyped DEF ThrowAndLeave, Memory
  <2>2. polygonLate' \subseteq Settles
    BY <1>8, SettleTyped DEF ThrowAndLeave, Memory, At, PolygonPcs
  <2> QED
    BY <1>0, <1>8, <2>1, <2>2, OnlyRequest DEF ThrowAndLeave, Finish, Memory
<1> QED
  BY <1>1, <1>2, <1>3, <1>4, <1>6, <1>7, <1>8 DEF Resume

\* Boot, a restart, and what the chains do.
LEMMA MemoryRest ==
    ASSUME Memory, Boot \/ Restart \/ MidnightBlock \/ PolygonBlock \/ Trading
    PROVE  Memory'
<1>1. CASE Boot
  BY <1>1 DEF Boot, BootOne, BootDone, Memory, Targets, midnight, polygon
<1>2. CASE Restart
  <2>1. positions' = <<>> /\ Len(positions') = 0 /\ positions' \in Seq(Position)
        /\ nextId' = Len(positions') + 1
    BY <1>2 DEF Restart, ForgetBook
  <2>2. request' \in [Clients -> Requests] /\ \A r \in Clients : request'[r].pc = "idle"
    BY <1>2, IdleIsARequest DEF Restart
  <2>3. Targets'
    BY <2>2 DEF Targets, Targeting, PolygonPcs
  <2>4. nextCoverSlot' \in StartSlot..(StartSlot + MaxSlots) /\ address' \in Addresses
    BY <1>2, ServerAssumption DEF Restart, ForgetBook, NewContract, Memory, Addresses
  <2>5. midnightLate' \subseteq Circuits
    BY <1>2, CircuitTyped DEF Restart, NewContract, Critical, Sent, Memory
  <2>6. polygonLate' \subseteq Settles
    BY <1>2, SettleTyped DEF Restart, Critical, Sent, Memory, PolygonPcs
  <2> QED
    BY <1>2, <2>1, <2>2, <2>3, <2>4, <2>5, <2>6 DEF Restart, Memory
<1>3. CASE MidnightBlock
  <2>1. ASSUME NEW r \in Clients, request[r].pc \in MidnightPcs,
               Become(r, [request[r] EXCEPT !.tx = "included"]), UNCHANGED midnightLate
        PROVE  Memory'
    <3> DEFINE q == [request[r] EXCEPT !.tx = "included"]
    <3>1. request[r] \in Requests
      BY DEF Memory
    <3>2. /\ q \in Requests /\ q.pc = request[r].pc
          /\ q.pc \in Targeting => q.target = request[r].target
          /\ q.pc \in Owning => q.own = request[r].own
      BY <2>1, <3>1, Answered
    <3> HIDE DEF q
    <3>3. /\ q.pc \in Targeting => q.target \in DOMAIN positions
          /\ q.pc = "matching" => q.own.id \in DOMAIN positions \ {q.target}
      BY <3>2 DEF Memory, Targets, Targeting, Owning
    <3>4. Become(r, q)
      BY <2>1 DEF q
    <3> QED
      BY <1>3, <2>1, <3>2, <3>3, <3>4, OnlyRequest DEF MidnightBlock, Memory, polygon
  <2>2. CASE UNCHANGED request /\ midnightLate' \subseteq midnightLate
    BY <1>3, <2>2 DEF MidnightBlock, Memory, Targets, polygon
  <2> QED
    BY <1>3, <2>1, <2>2 DEF MidnightBlock
<1>4. CASE PolygonBlock
  <2>1. ASSUME NEW r \in Clients, NEW tx \in {"settled", "reverted"}, At(r, "receipt"),
               Become(r, [request[r] EXCEPT !.tx = tx]), UNCHANGED polygonLate
        PROVE  Memory'
    <3> DEFINE q == CoverAt("receipt", request[r].target, request[r].slot, tx)
    <3>1. request[r] \in Requests /\ request[r].pc = "receipt"
      BY <2>1 DEF Memory, At
    <3>2. q \in Requests /\ [request[r] EXCEPT !.tx = tx] = q
      BY <3>1, Proceeds DEF PolygonPcs
    <3>3. q.target \in DOMAIN positions /\ q.pc # "matching"
      BY <3>1 DEF CoverAt, Memory, Targets, Targeting, PolygonPcs
    <3> HIDE DEF q
    <3> QED
      BY <1>4, <2>1, <3>2, <3>3, OnlyRequest DEF PolygonBlock, Memory, midnight
  <2>2. CASE UNCHANGED request /\ polygonLate' \subseteq polygonLate
    BY <1>4, <2>2 DEF PolygonBlock, Memory, Targets, midnight
  <2> QED
    BY <1>4, <2>1, <2>2 DEF PolygonBlock
<1>5. CASE Trading
  BY <1>5 DEF Trading, memory, midnight, Memory, Targets
<1> QED
  BY <1>1, <1>2, <1>3, <1>4, <1>5

LEMMA MemoryStep == ASSUME Memory, [Next]_vars PROVE Memory'
<1>1. CASE UNCHANGED vars
  BY <1>1 DEF vars, memory, midnight, polygon, Memory, Targets
<1> QED
  BY <1>1, NextIsAStep, MemoryBody, MemoryResume, MemoryRest DEF AnyStep

\* Every reachable memory is as it should be.
LEMMA MemoryAlways == Spec => []Memory
BY MemoryInit, MemoryStep, PTL DEF Spec

-----------------------------------------------------------------------------
(* Booting                                                                 *)

\* What BootingIsQuiet rests on: nothing has got past its body either.
Quiet ==
    booting => /\ positions = <<>>
               /\ \A r \in Clients : request[r].pc \in {"idle", "cover_body"}

LEMMA QuietInit == Init => Quiet
BY IdleIsARequest DEF Init, Quiet

LEMMA QuietStep == ASSUME Memory, Quiet, [Next]_vars PROVE Quiet'
<1>0. Idle.pc = "idle" /\ request \in [Clients -> Requests]
  BY IdleIsARequest DEF Memory
<1>1. CASE UNCHANGED vars
  BY <1>1 DEF vars, memory, Quiet
<1>2. CASE Boot
  BY <1>2 DEF Boot, BootOne, BootDone, Quiet
<1>3. CASE Restart
  BY <1>0, <1>3 DEF Restart, ForgetBook, Quiet
<1>4. CASE MidnightBlock
  BY <1>4 DEF MidnightBlock, Quiet, MidnightPcs
<1>5. CASE PolygonBlock \/ Trading
  BY <1>5 DEF PolygonBlock, Trading, memory, Quiet, At
<1>6. ASSUME NEW r \in Clients, Arrive(r) \/ Refuse(r) PROVE Quiet'
  <2>1. UNCHANGED <<positions, booting>>
    BY <1>6 DEF Arrive, Refuse
  <2>2. booting => \E pc \in {"idle", "cover_body"} : request' = [request EXCEPT ![r] = [pc |-> pc]]
    BY <1>6 DEF Arrive, Refuse, Become, Idle
  <2> QED
    BY <1>0, <2>1, <2>2 DEF Quiet
<1>7. ASSUME NEW r \in Clients, OpenBegin(r) \/ MatchBegin(r) \/ OpenBadBody(r) \/ MatchBadSize(r)
      PROVE  Quiet'
  <2>1. request[r].pc \notin {"idle", "cover_body"}
    BY <1>7 DEF OpenBegin, MatchBegin, OpenBadBody, MatchBadSize, At
  <2>2. UNCHANGED booting
    BY <1>7 DEF OpenBegin, MatchBegin, OpenBadBody, MatchBadSize, SealOther, SealDraft
  <2> QED
    BY <2>1, <2>2 DEF Quiet
<1>8. ASSUME NEW r \in Clients, CoverBegin(r) PROVE Quiet'
  <2>1. positions # <<>> /\ UNCHANGED booting
    BY <1>8 DEF CoverBegin, StartCover
  <2> QED
    BY <2>1 DEF Quiet
<1>9. ASSUME NEW r \in Clients, Resume(r) PROVE Quiet'
  <2>1. request[r].pc \notin {"idle", "cover_body"}
    BY <1>9 DEF Resume, OpenDone, MatchOpened, MatchDone, CoverReadFree, CoverReadSettled,
                CoverWrite, CoverReceipt, CoverDone, Throw, ThrowAndLeave, At, Critical,
                MidnightPcs, PolygonPcs
  <2>2. UNCHANGED booting
    BY <1>9 DEF Resume, OpenDone, MatchOpened, ListOther, MatchDone, CoverReadFree,
                CoverReadSettled, CoverWrite, CoverReceipt, CoverDone, CloseCovered, Throw,
                ThrowAndLeave, Proceed
  <2> QED
    BY <2>1, <2>2 DEF Quiet
<1> QED
  BY <1>1, <1>2, <1>3, <1>4, <1>5, <1>6, <1>7, <1>8, <1>9, NextIsAStep DEF AnyStep, Body

\* While the wallets boot the book is empty and nothing waits for a
\* transaction, whatever the faults and however requests overlap, although
\* /api/cover does not look at the boot (server.ts:555).
THEOREM CoverNeedsNoBootCheck == Spec => []BootingIsQuiet
<1>1. Init => Memory /\ Quiet
  BY MemoryInit, QuietInit
<1>2. Memory /\ Quiet /\ [Next]_vars => Memory' /\ Quiet'
  BY MemoryStep, QuietStep
<1>3. Quiet => BootingIsQuiet
  BY DEF Quiet, BootingIsQuiet, Critical, MidnightPcs, PolygonPcs
<1> QED
  BY <1>1, <1>2, <1>3, PTL DEF Spec

-----------------------------------------------------------------------------
(* One at a time                                                           *)

\* Requests that do not overlap: at most one is anywhere but idle.
Alone ==
    /\ \A r, s \in Clients : request[r].pc # "idle" /\ request[s].pc # "idle" => r = s
    /\ busy <=> Critical # {}

LEMMA AloneInit == Init => Alone
BY IdleIsARequest DEF Init, Alone, Critical, MidnightPcs, PolygonPcs

\* A step of the one request that is not idle, or of one that was alone idle.
LEMMA StaysAlone ==
    ASSUME Memory, Alone, NEW r \in Clients, NEW q \in Requests, Become(r, q),
           \A s \in Clients : s # r => request[s].pc = "idle",
           busy' <=> q.pc \in MidnightPcs \union PolygonPcs
    PROVE  Alone'
<1>1. /\ request'[r] = q
      /\ \A s \in Clients : s # r => request'[s].pc = "idle"
  BY Becomes DEF Memory
<1>2. Critical' # {} <=> q.pc \in MidnightPcs \union PolygonPcs
  BY <1>1 DEF Critical, MidnightPcs, PolygonPcs
<1> QED
  BY <1>1, <1>2 DEF Alone

LEMMA AloneStep ==
    ASSUME "overlap" \notin Faults, Memory, Alone, [Next]_vars
    PROVE  Alone'
<1> DEFINE Sends == MidnightPcs \union PolygonPcs
<1>0. Idle \in Requests /\ Idle.pc = "idle" /\ request \in [Clients -> Requests]
      /\ "idle" \notin Sends /\ \A pc \in BodyPcs : pc \notin Sends /\ pc # "idle"
  BY IdleIsARequest DEF Memory, MidnightPcs, PolygonPcs, BodyPcs
<1>1. CASE UNCHANGED vars
  BY <1>1 DEF vars, memory, Alone, Critical
<1>2. CASE Boot \/ Trading
  BY <1>2 DEF Boot, BootOne, BootDone, Trading, memory, Alone, Critical
<1>3. CASE Restart
  BY <1>0, <1>3 DEF Restart, Alone, Critical
<1>4. CASE MidnightBlock
  <2>1. UNCHANGED busy /\ \A s \in Clients : request'[s].pc = request[s].pc
    <3>1. ASSUME NEW r \in Clients, request[r].pc \in MidnightPcs,
                 Become(r, [request[r] EXCEPT !.tx = "included"])
          PROVE  \A s \in Clients : request'[s].pc = request[s].pc
      BY <1>0, <3>1, Answered DEF Become
    <3> QED
      BY <1>4, <3>1 DEF MidnightBlock
  <2> QED
    BY <2>1 DEF Alone, Critical
<1>5. CASE PolygonBlock
  <2>1. UNCHANGED busy /\ \A s \in Clients : request'[s].pc = request[s].pc
    <3>1. ASSUME NEW r \in Clients, NEW tx \in {"settled", "reverted"}, At(r, "receipt"),
                 Become(r, [request[r] EXCEPT !.tx = tx])
          PROVE  \A s \in Clients : request'[s].pc = request[s].pc
      <4>1. request[r] \in Requests /\ request[r].pc \in PolygonPcs
        BY <1>0, <3>1 DEF At, PolygonPcs
      <4>2. [request[r] EXCEPT !.tx = tx].pc = request[r].pc
        BY <4>1, Proceeds DEF CoverAt
      <4> QED
        BY <1>0, <3>1, <4>2 DEF Become
    <3> QED
      BY <1>5, <3>1 DEF PolygonBlock
  <2> QED
    BY <2>1 DEF Alone, Critical
<1>6. ASSUME NEW r \in Clients, Arrive(r), Bodies = {} PROVE Alone'
  <2>1. ~busy /\ Critical = {}
    BY <1>6 DEF Arrive, Alone
  <2>2. \A s \in Clients : request[s].pc = "idle"
    BY <1>0, <1>6, <2>1, Shapes DEF Bodies, Critical
  <2>3. PICK pc \in BodyPcs : Become(r, [pc |-> pc])
    BY <1>6 DEF Arrive, BodyPcs
  <2>4. [pc |-> pc] \in Requests /\ [pc |-> pc].pc = pc /\ pc \notin Sends
    BY <1>0, RequestsMade
  <2>5. busy' <=> pc \in Sends
    BY <1>6, <2>1, <2>4 DEF Arrive
  <2> QED
    BY <2>2, <2>3, <2>4, <2>5, StaysAlone
<1>7. ASSUME NEW r \in Clients, Body(r) PROVE Alone'
  <2>1. request[r].pc \in BodyPcs
    BY <1>7 DEF Body, Refuse, OpenBegin, MatchBegin,
                OpenBadBody, MatchBadSize, CoverBegin, At, BodyPcs
  <2>2. \A s \in Clients : s # r => request[s].pc = "idle"
    BY <1>0, <2>1 DEF Alone
  <2>3. Critical = {} /\ ~busy
    BY <1>0, <2>1, <2>2 DEF Alone, Critical
  <2>4. \E q \in Requests : Become(r, q) /\ (busy' <=> q.pc \in Sends)
    <3>1. request' \in [Clients -> Requests]
      BY <1>7, MemoryBody DEF Memory
    <3>2. CASE Refuse(r) \/ OpenBadBody(r) \/ MatchBadSize(r)
      BY <1>0, <2>3, <3>2 DEF Refuse, OpenBadBody, MatchBadSize, Finish
    <3>3. ASSUME NEW draft, NEW state, SealDraft(r, draft, state), state.pc \in Sends
          PROVE  \E q \in Requests : Become(r, q) /\ (busy' <=> q.pc \in Sends)
      <4>1. request'[r] = state
        BY <1>0, <3>3 DEF SealDraft, Become
      <4> QED
        BY <3>1, <3>3, <4>1 DEF SealDraft
    <3>4. CASE OpenBegin(r)
      BY <3>3, <3>4 DEF OpenBegin, MidnightPcs
    <3>5. CASE MatchBegin(r)
      BY <3>3, <3>5 DEF MatchBegin, SealOther, MidnightPcs
    <3>6. CASE CoverBegin(r)
      <4>1. PICK t \in DOMAIN positions : StartCover(r, t)
        BY <3>6 DEF CoverBegin
      <4> DEFINE q == [pc |-> "read_free", target |-> t, slot |-> nextCoverSlot, tx |-> "none"]
      <4>2. nextCoverSlot \in Slots /\ t \in Nat
        BY <3>6, LenProperties DEF CoverBegin, Memory
      <4>3. q \in Requests /\ q.pc \in Sends
        BY <4>2, RequestsMade DEF PolygonPcs
      <4> QED
        BY <1>0, <4>1, <4>3 DEF StartCover, Finish
    <3> QED
      BY <1>7, <3>2, <3>4, <3>5, <3>6 DEF Body
  <2> QED
    BY <2>2, <2>4, StaysAlone
<1>8. ASSUME NEW r \in Clients, Resume(r) PROVE Alone'
  <2>1. request[r].pc \in Sends
    BY <1>8 DEF Resume, OpenDone, MatchOpened, MatchDone, CoverReadFree, CoverReadSettled,
                CoverWrite, CoverReceipt, CoverDone, Throw, ThrowAndLeave, At, Critical,
                MidnightPcs, PolygonPcs
  <2>2. (\A s \in Clients : s # r => request[s].pc = "idle") /\ busy
    BY <1>0, <2>1 DEF Alone, Critical
  <2>3. \E q \in Requests : Become(r, q) /\ (busy' <=> q.pc \in Sends)
    <3>1. request' \in [Clients -> Requests]
      BY <1>8, MemoryResume DEF Memory
    <3>2. CASE Finish(r)
      BY <1>0, <3>2 DEF Finish
    <3>3. CASE CoverReadFree(r) \/ CoverReadSettled(r) \/ CoverWrite(r) \/ CoverReceipt(r)
      <4>1. ASSUME NEW pc \in PolygonPcs \union {"marking"}, NEW tx,
                   CoverAt(pc, request[r].target, request[r].slot, tx) \in Requests,
                   Become(r, CoverAt(pc, request[r].target, request[r].slot, tx)), UNCHANGED busy
            PROVE  \E q \in Requests : Become(r, q) /\ (busy' <=> q.pc \in Sends)
        <5>1. CoverAt(pc, request[r].target, request[r].slot, tx).pc = pc /\ pc \in Sends
          BY DEF CoverAt, MidnightPcs
        <5> QED
          BY <2>2, <4>1, <5>1
      <4> QED
        BY <3>2, <3>3, <4>1, CoverProceeds
    <3>4. CASE MatchOpened(r)
      <4>1. \A own, target : MatchingOf(own, target).pc \in Sends
        BY DEF MatchingOf, MidnightPcs
      <4> QED
        BY <2>2, <3>4, <4>1, MatchProceeds DEF MatchOpened, ListOther
    <3> QED
      BY <1>8, <3>2, <3>3, <3>4
         DEF Resume, OpenDone, MatchDone, CoverDone, CloseCovered, Throw, ThrowAndLeave
  <2> QED
    BY <2>2, <2>3, StaysAlone
<1>9. Next => \/ Bodies = {} /\ AnyStep
              \/ \E r \in Clients : Body(r)
  BY DEF Next, Bodies
<1> QED
  BY <1>1, <1>2, <1>3, <1>4, <1>5, <1>6, <1>7, <1>8, <1>9 DEF AnyStep

\* Requests that do not overlap take their turns: at most one is past the busy
\* check, busy says whether one is, and every way a handler ends puts it back
\* (server.ts:441, 456, 507, 560 and the finally of each handler).
THEOREM TakeTurns ==
    ASSUME "overlap" \notin Faults
    PROVE  Spec => []OneAtATime
<1>1. Init => Memory /\ Alone
  BY MemoryInit, AloneInit
<1>2. Memory /\ Alone /\ [Next]_vars => Memory' /\ Alone'
  BY MemoryStep, AloneStep
<1>3. Alone => OneAtATime
  <2> SUFFICES ASSUME Alone PROVE Cardinality(Critical) <= 1
    BY DEF Alone, OneAtATime
  <2>1. CASE Critical = {}
    BY <2>1, FS_EmptySet
  <2>2. CASE Critical # {}
    <3>1. PICK r \in Critical : TRUE
      BY <2>2
    <3>2. Critical = {r}
      BY <3>1 DEF Alone, Critical, MidnightPcs, PolygonPcs
    <3> QED
      BY <3>2, FS_Singleton
  <2> QED
    BY <2>1, <2>2
<1> QED
  BY <1>1, <1>2, <1>3, PTL DEF Spec

-----------------------------------------------------------------------------
(* What a step does to the two contracts                                   *)

LEMMA LedgerSteps ==
    ASSUME Memory, [Next]_vars
    PROVE  \/ UNCHANGED ledger
           \/ Restart /\ Midnight!deploy
           \/ MidnightBlock /\ \E c \in Circuits : Include(c)
<1>1. CASE MidnightBlock
  BY <1>1, CircuitTyped DEF MidnightBlock, Memory
<1>2. CASE Restart
  BY <1>2 DEF Restart, NewContract
<1>3. CASE Boot \/ PolygonBlock \/ Trading \/ UNCHANGED vars
  BY <1>3 DEF Boot, BootOne, BootDone, PolygonBlock, Trading, vars, midnight
<1>4. ASSUME NEW r \in Clients, Arrive(r) \/ Body(r) PROVE UNCHANGED ledger
  BY <1>4 DEF Arrive, Body, Refuse, OpenBegin, MatchBegin,
              OpenBadBody, MatchBadSize, CoverBegin, SealOther,
              SealDraft, StartCover, midnight
<1>5. ASSUME NEW r \in Clients, Resume(r) PROVE UNCHANGED ledger
  BY <1>5 DEF Resume, OpenDone, MatchOpened, ListOther, MatchDone, CoverReadFree, CoverReadSettled,
              CoverWrite, CoverReceipt, CoverDone, CloseCovered, Throw, ThrowAndLeave, Proceed,
              midnight
<1> QED
  BY <1>1, <1>2, <1>3, <1>4, <1>5, NextIsAStep DEF AnyStep

Fill(s) == [address |-> s.address, slot |-> s.slot, blind |-> s.blind]

LEMMA VaultSteps ==
    ASSUME Memory, [Next]_vars
    PROVE  \/ UNCHANGED <<vault, fills>>
           \/ PolygonBlock /\ \E s \in Settles : Mine(s, "settled")
           \/ /\ Trading
              /\ UNCHANGED fills
              /\ \E v \in Deposits : Vault!deposit(Trader, v) \/ Vault!withdraw(Trader, v)
<1>1. CASE PolygonBlock
  BY <1>1, SettleTyped DEF PolygonBlock, Memory, At, PolygonPcs, Mine
<1>2. CASE Trading
  BY <1>2 DEF Trading
<1>3. CASE Boot \/ Restart \/ MidnightBlock \/ UNCHANGED vars
  BY <1>3 DEF Boot, BootOne, BootDone, Restart, MidnightBlock, vars, polygon
<1>4. ASSUME NEW r \in Clients, Arrive(r) \/ Body(r) PROVE UNCHANGED <<vault, fills>>
  BY <1>4 DEF Arrive, Body, Refuse, OpenBegin, MatchBegin,
              OpenBadBody, MatchBadSize, CoverBegin, SealOther,
              SealDraft, StartCover, polygon
<1>5. ASSUME NEW r \in Clients, Resume(r) PROVE UNCHANGED <<vault, fills>>
  BY <1>5 DEF Resume, OpenDone, MatchOpened, ListOther, MatchDone, CoverReadFree, CoverReadSettled,
              CoverWrite, CoverReceipt, CoverDone, CloseCovered, Throw, ThrowAndLeave, Proceed,
              polygon
<1> QED
  BY <1>1, <1>2, <1>3, <1>4, <1>5, NextIsAStep DEF AnyStep

LEMMA LedgerTyped ==
    ASSUME Midnight!TypeOK, NEW c \in Circuits, Include(c)
    PROVE  Midnight!TypeOK'
<1>1. c.a \in Midnight!Openings /\ c.b \in Midnight!Openings /\ c.cond \in Conditions
  BY DEF Circuits
<1>2. c.a.size \in Nat /\ c.b.size \in Nat
  BY <1>1, ServerAssumption DEF Midnight!Openings
<1>3. ASSUME NEW op \in Midnight!Ops, NEW a \in Midnight!Openings, NEW b \in Midnight!Openings,
             Midnight!Record(Midnight!Call(op, a, b))
      PROVE  history' \in Seq(Midnight!Calls) /\ round' \in Nat
  <2>1. Midnight!Call(op, a, b) \in Midnight!Calls
    BY DEF Midnight!Call, Midnight!Calls
  <2>2. history \in Seq(Midnight!Calls) /\ round \in Nat
    BY DEF Midnight!TypeOK
  <2> QED
    BY <1>3, <2>1, <2>2, AppendProperties DEF Midnight!Record
<1>4. CASE Midnight!open_position(c.cond, c.a)
  <2>1. history' \in Seq(Midnight!Calls) /\ round' \in Nat
    BY <1>1, <1>3, <1>4 DEF Midnight!open_position, Midnight!Ops
  <2> QED
    BY <1>1, <1>4, <2>1 DEF Midnight!open_position, Midnight!TypeOK, Midnight!position_commitment
<1>5. CASE Midnight!match_positions(c.a, c.b)
  <2>1. history' \in Seq(Midnight!Calls) /\ round' \in Nat
    BY <1>1, <1>3, <1>5 DEF Midnight!match_positions, Midnight!AddMatched, Midnight!Ops
  <2>2. Midnight!CrossedSize(c.a, c.b) \in Nat
    BY <1>2 DEF Midnight!CrossedSize
  <2>3. matched_notional \in 0..1000 /\ matched \in Nat
    BY DEF Midnight!TypeOK
  <2>4. /\ matched_notional + Midnight!CrossedSize(c.a, c.b) <= 1000
        /\ matched_notional' = matched_notional + Midnight!CrossedSize(c.a, c.b)
        /\ matched' = matched + 1
    BY <1>5 DEF Midnight!match_positions, Midnight!AddMatched
  <2>5. matched_notional' \in 0..1000 /\ matched' \in Nat
    BY <2>2, <2>3, <2>4
  <2> QED
    BY <1>5, <2>1, <2>5 DEF Midnight!match_positions, Midnight!AddMatched, Midnight!TypeOK
<1>6. CASE Midnight!mark_covered(c.a)
  <2>1. history' \in Seq(Midnight!Calls) /\ round' \in Nat
    BY <1>1, <1>3, <1>6 DEF Midnight!mark_covered, Midnight!Ops
  <2>3. covered_notional \in 0..1000
    BY DEF Midnight!TypeOK
  <2>4. \E n \in Nat : covered_notional' = covered_notional + n /\ covered_notional + n <= 1000
    BY <1>2, <1>6 DEF Midnight!mark_covered
  <2>2. covered_notional' \in 0..1000
    BY <2>3, <2>4
  <2> QED
    BY <1>6, <2>1, <2>2 DEF Midnight!mark_covered, Midnight!TypeOK
<1> QED
  BY <1>4, <1>5, <1>6 DEF Include

\* Nobody calls the vault from inside a withdraw here, and its books balance.
VaultBooks ==
    /\ executor \in {Operator, Trader} /\ deposits \in [{Operator, Trader} -> Nat]
    /\ totalDeposits \in Nat /\ committed \in Nat /\ settlements \in Seq(Vault!Settlement)
    /\ settled \in SUBSET Vault!Keys /\ released \in SUBSET Vault!Keys /\ exact \in BOOLEAN
    /\ balance = totalDeposits /\ frames = <<>>

LEMMA BooksAreTyped == ASSUME VaultBooks PROVE Vault!TypeOK
<1>1. frames \in Seq(Vault!Storage)
  BY DEF VaultBooks
<1> QED
  BY <1>1 DEF VaultBooks, Vault!TypeOK, Vault!Saved, Vault!Storage

SettlementOn(s) == [midnightContract |-> s.address, epoch |-> s.slot, conditionId |-> s.cond,
                    side |-> s.side, size |-> s.size, crossed |-> 0]

LEMMA SettlementRecorded ==
    ASSUME VaultBooks, NEW s \in Settles, Mine(s, "settled")
    PROVE  /\ SettlementOn(s) \in Vault!Settlement
           /\ settlements' = Append(settlements, SettlementOn(s))
           /\ settled' = settled \union {<<s.address, s.slot>>}
           /\ <<s.address, s.slot>> \in Vault!Keys \ settled
           /\ committed' = committed + s.size
           /\ fills' = fills \union {Fill(s)}
           /\ UNCHANGED <<executor, deposits, totalDeposits, released, exact, balance, frames>>
<1>1. /\ s.address \in Addresses /\ s.slot \in Slots /\ s.cond \in Conditions
      /\ s.side \in {"YES", "NO"} /\ s.size \in Nat
  BY DEF Settles
<1>2. SettlementOn(s) \in Vault!Settlement /\ <<s.address, s.slot>> \in Vault!Keys
  BY <1>1 DEF SettlementOn, Vault!Settlement, Vault!Keys, Vault!Side
<1> QED
  BY <1>2 DEF Mine, Vault!settleResidual, Vault!RecordSettlement, SettlementOn, Fill

LEMMA VaultStep == ASSUME Memory, VaultBooks, [Next]_vars PROVE VaultBooks'
<1>1. CASE UNCHANGED <<vault, fills>>
  BY <1>1 DEF vault, VaultBooks
<1>2. ASSUME NEW s \in Settles, Mine(s, "settled") PROVE VaultBooks'
  <2>1. s.size \in Nat
    BY DEF Settles
  <2>4. /\ SettlementOn(s) \in Vault!Settlement
        /\ settlements' = Append(settlements, SettlementOn(s))
        /\ settled' = settled \union {<<s.address, s.slot>>}
        /\ <<s.address, s.slot>> \in Vault!Keys
        /\ committed' = committed + s.size
        /\ UNCHANGED <<executor, deposits, totalDeposits, released, exact, balance, frames>>
    BY <1>2, SettlementRecorded
  <2>2. settlements' \in Seq(Vault!Settlement)
    BY <2>4, AppendProperties DEF VaultBooks
  <2>3. settled' \in SUBSET Vault!Keys /\ committed' \in Nat
    BY <2>1, <2>4 DEF VaultBooks
  <2> QED
    BY <2>2, <2>3, <2>4 DEF VaultBooks
<1>3. ASSUME NEW v \in Deposits, Vault!deposit(Trader, v) PROVE VaultBooks'
  <2>1. v \in Nat
    BY ServerAssumption
  <2> QED
    BY <1>3, <2>1 DEF Vault!deposit, VaultBooks
<1>4. ASSUME NEW v \in Deposits, Vault!withdraw(Trader, v) PROVE VaultBooks'
  <2>1. v \in Nat /\ v <= deposits[Trader] /\ v <= totalDeposits
    BY <1>4, ServerAssumption
       DEF Vault!withdraw, Vault!WithdrawDebit, Vault!freeCollateral, VaultBooks
  <2>2. /\ deposits' \in [{Operator, Trader} -> Nat] /\ totalDeposits' \in Nat /\ balance' \in Nat
        /\ balance' = totalDeposits'
    BY <1>4, <2>1 DEF Vault!withdraw, Vault!WithdrawDebit, Vault!Debit, VaultBooks
  <2> QED
    BY <1>4, <2>2 DEF Vault!withdraw, Vault!WithdrawDebit, Vault!Debit, VaultBooks
<1> QED
  BY <1>1, <1>2, <1>3, <1>4, VaultSteps

LEMMA LedgerStep == ASSUME Memory, Midnight!TypeOK, [Next]_vars PROVE Midnight!TypeOK'
<1>1. CASE UNCHANGED ledger
  BY <1>1 DEF ledger, Midnight!TypeOK
<1>2. CASE Midnight!deploy
  <2>1. history' \in Seq(Midnight!Calls)
    BY <1>2 DEF Midnight!deploy
  <2> QED
    BY <1>2, <2>1 DEF Midnight!deploy, Midnight!TypeOK
<1> QED
  BY <1>1, <1>2, LedgerSteps, LedgerTyped

LEMMA LedgerInit == Init => Midnight!TypeOK
<1> SUFFICES ASSUME Init PROVE Midnight!TypeOK
  OBVIOUS
<1>1. history \in Seq(Midnight!Calls)
  BY DEF Init, Midnight!Init
<1> QED
  BY <1>1 DEF Init, Midnight!Init, Midnight!TypeOK

LEMMA VaultInit == Init => VaultBooks
<1> SUFFICES ASSUME Init PROVE VaultBooks
  OBVIOUS
<1>1. settlements \in Seq(Vault!Settlement)
  BY DEF Init, Vault!Init
<1> QED
  BY <1>1 DEF Init, Vault!Init, VaultBooks

\* Everything the backend remembers and both contracts store has the type it
\* is meant to have, whatever the faults and however handlers interleave.
THEOREM ServerTypes == Spec => []TypeOK
<1>1. Init => Midnight!TypeOK
  BY LedgerInit
<1>2. Init => VaultBooks
  BY VaultInit
<1>3. Memory /\ VaultBooks /\ Midnight!TypeOK /\ [Next]_vars
        => Memory' /\ VaultBooks' /\ Midnight!TypeOK'
  BY MemoryStep, VaultStep, LedgerStep
<1>4. Memory /\ VaultBooks /\ Midnight!TypeOK => TypeOK
  BY LenProperties, BooksAreTyped DEF Memory, TypeOK
<1> QED
  BY <1>1, <1>2, <1>3, <1>4, MemoryInit, PTL DEF Spec

-----------------------------------------------------------------------------
(* What a step does to the book and the requests                           *)

Drafting == {"opening", "opening_other"}

\* Two positions that may be matched.
Opposed(p, q) == p.side # q.side /\ p.wallet # q.wallet /\ p.conditionId = q.conditionId

\* A request ends, or has got no further than its body.
Ends(r) == \E q \in Requests :
    /\ q.pc \in {"idle"} \union BodyPcs
    /\ Become(r, q) /\ nextCoverSlot <= nextCoverSlot' /\ UNCHANGED <<positions, blinds>>

\* It seals a fresh draft.
Seals(r) == \E q \in Requests :
    /\ q.pc \in Drafting /\ q.tx = "sent"
    /\ \E w \in Wallets, side \in {"YES", "NO"}, size \in Sizes, cond \in Conditions :
          q.own = Draft(w, side, size, cond)
    /\ q.pc = "opening_other" => /\ q.target \in DOMAIN positions
                                 /\ positions[q.target].status = "open"
                                 /\ Opposed(q.own, positions[q.target])
    /\ Become(r, q) /\ blinds' = blinds + 1 /\ UNCHANGED <<positions, nextCoverSlot>>

\* It takes a settlement slot.
Takes(r) == \E q \in Requests :
    /\ q.pc = "read_free" /\ q.slot = nextCoverSlot
    /\ q.target \in DOMAIN positions /\ positions[q.target].status = "open"
    /\ Become(r, q) /\ nextCoverSlot' = nextCoverSlot + 1 /\ UNCHANGED <<positions, blinds>>

\* Its cover goes on.
Goes(r) == \E q \in Requests :
    /\ request[r].pc \in PolygonPcs /\ q.pc \in PolygonPcs \union {"marking"}
    /\ q.target = request[r].target /\ q.slot = request[r].slot
    /\ Become(r, q) /\ UNCHANGED <<positions, nextCoverSlot, blinds>>

\* Its transaction on Midnight is included.
Lands(r) == \E q \in Requests :
    /\ request[r].pc \in MidnightPcs /\ request[r].tx = "sent" /\ Include(Circuit(request[r]))
    /\ q.pc = request[r].pc /\ q.tx = "included"
    /\ q.pc \in Owning => q.own = request[r].own
    /\ q.pc \in Targeting => q.target = request[r].target
    /\ q.pc = "marking" => q.slot = request[r].slot
    /\ Become(r, q) /\ UNCHANGED <<positions, nextCoverSlot, blinds>>

LEMMA KindsOfBody ==
    ASSUME Memory, NEW r \in Clients, Arrive(r) \/ Body(r)
    PROVE  Ends(r) \/ Seals(r) \/ Takes(r)
<1>0. Idle \in Requests /\ Idle.pc = "idle" /\ nextCoverSlot <= nextCoverSlot
      /\ nextCoverSlot \in Nat /\ nextCoverSlot <= nextCoverSlot + 1
  BY IdleIsARequest, ServerAssumption DEF Memory
<1>1. CASE Arrive(r)
  <2>1. PICK pc \in BodyPcs : Become(r, [pc |-> pc])
    BY <1>1 DEF Arrive, BodyPcs
  <2>2. [pc |-> pc] \in Requests /\ [pc |-> pc].pc \in BodyPcs
    BY RequestsMade
  <2> QED
    BY <1>0, <1>1, <2>1, <2>2 DEF Arrive, Ends
<1>2. CASE Refuse(r) \/ OpenBadBody(r) \/ MatchBadSize(r)
  BY <1>0, <1>2 DEF Refuse, OpenBadBody, MatchBadSize, Finish, Ends
<1>3. CASE OpenBegin(r)
  <2>1. PICK w \in ready, side \in {"YES", "NO"}, size \in Sizes, cond \in Conditions :
          LET draft == Draft(w, side, size, cond) IN
          SealDraft(r, draft, [pc |-> "opening", own |-> draft, tx |-> "sent"])
    BY <1>3 DEF OpenBegin
  <2> DEFINE draft == Draft(w, side, size, cond)
             q == [pc |-> "opening", own |-> draft, tx |-> "sent"]
  <2>2. w \in Wallets /\ blinds < MaxBlinds
    BY <2>1 DEF SealDraft, Memory
  <2>3. draft \in Position
    BY <2>2, DraftIsAPosition
  <2>4. q \in Requests /\ q.pc = "opening" /\ q.tx = "sent" /\ q.own = draft
    BY <2>3, RequestsMade
  <2>5. Become(r, q) /\ blinds' = blinds + 1 /\ UNCHANGED <<positions, nextCoverSlot>>
    BY <2>1 DEF SealDraft
  <2> HIDE DEF q
  <2> QED
    BY <2>2, <2>4, <2>5 DEF Seals, Drafting
<1>4. CASE MatchBegin(r)
  <2>1. PICK t \in DOMAIN positions, w \in ready, size \in Sizes :
          /\ positions[t].status = "open" /\ w # positions[t].wallet
          /\ SealOther(r, t, w, size)
    BY <1>4 DEF MatchBegin
  <2> DEFINE side == Opposite(positions[t].side)
             cond == positions[t].conditionId
             draft == Draft(w, side, size, cond)
             q == [pc |-> "opening_other", own |-> draft, target |-> t, tx |-> "sent"]
  <2>2. SealDraft(r, draft, q)
    BY <2>1 DEF SealOther
  <2>3. w \in Wallets /\ blinds < MaxBlinds
    BY <2>2 DEF SealDraft, Memory
  <2>4. positions[t] \in Position /\ t \in Nat
    BY LenProperties DEF Memory
  <2>5. cond \in Conditions /\ side \in {"YES", "NO"} /\ side # positions[t].side
    BY <2>4 DEF Position, Opposite
  <2> HIDE DEF side, cond
  <2>6. draft \in Position
    BY <2>3, <2>5, DraftIsAPosition
  <2>7. q \in Requests /\ q.target = t /\ q.pc = "opening_other" /\ q.tx = "sent" /\ q.own = draft
    BY <2>4, <2>6, RequestsMade
  <2>8. draft.side = side /\ draft.wallet = w /\ draft.conditionId = cond
    BY DEF Draft
  <2>9. Opposed(q.own, positions[q.target])
    BY <2>1, <2>5, <2>7, <2>8 DEF Opposed, cond
  <2>10. Become(r, q) /\ blinds' = blinds + 1 /\ UNCHANGED <<positions, nextCoverSlot>>
    BY <2>2 DEF SealDraft
  <2>11. \E v \in Wallets, sd \in {"YES", "NO"}, sz \in Sizes, c \in Conditions :
            q.own = Draft(v, sd, sz, c)
    BY <2>3, <2>5, <2>7
  <2> HIDE DEF q, draft
  <2> QED
    BY <2>1, <2>7, <2>9, <2>10, <2>11 DEF Seals, Drafting
<1>5. CASE CoverBegin(r)
  <2>1. PICK t \in DOMAIN positions : positions[t].status = "open" /\ StartCover(r, t)
    BY <1>5 DEF CoverBegin
  <2>2. t \in Nat /\ nextCoverSlot \in Slots /\ nextCoverSlot' = nextCoverSlot + 1
    BY <1>5, LenProperties DEF CoverBegin, Memory
  <2> DEFINE q == [pc |-> "read_free", target |-> t, slot |-> nextCoverSlot, tx |-> "none"]
  <2>3. q \in Requests /\ q.target = t /\ q.pc = "read_free" /\ q.slot = nextCoverSlot
    BY <2>2, RequestsMade
  <2>4. CASE Finish(r)
    BY <1>0, <2>1, <2>2, <2>4 DEF StartCover, Finish, Ends
  <2>5. CASE Become(r, q)
    <3> HIDE DEF q
    <3> QED
      BY <2>1, <2>2, <2>3, <2>5 DEF StartCover, Takes
  <2> QED
    BY <2>1, <2>4, <2>5 DEF StartCover
<1> QED
  BY <1>1, <1>2, <1>3, <1>4, <1>5 DEF Body

LEMMA KindsOfResume ==
    ASSUME Memory, NEW r \in Clients, Resume(r)
    PROVE  Ends(r) \/ Goes(r) \/ OpenDone(r) \/ MatchOpened(r) \/ MatchDone(r) \/ CoverDone(r)
<1>0. Idle \in Requests /\ Idle.pc = "idle" /\ nextCoverSlot <= nextCoverSlot
  BY IdleIsARequest, ServerAssumption DEF Memory
<1>1. CASE Throw(r) \/ ThrowAndLeave(r)
  BY <1>0, <1>1 DEF Throw, ThrowAndLeave, Finish, Ends
<1>2. CASE CoverReadFree(r) \/ CoverReadSettled(r) \/ CoverWrite(r) \/ CoverReceipt(r)
  <2>1. /\ request[r].pc \in PolygonPcs
        /\ UNCHANGED <<positions, nextCoverSlot, blinds>>
    BY <1>2, CoverProceeds
  <2>2. CASE Finish(r)
    BY <1>0, <2>1, <2>2 DEF Finish, Ends
  <2>3. ASSUME NEW pc \in PolygonPcs \union {"marking"}, NEW tx \in {"none", "sent"},
               CoverAt(pc, request[r].target, request[r].slot, tx) \in Requests,
               Become(r, CoverAt(pc, request[r].target, request[r].slot, tx))
        PROVE  Goes(r)
    <3> DEFINE q == CoverAt(pc, request[r].target, request[r].slot, tx)
    <3>1. q.pc = pc /\ q.target = request[r].target /\ q.slot = request[r].slot
      BY DEF CoverAt
    <3> HIDE DEF q
    <3>2. q \in Requests /\ Become(r, q)
      BY <2>3 DEF q
    <3> QED
      BY <2>1, <3>1, <3>2 DEF Goes
  <2> QED
    BY <1>2, <2>2, <2>3, CoverProceeds
<1> QED
  BY <1>1, <1>2 DEF Resume

LEMMA KindsOfBlock ==
    ASSUME Memory, MidnightBlock \/ PolygonBlock
    PROVE  \/ UNCHANGED <<positions, request, nextCoverSlot, blinds>>
           \/ \E r \in Clients : Lands(r) \/ Goes(r)
<1>1. ASSUME NEW r \in Clients, request[r].pc \in MidnightPcs, MidnightBlock,
             request[r].tx = "sent", Include(Circuit(request[r])),
             Become(r, [request[r] EXCEPT !.tx = "included"])
      PROVE  Lands(r)
  <2> DEFINE q == [request[r] EXCEPT !.tx = "included"]
  <2>1. request[r] \in Requests
    BY DEF Memory
  <2>2. /\ q \in Requests /\ q.pc = request[r].pc /\ q.tx = "included"
        /\ q.pc \in Targeting => q.target = request[r].target
        /\ q.pc \in Owning => q.own = request[r].own
        /\ q.pc = "marking" => q.slot = request[r].slot
    BY <1>1, <2>1, Answered
  <2>3. Become(r, q) /\ UNCHANGED <<positions, nextCoverSlot, blinds>>
    BY <1>1 DEF MidnightBlock
  <2> HIDE DEF q
  <2> QED
    BY <1>1, <2>2, <2>3 DEF Lands
<1>2. ASSUME NEW r \in Clients, NEW tx \in {"settled", "reverted"}, At(r, "receipt"), PolygonBlock,
             Become(r, [request[r] EXCEPT !.tx = tx])
      PROVE  Goes(r)
  <2> DEFINE q == CoverAt("receipt", request[r].target, request[r].slot, tx)
  <2>1. request[r] \in Requests /\ request[r].pc = "receipt"
    BY <1>2 DEF Memory, At
  <2>2. q \in Requests /\ [request[r] EXCEPT !.tx = tx] = q
    BY <2>1, Proceeds DEF PolygonPcs
  <2>3. q.pc = "receipt" /\ q.target = request[r].target /\ q.slot = request[r].slot
    BY DEF CoverAt
  <2> HIDE DEF q
  <2> QED
    BY <1>2, <2>1, <2>2, <2>3 DEF Goes, PolygonPcs, PolygonBlock
<1>3. CASE MidnightBlock
  BY <1>1, <1>3 DEF MidnightBlock
<1>4. CASE PolygonBlock
  BY <1>2, <1>4 DEF PolygonBlock
<1> QED
  BY <1>3, <1>4

LEMMA KindsOfStep ==
    ASSUME Memory, [Next]_vars
    PROVE  \/ UNCHANGED <<positions, request, nextCoverSlot, blinds>>
           \/ Restart
           \/ \E r \in Clients :
                 \/ Ends(r) \/ Seals(r) \/ Takes(r) \/ Goes(r) \/ Lands(r)
                 \/ OpenDone(r) \/ MatchOpened(r) \/ MatchDone(r) \/ CoverDone(r)
<1>1. CASE UNCHANGED vars \/ Boot \/ Trading
  BY <1>1 DEF vars, memory, Boot, BootOne, BootDone, Trading
<1> QED
  BY <1>1, NextIsAStep, KindsOfBody, KindsOfResume, KindsOfBlock DEF AnyStep

LEMMA AllForgotten ==
    ASSUME Restart
    PROVE  positions' = <<>> /\ \A r \in Clients : request'[r].pc = "idle"
BY IdleIsARequest DEF Restart, ForgetBook

\* A sealed draft is open, matched with nothing and covered by nothing.
Fresh ==
    \A r \in Clients : request[r].pc \in Drafting =>
        /\ request[r].own.status = "open"
        /\ request[r].own.matchedWith = NoMatch /\ request[r].own.cover = NoCover

LEMMA FreshInit == Init => Fresh
BY IdleIsARequest DEF Init, Fresh, Drafting

LEMMA FreshStep == ASSUME Memory, Fresh, [Next]_vars PROVE Fresh'
<1>0. Idle \in Requests /\ Idle.pc = "idle" /\ request \in [Clients -> Requests]
  BY IdleIsARequest DEF Memory
<1>1. ASSUME NEW r \in Clients, NEW q \in Requests, Become(r, q),
             q.pc \in Drafting => /\ q.own.status = "open" /\ q.own.matchedWith = NoMatch
                                  /\ q.own.cover = NoCover
      PROVE  Fresh'
  BY <1>0, <1>1, Becomes DEF Fresh
<1>2. CASE Restart
  BY <1>2, AllForgotten DEF Fresh, Drafting
<1>3. ASSUME NEW r \in Clients, Ends(r) \/ Takes(r) \/ Goes(r) PROVE Fresh'
  BY <1>1, <1>3 DEF Ends, Takes, Goes, Drafting, BodyPcs, PolygonPcs
<1>4. ASSUME NEW r \in Clients, Seals(r) PROVE Fresh'
  BY <1>1, <1>4 DEF Seals, Draft
<1>5. ASSUME NEW r \in Clients, Lands(r) PROVE Fresh'
  BY <1>1, <1>5 DEF Lands, Fresh, Drafting, Owning
<1>6. ASSUME NEW r \in Clients, OpenDone(r) \/ MatchDone(r) \/ CoverDone(r) PROVE Fresh'
  BY <1>0, <1>1, <1>6 DEF OpenDone, MatchDone, CoverDone, CloseCovered, Finish, Drafting
<1>7. ASSUME NEW r \in Clients, MatchOpened(r) PROVE Fresh'
  <2> DEFINE q == MatchingOf([request[r].own EXCEPT !.id = nextId], request[r].target)
  <2>1. q \in Requests /\ Become(r, q)
    BY <1>7, MatchProceeds
  <2>2. q.pc \notin Drafting
    BY DEF MatchingOf, Drafting
  <2> HIDE DEF q
  <2> QED
    BY <1>1, <2>1, <2>2
<1>8. CASE UNCHANGED request
  BY <1>8 DEF Fresh
<1> QED
  BY <1>2, <1>3, <1>4, <1>5, <1>6, <1>7, <1>8, KindsOfStep

-----------------------------------------------------------------------------
(* Settlement slots                                                        *)

Covering == PolygonPcs \union {"marking"}

\* Every slot given out, to a cover that is not over or to a position it
\* covered, is below the next one; and what SlotsAreNotShared says of them.
SlotsTaken ==
    /\ \A i \in DOMAIN positions : positions[i].cover < nextCoverSlot
    /\ \A r \in Clients : request[r].pc \in Covering =>
          /\ request[r].slot < nextCoverSlot
          /\ \A i \in DOMAIN positions : positions[i].cover # request[r].slot
          /\ \A q \in Clients : q # r /\ request[q].pc \in Covering =>
                request[r].slot # request[q].slot

LEMMA SlotsInit == Init => SlotsTaken
BY IdleIsARequest DEF Init, SlotsTaken, Covering, PolygonPcs

\* A position listed has used no slot.
LEMMA SlotsListing ==
    ASSUME Memory, Fresh, SlotsTaken, NEW r \in Clients, request[r].pc \in Drafting,
           Push(request[r].own), NEW q \in Requests, Become(r, q), q.pc \notin Covering,
           UNCHANGED nextCoverSlot
    PROVE  SlotsTaken'
<1>1. request[r].own \in Position /\ request[r].own.cover = NoCover
  BY Shapes DEF Memory, Fresh, Drafting, Owning
<1>2. [request[r].own EXCEPT !.id = nextId].cover = NoCover
  BY <1>1 DEF Position
<1>3. /\ DOMAIN positions' = DOMAIN positions \union {nextId}
      /\ \A i \in DOMAIN positions : positions'[i] = positions[i]
      /\ positions'[nextId].cover = NoCover
  BY <1>1, <1>2, Pushed
<1>4. /\ request'[r] = q
      /\ \A s \in Clients : s # r => request'[s] = request[s]
  BY Becomes DEF Memory
<1>5. nextCoverSlot \in Nat /\ NoCover < nextCoverSlot
  BY ServerAssumption DEF Memory, NoCover
<1>6. \A s \in Clients : request[s].pc \in Covering => request[s].slot # NoCover
  <2>1. \A s \in Clients : request[s].pc \in Covering => request[s].slot \in Slots
    BY Shapes DEF Memory, Covering
  <2> QED
    BY <2>1, ServerAssumption DEF Slots, NoCover
<1> QED
  BY <1>3, <1>4, <1>5, <1>6 DEF SlotsTaken

LEMMA SlotsStep == ASSUME Memory, Fresh, SlotsTaken, [Next]_vars PROVE SlotsTaken'
<1>0. /\ Idle \in Requests /\ Idle.pc \notin Covering /\ request \in [Clients -> Requests]
      /\ nextCoverSlot \in Nat
      /\ \A i \in DOMAIN positions : positions[i].cover \in Int
      /\ \A s \in Clients : request[s].pc \in Covering => request[s].slot \in Int
  <2>1. \A s \in Clients : request[s].pc \in Covering => request[s].slot \in Slots
    BY Shapes DEF Memory, Covering
  <2>2. \A i \in DOMAIN positions : positions[i] \in Position
    BY LenProperties DEF Memory
  <2> QED
    BY <2>1, <2>2, IdleIsARequest, ServerAssumption
       DEF Memory, Covering, PolygonPcs, Position, Slots, NoCover
<1>1. ASSUME NEW r \in Clients, NEW q \in Requests, Become(r, q), UNCHANGED positions,
             nextCoverSlot <= nextCoverSlot', nextCoverSlot' \in Nat,
             q.pc \in Covering => \/ request[r].pc \in Covering /\ q.slot = request[r].slot
                                  \/ q.slot = nextCoverSlot /\ nextCoverSlot < nextCoverSlot'
      PROVE  SlotsTaken'
  <2>1. /\ request'[r] = q
        /\ \A s \in Clients : s # r => request'[s] = request[s]
    BY <1>1, Becomes DEF Memory
  <2> QED
    BY <1>0, <1>1, <2>1 DEF SlotsTaken
<1>2. CASE Restart
  BY <1>2, AllForgotten DEF SlotsTaken, Covering, PolygonPcs
<1>3. ASSUME NEW r \in Clients, Ends(r) \/ Seals(r) \/ Takes(r) \/ Goes(r) \/ Lands(r)
      PROVE  SlotsTaken'
  <2>1. nextCoverSlot' \in Nat
    BY MemoryStep, ServerAssumption DEF Memory
  <2>2. CASE Ends(r)
    BY <1>1, <2>1, <2>2 DEF Ends, Covering, PolygonPcs, BodyPcs
  <2>3. CASE Seals(r)
    BY <1>0, <1>1, <2>1, <2>3 DEF Seals, Drafting, Covering, PolygonPcs
  <2>4. CASE Takes(r)
    BY <1>0, <1>1, <2>1, <2>4 DEF Takes
  <2>5. CASE Goes(r)
    BY <1>0, <1>1, <2>1, <2>5 DEF Goes, Covering
  <2>6. CASE Lands(r)
    BY <1>0, <1>1, <2>1, <2>6 DEF Lands, Covering, MidnightPcs, PolygonPcs
  <2> QED
    BY <1>3, <2>2, <2>3, <2>4, <2>5, <2>6
<1>4. ASSUME NEW r \in Clients, OpenDone(r) PROVE SlotsTaken'
  BY <1>0, <1>4, SlotsListing DEF OpenDone, At, Drafting, Finish
<1>5. ASSUME NEW r \in Clients, MatchOpened(r) PROVE SlotsTaken'
  <2> DEFINE q == MatchingOf([request[r].own EXCEPT !.id = nextId], request[r].target)
  <2>1. q \in Requests /\ Become(r, q) /\ Push(request[r].own) /\ request[r].pc \in Drafting
    BY <1>5, MatchProceeds DEF Drafting
  <2>2. q.pc \notin Covering
    BY DEF MatchingOf, Covering, PolygonPcs
  <2> HIDE DEF q
  <2> QED
    BY <1>5, <2>1, <2>2, SlotsListing DEF MatchOpened, ListOther
<1>6. ASSUME NEW r \in Clients, MatchDone(r) PROVE SlotsTaken'
  <2>1. UNCHANGED nextCoverSlot /\ request'[r] = Idle
        /\ \A s \in Clients : s # r => request'[s] = request[s]
    BY <1>0, <1>6, Becomes DEF MatchDone, Finish
  <2>2. /\ DOMAIN positions' = DOMAIN positions
        /\ \A i \in DOMAIN positions : positions'[i].cover = positions[i].cover
    <3> DEFINE t == request[r].target  c == request[r].own.id
    <3>1. /\ t \in DOMAIN positions /\ c \in DOMAIN positions \ {t}
          /\ DOMAIN positions' = DOMAIN positions
          /\ positions'[t] = Matched(positions[t], c)
          /\ positions'[c] = Matched(positions[c], t)
          /\ \A i \in DOMAIN positions \ {t, c} : positions'[i] = positions[i]
      BY <1>6, BothClosed DEF MatchDone
    <3>2. /\ positions[t] \in Position /\ positions[c] \in Position /\ t \in Nat /\ c \in Nat
      BY <3>1, LenProperties DEF Memory
    <3> HIDE DEF t, c
    <3>3. positions'[t].cover = positions[t].cover /\ positions'[c].cover = positions[c].cover
      BY <3>1, <3>2, MatchedPosition
    <3> QED
      BY <3>1, <3>3
  <2> QED
    BY <1>0, <2>1, <2>2 DEF SlotsTaken
<1>7. ASSUME NEW r \in Clients, CoverDone(r) PROVE SlotsTaken'
  <2>1. UNCHANGED nextCoverSlot /\ request'[r] = Idle
        /\ \A s \in Clients : s # r => request'[s] = request[s]
    BY <1>0, <1>7, Becomes DEF CoverDone, CloseCovered, Finish
  <2> DEFINE t == request[r].target
  <2>2. /\ t \in DOMAIN positions /\ DOMAIN positions' = DOMAIN positions
        /\ positions'[t] = Covered(positions[t], request[r].slot)
        /\ \A i \in DOMAIN positions \ {t} : positions'[i] = positions[i]
    BY <1>7, OneCovered DEF CoverDone
  <2>3. positions[t] \in Position /\ request[r].slot \in Slots /\ request[r].pc \in Covering
    BY <1>0, <1>7, <2>2, Shapes, LenProperties DEF Memory, CoverDone, At, Covering
  <2>4. positions'[t].cover = request[r].slot
    BY <2>2, <2>3, CoveredPosition
  <2> HIDE DEF t
  <2> QED
    BY <1>0, <2>1, <2>2, <2>3, <2>4 DEF SlotsTaken
<1>8. CASE UNCHANGED <<positions, request, nextCoverSlot>>
  BY <1>8 DEF SlotsTaken
<1> QED
  BY <1>2, <1>3, <1>4, <1>5, <1>6, <1>7, <1>8, KindsOfStep

\* No two covers of one run of the process ever use the same settlement slot,
\* whatever fails and however many are in progress (server.ts:570-577).
THEOREM SlotsAreTakenOnce == Spec => []SlotsAreNotShared
<1>1. Init => Memory /\ Fresh /\ SlotsTaken
  BY MemoryInit, FreshInit, SlotsInit
<1>2. Memory /\ Fresh /\ SlotsTaken /\ [Next]_vars => Memory' /\ Fresh' /\ SlotsTaken'
  BY MemoryStep, FreshStep, SlotsStep
<1>3. SlotsTaken => SlotsAreNotShared
  BY DEF SlotsTaken, SlotsAreNotShared, Covers, Used, Critical, Covering
<1> QED
  BY <1>1, <1>2, <1>3, PTL DEF Spec

-----------------------------------------------------------------------------
(* What is sealed stays sealed                                             *)

\* Unless the process restarts, listed positions stay, what is sealed of them
\* does not change, and neither chain of calls nor commitments ever shrink.
Grows ==
    /\ \A i \in DOMAIN positions : i \in DOMAIN positions' /\ Same(positions'[i], positions[i])
    /\ commitments \subseteq commitments' /\ ToSet(history) \subseteq ToSet(history')

LEMMA LedgerGrows ==
    ASSUME Memory, Midnight!TypeOK, [Next]_vars, ~Restart
    PROVE  commitments \subseteq commitments' /\ ToSet(history) \subseteq ToSet(history')
<1>1. CASE UNCHANGED ledger
  BY <1>1 DEF ledger
<1>2. ASSUME NEW c \in Circuits, Include(c)
      PROVE  commitments \subseteq commitments' /\ ToSet(history) \subseteq ToSet(history')
  <2>1. /\ commitments \subseteq commitments'
        /\ \E call \in Midnight!Calls : history' = Append(history, call)
    BY <1>2 DEF Include, Circuits, Midnight!open_position, Midnight!match_positions,
                Midnight!mark_covered, Midnight!AddMatched, Midnight!Record, Midnight!Call,
                Midnight!Calls, Midnight!Ops
  <2>2. PICK call \in Midnight!Calls : history' = Append(history, call)
    BY <2>1
  <2>3. history \in Seq(Midnight!Calls)
    BY DEF Midnight!TypeOK
  <2>4. /\ \A i \in 1..Len(history) : history'[i] = history[i]
        /\ Len(history') = Len(history) + 1 /\ history' \in Seq(Midnight!Calls)
    BY <2>2, <2>3, AppendProperties
  <2>5. DOMAIN history = 1..Len(history) /\ DOMAIN history' = 1..(Len(history) + 1)
        /\ Len(history) \in Nat
    BY <2>3, <2>4, LenProperties
  <2>6. \A i \in DOMAIN history : i \in DOMAIN history' /\ history'[i] = history[i]
    BY <2>4, <2>5
  <2> QED
    BY <2>1, <2>6 DEF ToSet
<1> QED
  BY <1>1, <1>2, LedgerSteps

LEMMA OnlyClosed ==
    ASSUME Memory, NEW r \in Clients, MatchDone(r) \/ CoverDone(r)
    PROVE  /\ DOMAIN positions' = DOMAIN positions
           /\ \A i \in DOMAIN positions : Same(positions'[i], positions[i])
<1>0. \A i \in DOMAIN positions : i \in Nat /\ positions[i] \in Position
  BY LenProperties DEF Memory
<1>1. CASE MatchDone(r)
  <2> DEFINE t == request[r].target  c == request[r].own.id
  <2>1. /\ t \in DOMAIN positions /\ c \in DOMAIN positions \ {t}
        /\ DOMAIN positions' = DOMAIN positions
        /\ positions'[t] = Matched(positions[t], c)
        /\ positions'[c] = Matched(positions[c], t)
        /\ \A i \in DOMAIN positions \ {t, c} : positions'[i] = positions[i]
    BY <1>1, BothClosed DEF MatchDone
  <2> HIDE DEF t, c
  <2>2. Same(positions'[t], positions[t]) /\ Same(positions'[c], positions[c])
    BY <1>0, <2>1, MatchedPosition
  <2> QED
    BY <2>1, <2>2 DEF Same
<1>2. CASE CoverDone(r)
  <2> DEFINE t == request[r].target
  <2>1. /\ t \in DOMAIN positions /\ DOMAIN positions' = DOMAIN positions
        /\ positions'[t] = Covered(positions[t], request[r].slot)
        /\ \A i \in DOMAIN positions \ {t} : positions'[i] = positions[i]
    BY <1>2, OneCovered DEF CoverDone
  <2>2. request[r].slot \in Slots
    BY <1>2, Shapes DEF Memory, CoverDone, At
  <2> HIDE DEF t
  <2>3. Same(positions'[t], positions[t])
    BY <1>0, <2>1, <2>2, CoveredPosition
  <2> QED
    BY <2>1, <2>3 DEF Same
<1> QED
  BY <1>1, <1>2

\* What a request lists is its draft, under the next id.
LEMMA DraftListed ==
    ASSUME Memory, NEW r \in Clients, OpenDone(r) \/ MatchOpened(r)
    PROVE  /\ request[r].own \in Position /\ request[r].pc \in Drafting
           /\ request[r].tx = "included"
           /\ DOMAIN positions' = DOMAIN positions \union {nextId}
           /\ nextId \notin DOMAIN positions
           /\ \A i \in DOMAIN positions : positions'[i] = positions[i]
           /\ positions'[nextId] = [request[r].own EXCEPT !.id = nextId]
<1>1. /\ request[r].own \in Position /\ request[r].pc \in Drafting
      /\ request[r].tx = "included" /\ Push(request[r].own)
  BY Shapes DEF Memory, OpenDone, MatchOpened, ListOther, At, Drafting, Owning
<1> QED
  BY <1>1, Pushed

LEMMA BookGrows == ASSUME Memory, Midnight!TypeOK, [Next]_vars, ~Restart PROVE Grows
<1>1. CASE UNCHANGED positions
  BY <1>1, LedgerGrows DEF Grows, Same
<1>2. ASSUME NEW r \in Clients, MatchDone(r) \/ CoverDone(r) PROVE Grows
  BY <1>2, OnlyClosed, LedgerGrows DEF Grows
<1>3. ASSUME NEW r \in Clients, OpenDone(r) \/ MatchOpened(r) PROVE Grows
  BY <1>3, DraftListed, LedgerGrows DEF Grows, Same
<1> QED
  BY <1>1, <1>2, <1>3, KindsOfStep DEF Ends, Seals, Takes, Goes, Lands

\* The commitment to a position.
Commit(p) == <<[side |-> p.side = "YES", size |-> p.size], p.blind>>

LEMMA Commitments ==
    /\ \A p : Midnight!persistentCommit(OpeningOf(p)) = Commit(p)
    /\ \A p, q : Same(p, q) => Commit(p) = Commit(q) /\ p.blind = q.blind
BY DEF Midnight!persistentCommit, OpeningOf, Commit, Same

\* A draft that is being sealed: under a blind that no position and no other
\* draft has.
DraftSealed(r) ==
    LET own == request[r].own IN
    /\ own.blind <= blinds
    /\ \A i \in DOMAIN positions : positions[i].blind # own.blind
    /\ \A s \in Clients : s # r /\ request[s].pc \in Drafting => own.blind # request[s].own.blind
    /\ request[r].tx = "included" => Commit(own) \in commitments

BookSealed ==
    /\ \A i \in DOMAIN positions :
          /\ positions[i].id = i /\ Commit(positions[i]) \in commitments
          /\ positions[i].blind <= blinds
    /\ \A i, j \in DOMAIN positions : positions[i].blind = positions[j].blind => i = j
    /\ \A r \in Clients : request[r].pc \in Drafting => DraftSealed(r)

LEMMA SealedInit == Init => BookSealed
BY IdleIsARequest DEF Init, BookSealed, Drafting

\* The same positions and, but for one that went on, the same drafts.
LEMMA SealedKept ==
    ASSUME Memory, BookSealed, Grows, DOMAIN positions' = DOMAIN positions, UNCHANGED blinds,
           NEW r \in Clients, NEW q \in Requests, Become(r, q),
           q.pc \in Drafting =>
              /\ request[r].pc \in Drafting /\ q.own = request[r].own
              /\ q.tx = "included" => Commit(q.own) \in commitments'
    PROVE  BookSealed'
<1>1. /\ request'[r] = q
      /\ \A s \in Clients : s # r => request'[s] = request[s]
  BY Becomes DEF Memory
<1>2. \A i \in DOMAIN positions :
          /\ positions'[i].id = positions[i].id /\ positions'[i].blind = positions[i].blind
          /\ Commit(positions'[i]) = Commit(positions[i])
  BY Commitments DEF Grows, Same
<1>3. commitments \subseteq commitments'
  BY DEF Grows
<1>4. \A s \in Clients : request'[s].pc \in Drafting =>
          request[s].pc \in Drafting /\ request'[s].own = request[s].own
  BY <1>1
<1>5. \A s \in Clients : request'[s].pc \in Drafting => DraftSealed(s)'
  <2> SUFFICES ASSUME NEW s \in Clients, request'[s].pc \in Drafting PROVE DraftSealed(s)'
    OBVIOUS
  <2>1. DraftSealed(s) /\ request'[s].own = request[s].own
    BY <1>4 DEF BookSealed
  <2>2. request'[s].tx = "included" => Commit(request'[s].own) \in commitments'
    BY <1>1, <1>3, <2>1 DEF DraftSealed
  <2> QED
    BY <1>2, <1>4, <2>1, <2>2 DEF DraftSealed
<1> QED
  BY <1>2, <1>3, <1>5 DEF BookSealed

\* One draft more, under a blind nobody has used.
LEMMA SealedDraft ==
    ASSUME Memory, BookSealed, Grows, NEW r \in Clients, Seals(r)
    PROVE  BookSealed'
<1>1. PICK q \in Requests :
          /\ q.pc \in Drafting /\ q.tx = "sent" /\ q.own.blind = blinds + 1
          /\ Become(r, q) /\ blinds' = blinds + 1 /\ UNCHANGED positions
  BY DEF Seals, Draft
<1>2. /\ request'[r] = q
      /\ \A s \in Clients : s # r => request'[s] = request[s]
  BY <1>1, Becomes DEF Memory
<1>3. blinds \in Nat /\ \A i \in DOMAIN positions : positions[i].blind \in Nat
  <2>1. \A i \in DOMAIN positions : positions[i] \in Position
    BY LenProperties DEF Memory
  <2> QED
    BY <2>1, ServerAssumption DEF Memory, Position
<1>4. \A s \in Clients : request[s].pc \in Drafting => request[s].own.blind \in Nat
  <2>1. \A s \in Clients : request[s].pc \in Drafting => request[s].own \in Position
    BY Shapes DEF Memory, Drafting, Owning
  <2> QED
    BY <2>1, ServerAssumption DEF Position
<1>5. commitments \subseteq commitments'
  BY DEF Grows
<1>6. \A s \in Clients : s # r /\ request[s].pc \in Drafting => DraftSealed(s)'
  <2> SUFFICES ASSUME NEW s \in Clients, s # r, request[s].pc \in Drafting PROVE DraftSealed(s)'
    OBVIOUS
  <2>1. DraftSealed(s)
    BY DEF BookSealed
  <2> QED
    BY <1>1, <1>2, <1>3, <1>4, <1>5, <2>1 DEF DraftSealed
<1>7. DraftSealed(r)'
  <2>1. \A i \in DOMAIN positions : positions[i].blind <= blinds
    BY DEF BookSealed
  <2>2. \A s \in Clients : request[s].pc \in Drafting => request[s].own.blind <= blinds
    BY DEF BookSealed, DraftSealed
  <2> QED
    BY <1>1, <1>2, <1>3, <1>4, <2>1, <2>2 DEF DraftSealed
<1>8. \A i \in DOMAIN positions : positions[i].blind <= blinds'
  BY <1>1, <1>3 DEF BookSealed
<1> QED
  BY <1>1, <1>2, <1>5, <1>6, <1>7, <1>8 DEF BookSealed

\* A draft that was sealed is listed.
LEMMA SealedListing ==
    ASSUME Memory, BookSealed, Grows, NEW r \in Clients, OpenDone(r) \/ MatchOpened(r),
           NEW q \in Requests, Become(r, q), q.pc \notin Drafting, UNCHANGED blinds
    PROVE  BookSealed'
<1> DEFINE own == request[r].own
<1>1. /\ own \in Position /\ request[r].pc \in Drafting /\ request[r].tx = "included"
      /\ DOMAIN positions' = DOMAIN positions \union {nextId} /\ nextId \notin DOMAIN positions
      /\ \A i \in DOMAIN positions : positions'[i] = positions[i]
      /\ positions'[nextId] = [own EXCEPT !.id = nextId]
  BY DraftListed
<1>2. DraftSealed(r)
  BY <1>1 DEF BookSealed
<1>3. /\ request'[r] = q
      /\ \A s \in Clients : s # r => request'[s] = request[s]
  BY Becomes DEF Memory
<1>4. /\ positions'[nextId].id = nextId /\ positions'[nextId].blind = own.blind
      /\ Commit(positions'[nextId]) = Commit(own)
  BY <1>1 DEF Position, Commit
<1>5. commitments \subseteq commitments'
  BY DEF Grows
<1>6. \A s \in Clients : request'[s].pc \in Drafting => DraftSealed(s)'
  <2> SUFFICES ASSUME NEW s \in Clients, request'[s].pc \in Drafting PROVE DraftSealed(s)'
    OBVIOUS
  <2>1. s # r /\ request'[s] = request[s] /\ DraftSealed(s)
    BY <1>3 DEF BookSealed
  <2>2. request[s].own.blind # own.blind
    BY <1>1, <1>3, <2>1 DEF DraftSealed
  <2> HIDE DEF own
  <2> QED
    BY <1>1, <1>3, <1>4, <1>5, <2>1, <2>2 DEF DraftSealed
<1>7. \A i \in DOMAIN positions' : /\ positions'[i].id = i /\ Commit(positions'[i]) \in commitments'
                                   /\ positions'[i].blind <= blinds'
  BY <1>1, <1>2, <1>4, <1>5 DEF BookSealed, DraftSealed
<1>8. \A i, j \in DOMAIN positions' : positions'[i].blind = positions'[j].blind => i = j
  <2>1. \A i, j \in DOMAIN positions : positions[i].blind = positions[j].blind => i = j
    BY DEF BookSealed
  <2>2. \A i \in DOMAIN positions : positions[i].blind # own.blind
    BY <1>2 DEF DraftSealed
  <2>3. positions'[nextId].blind = own.blind
    BY <1>4
  <2> HIDE DEF own
  <2> QED
    BY <1>1, <2>1, <2>2, <2>3
<1> QED
  BY <1>6, <1>7, <1>8 DEF BookSealed

LEMMA SealedStep ==
    ASSUME Memory, Midnight!TypeOK, BookSealed, [Next]_vars
    PROVE  BookSealed'
<1>0. Idle \in Requests /\ Idle.pc \notin Drafting /\ request \in [Clients -> Requests]
  BY IdleIsARequest DEF Memory, Drafting
<1>1. CASE Restart
  BY <1>1, AllForgotten DEF BookSealed, Drafting
<1>2. CASE ~Restart
  <2>0. Grows
    BY <1>2, BookGrows
  <2>1. CASE UNCHANGED <<positions, request, blinds>>
    BY <2>0, <2>1 DEF BookSealed, DraftSealed, Grows
  <2>2. ASSUME NEW r \in Clients, Ends(r) \/ Takes(r) \/ Goes(r) PROVE BookSealed'
    BY <2>0, <2>2, SealedKept DEF Ends, Takes, Goes, Drafting, BodyPcs, PolygonPcs
  <2>3. ASSUME NEW r \in Clients, Lands(r) PROVE BookSealed'
    <3>1. PICK q \in Requests :
            /\ request[r].pc \in MidnightPcs /\ Include(Circuit(request[r]))
            /\ q.pc = request[r].pc /\ (q.pc \in Owning => q.own = request[r].own)
            /\ Become(r, q) /\ UNCHANGED <<positions, blinds>>
      BY <2>3 DEF Lands
    <3>2. ASSUME q.pc \in Drafting PROVE Commit(q.own) \in commitments'
      <4>1. Midnight!open_position(q.own.conditionId, OpeningOf(q.own))
        BY <3>1, <3>2 DEF Drafting, Owning, Include, Circuit
      <4> QED
        BY <4>1, Commitments DEF Midnight!open_position, Midnight!position_commitment
    <3>3. q.pc \in Drafting => q.own = request[r].own
      BY <3>1 DEF Drafting, Owning
    <3> QED
      BY <2>0, <3>1, <3>2, <3>3, SealedKept
  <2>4. ASSUME NEW r \in Clients, MatchDone(r) \/ CoverDone(r) PROVE BookSealed'
    <3>1. Become(r, Idle) /\ UNCHANGED blinds
      BY <2>4 DEF MatchDone, CoverDone, CloseCovered, Finish
    <3> QED
      BY <1>0, <2>0, <2>4, <3>1, OnlyClosed, SealedKept
  <2>5. ASSUME NEW r \in Clients, OpenDone(r) PROVE BookSealed'
    BY <1>0, <2>0, <2>5, SealedListing DEF OpenDone, Finish
  <2>6. ASSUME NEW r \in Clients, MatchOpened(r) PROVE BookSealed'
    <3> DEFINE q == MatchingOf([request[r].own EXCEPT !.id = nextId], request[r].target)
    <3>1. q \in Requests /\ Become(r, q)
      BY <2>6, MatchProceeds
    <3>2. q.pc \notin Drafting
      BY DEF MatchingOf, Drafting
    <3> HIDE DEF q
    <3> QED
      BY <2>0, <2>6, <3>1, <3>2, SealedListing DEF MatchOpened, ListOther
  <2> QED
    BY <1>2, <2>0, <2>1, <2>2, <2>3, <2>4, <2>5, <2>6, SealedDraft, KindsOfStep
<1> QED
  BY <1>1, <1>2

\* Whatever fails and however handlers interleave, ids are places in the book,
\* and every listed position is sealed on the contract the server reports,
\* under a blind no other position has (server.ts:459-472, 507-520).
THEOREM WhatIsListedIsSealed == Spec => []ListedIsSealed
<1>1. Init => Memory /\ Midnight!TypeOK /\ BookSealed
  BY MemoryInit, LedgerInit, SealedInit
<1>2. Memory /\ Midnight!TypeOK /\ BookSealed /\ [Next]_vars
        => Memory' /\ Midnight!TypeOK' /\ BookSealed'
  BY MemoryStep, LedgerStep, SealedStep
<1>3. Memory /\ BookSealed => ListedIsSealed
  BY Commitments DEF Memory, BookSealed, ListedIsSealed, Midnight!IsOpened
<1> QED
  BY <1>1, <1>2, <1>3, PTL DEF Spec

-----------------------------------------------------------------------------
(* What is shown as matched was proved                                     *)

\* The proof that p and q cross is in the chain's record.
Proof(p, q) == Midnight!Call("match_positions", OpeningOf(p), OpeningOf(q))
Proved(p, q) == Proof(p, q) \in ToSet(history)

LEMMA SamePairs ==
    ASSUME NEW p, NEW q, NEW a, NEW b, Same(a, p), Same(b, q)
    PROVE  /\ Opposed(p, q) => Opposed(a, b)
           /\ Proof(a, b) = Proof(p, q)
BY DEF Same, Opposed, Proof, OpeningOf

\* A request that matches has picked two sides that may be matched, and what
\* it proves is that the two it will close cross.
RequestPaired(r) ==
    LET q == request[r] IN
    /\ q.pc \in {"opening_other", "matching"} => Opposed(q.own, positions[q.target])
    /\ q.pc = "matching" =>
          /\ Same(q.own, positions[q.own.id])
          /\ q.tx = "included" => Proved(positions[q.target], positions[q.own.id])

PositionPaired(i) ==
    LET j == positions[i].matchedWith IN
    positions[i].status = "matched" =>
        /\ j \in DOMAIN positions /\ Opposed(positions[i], positions[j])
        /\ Proved(positions[i], positions[j]) \/ Proved(positions[j], positions[i])

Paired ==
    /\ \A r \in Clients : RequestPaired(r)
    /\ \A i \in DOMAIN positions : PositionPaired(i)

LEMMA PairedInit == Init => Paired
BY IdleIsARequest DEF Init, Paired, RequestPaired

LEMMA RequestKept ==
    ASSUME Memory, Grows, NEW r \in Clients, RequestPaired(r), request'[r] = request[r]
    PROVE  RequestPaired(r)'
<1> DEFINE q == request[r]
<1>1. ToSet(history) \subseteq ToSet(history')
  BY DEF Grows
<1>2. CASE q.pc = "opening_other"
  <2>1. q.target \in DOMAIN positions
    BY <1>2 DEF Memory, Targets, Targeting
  <2>2. Same(positions'[q.target], positions[q.target]) /\ Same(q.own, q.own)
    BY <2>1 DEF Grows, Same
  <2>3. Opposed(q.own, positions'[q.target])
    BY <1>2, <2>2, SamePairs DEF RequestPaired
  <2> QED
    BY <1>2, <2>3 DEF RequestPaired
<1>3. CASE q.pc = "matching"
  <2>1. q.target \in DOMAIN positions /\ q.own.id \in DOMAIN positions
    BY <1>3 DEF Memory, Targets, Targeting
  <2>2. /\ Same(positions'[q.target], positions[q.target]) /\ Same(q.own, q.own)
        /\ Same(positions'[q.own.id], positions[q.own.id])
    BY <2>1 DEF Grows, Same
  <2>3. Opposed(q.own, positions'[q.target])
    BY <1>3, <2>2, SamePairs DEF RequestPaired
  <2>4. Same(q.own, positions'[q.own.id])
    BY <1>3, <2>2 DEF RequestPaired, Same
  <2>5. Proof(positions'[q.target], positions'[q.own.id])
          = Proof(positions[q.target], positions[q.own.id])
    BY <2>2, SamePairs
  <2>6. q.tx = "included" => Proof(positions'[q.target], positions'[q.own.id]) \in ToSet(history')
    BY <1>1, <1>3, <2>5 DEF RequestPaired, Proved
  <2> QED
    BY <1>3, <2>3, <2>4, <2>6 DEF RequestPaired, Proved
<1>4. CASE q.pc \notin {"opening_other", "matching"}
  BY <1>4 DEF RequestPaired
<1> QED
  BY <1>2, <1>3, <1>4

LEMMA PositionKept ==
    ASSUME Memory, Grows, NEW i \in DOMAIN positions, PositionPaired(i),
           positions'[i].status = "matched" =>
              /\ positions[i].status = "matched"
              /\ positions'[i].matchedWith = positions[i].matchedWith
    PROVE  PositionPaired(i)'
<1> SUFFICES ASSUME positions'[i].status = "matched" PROVE PositionPaired(i)'
  BY DEF PositionPaired
<1> DEFINE j == positions[i].matchedWith
<1>1. ToSet(history) \subseteq ToSet(history') /\ positions'[i].matchedWith = j
  BY DEF Grows
<1>2. /\ j \in DOMAIN positions /\ Opposed(positions[i], positions[j])
      /\ Proved(positions[i], positions[j]) \/ Proved(positions[j], positions[i])
  BY DEF PositionPaired
<1>3. /\ j \in DOMAIN positions'
      /\ Same(positions'[i], positions[i]) /\ Same(positions'[j], positions[j])
  BY <1>2 DEF Grows
<1> HIDE DEF j
<1>4. /\ Opposed(positions'[i], positions'[j])
      /\ Proof(positions'[i], positions'[j]) = Proof(positions[i], positions[j])
      /\ Proof(positions'[j], positions'[i]) = Proof(positions[j], positions[i])
  BY <1>2, <1>3, SamePairs
<1>5. \/ Proof(positions'[i], positions'[j]) \in ToSet(history')
      \/ Proof(positions'[j], positions'[i]) \in ToSet(history')
  BY <1>1, <1>2, <1>4 DEF Proved
<1> QED
  BY <1>1, <1>3, <1>4, <1>5 DEF PositionPaired, Proved

\* One request went on, and no position was matched.
LEMMA PairedKept ==
    ASSUME Memory, Paired, Grows, NEW r \in Clients, NEW q \in Requests, Become(r, q),
           RequestPaired(r)',
           \A i \in DOMAIN positions' : positions'[i].status = "matched" =>
              /\ i \in DOMAIN positions /\ positions[i].status = "matched"
              /\ positions'[i].matchedWith = positions[i].matchedWith
    PROVE  Paired'
<1>1. \A s \in Clients : s # r => request'[s] = request[s]
  BY Becomes DEF Memory
<1>2. \A s \in Clients : RequestPaired(s)'
  BY <1>1, RequestKept DEF Paired
<1>3. ASSUME NEW i \in DOMAIN positions' PROVE PositionPaired(i)'
  <2>1. CASE positions'[i].status = "matched"
    BY <2>1, PositionKept DEF Paired
  <2>2. CASE positions'[i].status # "matched"
    BY <2>2 DEF PositionPaired
  <2> QED
    BY <2>1, <2>2
<1> QED
  BY <1>2, <1>3 DEF Paired

LEMMA PairedListing ==
    ASSUME Memory, Fresh, BookSealed, Paired, Grows, NEW r \in Clients,
           OpenDone(r) \/ MatchOpened(r)
    PROVE  Paired'
<1> DEFINE own == request[r].own
           one == [own EXCEPT !.id = nextId]
<1>1. /\ own \in Position /\ request[r].pc \in Drafting
      /\ DOMAIN positions' = DOMAIN positions \union {nextId} /\ nextId \notin DOMAIN positions
      /\ \A i \in DOMAIN positions : positions'[i] = positions[i]
      /\ positions'[nextId] = one
  BY DraftListed
<1>2. own.status = "open"
  BY <1>1 DEF Fresh
<1>3. /\ one.status = "open" /\ one.side = own.side /\ one.wallet = own.wallet
      /\ one.conditionId = own.conditionId
  BY <1>1, <1>2 DEF Position
<1> HIDE DEF one
<1>4. \A i \in DOMAIN positions' : positions'[i].status = "matched" =>
          /\ i \in DOMAIN positions /\ positions[i].status = "matched"
          /\ positions'[i].matchedWith = positions[i].matchedWith
  BY <1>1, <1>3
<1>5. CASE OpenDone(r)
  <2>1. Idle \in Requests /\ Become(r, Idle)
    BY <1>5, IdleIsARequest DEF OpenDone, Finish
  <2>2. RequestPaired(r)'
    BY <2>1, IdleIsARequest, Becomes DEF RequestPaired, Memory
  <2> QED
    BY <1>4, <2>1, <2>2, PairedKept
<1>6. CASE MatchOpened(r)
  <2> DEFINE q == MatchingOf(one, request[r].target)
  <2>1. q \in Requests /\ Become(r, q) /\ request[r].target \in DOMAIN positions
        /\ request[r].pc = "opening_other"
    BY <1>6, MatchProceeds DEF one
  <2>2. q.pc = "matching" /\ q.own = one /\ q.target = request[r].target /\ q.tx = "sent"
        /\ one.id = nextId
    BY <1>1 DEF MatchingOf, one, Position
  <2>3. Opposed(one, positions'[q.target])
    BY <1>1, <1>3, <2>1, <2>2 DEF Paired, RequestPaired, Opposed
  <2>4. Same(one, positions'[one.id])
    BY <1>1, <2>2 DEF Same
  <2> HIDE DEF q
  <2>5. request'[r] = q
    BY <2>1, Becomes DEF Memory
  <2>6. RequestPaired(r)'
    BY <2>2, <2>3, <2>4, <2>5 DEF RequestPaired
  <2> QED
    BY <1>4, <2>1, <2>6, PairedKept
<1> QED
  BY <1>5, <1>6

\* The two positions a proof was about are closed together.
LEMMA PairedClosing ==
    ASSUME Memory, Paired, Grows, NEW r \in Clients, MatchDone(r)
    PROVE  Paired'
<1> DEFINE t == request[r].target  c == request[r].own.id
<1>1. /\ t \in DOMAIN positions /\ c \in DOMAIN positions \ {t}
      /\ DOMAIN positions' = DOMAIN positions
      /\ positions'[t] = Matched(positions[t], c)
      /\ positions'[c] = Matched(positions[c], t)
      /\ \A i \in DOMAIN positions \ {t, c} : positions'[i] = positions[i]
  BY BothClosed DEF MatchDone
<1>2. \A i \in DOMAIN positions : i \in Nat /\ positions[i] \in Position
  BY LenProperties DEF Memory
<1>3. /\ Opposed(request[r].own, positions[t]) /\ Same(request[r].own, positions[c])
      /\ Proved(positions[t], positions[c])
  BY DEF MatchDone, At, Paired, RequestPaired
<1>4. Opposed(positions[c], positions[t]) /\ Opposed(positions[t], positions[c])
  BY <1>3 DEF Opposed, Same
<1>5. ToSet(history) \subseteq ToSet(history')
  BY DEF Grows
<1>6. Idle \in Requests /\ Become(r, Idle)
  BY IdleIsARequest DEF MatchDone, Finish
<1>7. \A s \in Clients : RequestPaired(s)'
  <2>1. RequestPaired(r)'
    BY <1>6, IdleIsARequest, Becomes DEF RequestPaired, Memory
  <2>2. \A s \in Clients : s # r => request'[s] = request[s]
    BY <1>6, Becomes DEF Memory
  <2> QED
    BY <2>1, <2>2, RequestKept DEF Paired
<1> HIDE DEF t, c
<1>8. /\ positions'[t].status = "matched" /\ positions'[t].matchedWith = c
      /\ positions'[c].status = "matched" /\ positions'[c].matchedWith = t
      /\ Same(positions'[t], positions[t]) /\ Same(positions'[c], positions[c])
  BY <1>1, <1>2, MatchedPosition
<1>9. /\ Opposed(positions'[c], positions'[t]) /\ Opposed(positions'[t], positions'[c])
      /\ Proof(positions'[t], positions'[c]) = Proof(positions[t], positions[c])
  BY <1>4, <1>8, SamePairs
<1>10. Proof(positions'[t], positions'[c]) \in ToSet(history')
  BY <1>3, <1>5, <1>9 DEF Proved
<1>11. ASSUME NEW i \in DOMAIN positions' PROVE PositionPaired(i)'
  <2>1. CASE i \in {t, c}
    BY <1>1, <1>8, <1>9, <1>10, <2>1 DEF PositionPaired, Proved
  <2>2. CASE i \notin {t, c}
    BY <1>1, <2>2, PositionKept DEF Paired
  <2> QED
    BY <2>1, <2>2
<1> QED
  BY <1>7, <1>11 DEF Paired

LEMMA PairedStep ==
    ASSUME Memory, Midnight!TypeOK, Fresh, BookSealed, Paired, [Next]_vars
    PROVE  Paired'
<1>0. Idle \in Requests /\ request \in [Clients -> Requests]
  BY IdleIsARequest DEF Memory
<1>1. CASE Restart
  BY <1>1, AllForgotten DEF Paired, RequestPaired
<1>2. CASE ~Restart
  <2>0. Grows
    BY <1>2, BookGrows
  <2>1. CASE UNCHANGED <<positions, request>>
    BY <2>0, <2>1, RequestKept, PositionKept DEF Paired
  <2>2. ASSUME NEW r \in Clients, NEW q \in Requests, Become(r, q), UNCHANGED positions,
               q.pc \notin {"opening_other", "matching"}
        PROVE  Paired'
    <3>1. RequestPaired(r)'
      BY <2>2, Becomes DEF RequestPaired, Memory
    <3> QED
      BY <2>0, <2>2, <3>1, PairedKept
  <2>3. ASSUME NEW r \in Clients, Ends(r) \/ Takes(r) \/ Goes(r) PROVE Paired'
    BY <2>2, <2>3 DEF Ends, Takes, Goes, BodyPcs, PolygonPcs
  <2>4. ASSUME NEW r \in Clients, Seals(r) PROVE Paired'
    <3>1. PICK q \in Requests :
            /\ q.pc \in Drafting /\ Become(r, q) /\ UNCHANGED positions
            /\ q.pc = "opening_other" => Opposed(q.own, positions[q.target])
      BY <2>4 DEF Seals
    <3>2. RequestPaired(r)'
      BY <3>1, Becomes DEF RequestPaired, Memory, Drafting
    <3> QED
      BY <2>0, <3>1, <3>2, PairedKept
  <2>5. ASSUME NEW r \in Clients, Lands(r) PROVE Paired'
    <3>1. PICK q \in Requests :
            /\ request[r].pc \in MidnightPcs /\ Include(Circuit(request[r]))
            /\ q.pc = request[r].pc /\ (q.pc \in Owning => q.own = request[r].own)
            /\ q.pc \in Targeting => q.target = request[r].target
            /\ Become(r, q) /\ UNCHANGED positions
      BY <2>5 DEF Lands
    <3>2. request'[r] = q
      BY <3>1, Becomes DEF Memory
    <3>3. ASSUME q.pc = "opening_other" PROVE RequestPaired(r)'
      BY <3>1, <3>2, <3>3 DEF Paired, RequestPaired, Owning, Targeting
    <3>4. ASSUME q.pc = "matching" PROVE RequestPaired(r)'
      <4>1. /\ Opposed(q.own, positions[q.target]) /\ Same(q.own, positions[q.own.id])
            /\ q.own = request[r].own /\ q.target = request[r].target
        BY <3>1, <3>4 DEF Paired, RequestPaired, Owning, Targeting
      <4>2. Midnight!match_positions(OpeningOf(positions[q.target]), OpeningOf(q.own))
        BY <3>1, <3>4, <4>1 DEF Include, Circuit
      <4>3. history' = Append(history, Proof(positions[q.target], q.own))
        BY <4>2 DEF Midnight!match_positions, Midnight!AddMatched, Midnight!Record, Proof
      <4>4. Proof(positions[q.target], q.own) = Proof(positions[q.target], positions[q.own.id])
        BY <4>1, SamePairs DEF Same
      <4>5. Proof(positions[q.target], q.own) \in ToSet(history')
        <5> DEFINE p == Proof(positions[q.target], q.own)
        <5>1. history \in Seq(Midnight!Calls)
          BY DEF Midnight!TypeOK
        <5> HIDE DEF p
        <5>2. Len(history) + 1 \in DOMAIN history' /\ history'[Len(history) + 1] = p
          BY <4>3, <5>1, Appended DEF p
        <5> QED
          BY <5>2 DEF ToSet, p
      <4> QED
        BY <3>1, <3>2, <3>4, <4>1, <4>4, <4>5 DEF RequestPaired, Proved
    <3>5. RequestPaired(r)'
      BY <3>2, <3>3, <3>4 DEF RequestPaired
    <3> QED
      BY <2>0, <3>1, <3>5, PairedKept
  <2>6. ASSUME NEW r \in Clients, CoverDone(r) PROVE Paired'
    <3> DEFINE t == request[r].target
    <3>1. /\ t \in DOMAIN positions /\ DOMAIN positions' = DOMAIN positions
          /\ positions'[t] = Covered(positions[t], request[r].slot)
          /\ \A i \in DOMAIN positions \ {t} : positions'[i] = positions[i]
      BY <2>6, OneCovered DEF CoverDone
    <3>2. positions[t] \in Position /\ request[r].slot \in Slots
      BY <2>6, <3>1, Shapes, LenProperties DEF Memory, CoverDone, At
    <3>3. positions'[t].status = "covered"
      BY <3>1, <3>2, CoveredPosition
    <3> HIDE DEF t
    <3>4. Idle \in Requests /\ Become(r, Idle)
      BY <2>6, IdleIsARequest DEF CoverDone, CloseCovered, Finish
    <3>5. RequestPaired(r)'
      BY <3>4, IdleIsARequest, Becomes DEF RequestPaired, Memory
    <3> QED
      BY <2>0, <3>1, <3>3, <3>4, <3>5, PairedKept
  <2> QED
    BY <1>2, <2>0, <2>1, <2>3, <2>4, <2>5, <2>6, PairedListing, PairedClosing, KindsOfStep
<1> QED
  BY <1>1, <1>2

\* Whatever fails and however handlers interleave, a position shown as
\* matched was proved on Midnight against the one it is shown with: opposite
\* sides, two wallets, one market (server.ts:494, 499, 534-541).
THEOREM WhatIsMatchedWasProved == Spec => []MatchedIsProved
<1> DEFINE All == Memory /\ Midnight!TypeOK /\ Fresh /\ BookSealed /\ Paired
<1>1. Init => All
  BY MemoryInit, LedgerInit, FreshInit, SealedInit, PairedInit
<1>2. All /\ [Next]_vars => All'
  BY MemoryStep, LedgerStep, FreshStep, SealedStep, PairedStep
<1>3. Memory /\ Paired => MatchedIsProved
  <2> SUFFICES ASSUME Memory, Paired, NEW i \in DOMAIN positions, positions[i].status = "matched"
               PROVE  LET j == positions[i].matchedWith
                          a == OpeningOf(positions[i])
                          b == OpeningOf(positions[j])
                      IN /\ \/ Midnight!Included(Midnight!Call("match_positions", a, b))
                            \/ Midnight!Included(Midnight!Call("match_positions", b, a))
                         /\ a.side # b.side
                         /\ positions[i].wallet # positions[j].wallet
                         /\ positions[i].conditionId = positions[j].conditionId
    BY DEF MatchedIsProved
  <2> DEFINE j == positions[i].matchedWith
  <2>1. /\ j \in DOMAIN positions /\ Opposed(positions[i], positions[j])
        /\ Proved(positions[i], positions[j]) \/ Proved(positions[j], positions[i])
    BY DEF Paired, PositionPaired
  <2>2. positions[i].side \in {"YES", "NO"} /\ positions[j].side \in {"YES", "NO"}
    <3>1. positions[i] \in Position /\ positions[j] \in Position
      BY <2>1, LenProperties DEF Memory
    <3> QED
      BY <3>1 DEF Position
  <2>3. OpeningOf(positions[i]).side # OpeningOf(positions[j]).side
    BY <2>1, <2>2 DEF Opposed, OpeningOf
  <2> QED
    BY <2>1, <2>3 DEF Opposed, Proved, Proof, Midnight!Included, Midnight!ToSet, ToSet
<1> QED
  BY <1>1, <1>2, <1>3, PTL DEF Spec

-----------------------------------------------------------------------------
(* What is filled on Polygon is sealed on Midnight                         *)

\* A size in units of the vault, and the side it is on, as they were sealed.
BackedBy(sealed, side, size, blind) ==
    \E n \in Sizes : /\ size = n * Unit
                     /\ <<[side |-> side = "YES", size |-> n], blind>> \in sealed

LEMMA BackedByMore ==
    ASSUME NEW sealed, NEW more, sealed \subseteq more, NEW side, NEW size, NEW blind,
           BackedBy(sealed, side, size, blind)
    PROVE  BackedBy(more, side, size, blind)
BY DEF BackedBy

\* A fill that is not yet mined.
Pending(s) == s \in polygonLate \/ \E r \in Clients : request[r].pc \in PolygonPcs
                                                      /\ s = Settle(request[r])

FillBacked(f) ==
    /\ f.address \in Addresses /\ f.address <= address
    /\ <<f.address, f.slot>> \in settled
    /\ \E i \in DOMAIN settlements : Vault!Key(settlements[i]) = <<f.address, f.slot>>
    /\ f.address = address => \A i \in DOMAIN settlements :
          Vault!Key(settlements[i]) = <<f.address, f.slot>>
              => BackedBy(commitments, settlements[i].side, settlements[i].size, f.blind)

\* Every fill names a settlement, and those for the contract the server uses
\* are backed by a commitment, as are the ones still on their way.
FillsBacked ==
    /\ \A i \in DOMAIN settlements : Vault!Key(settlements[i]) \in settled
    /\ \A s \in polygonLate :
          /\ s.address <= address
          /\ s.address = address => BackedBy(commitments, s.side, s.size, s.blind)
    /\ \A f \in fills : FillBacked(f)

LEMMA FillsInit == Init => FillsBacked
BY DEF Init, Vault!Init, FillsBacked

LEMMA PendingBacked ==
    ASSUME Memory, BookSealed, FillsBacked, NEW s, Pending(s)
    PROVE  /\ s \in Settles /\ s.address <= address
           /\ s.address = address => BackedBy(commitments, s.side, s.size, s.blind)
<1>1. CASE s \in polygonLate
  BY <1>1 DEF FillsBacked, Memory
<1>2. ASSUME NEW r \in Clients, request[r].pc \in PolygonPcs, s = Settle(request[r])
      PROVE  /\ s \in Settles /\ s.address <= address
             /\ s.address = address => BackedBy(commitments, s.side, s.size, s.blind)
  <2> DEFINE p == positions[request[r].target]
  <2>1. p \in Position /\ Commit(p) \in commitments
    BY <1>2, LenProperties DEF Memory, Targets, Targeting, BookSealed
  <2>2. p.size \in Sizes /\ address \in Nat
    <3>1. address \in Nat
      BY DEF Memory, Addresses
    <3> HIDE DEF p
    <3> QED
      BY <2>1, <3>1 DEF Position
  <2>3. s.address = address /\ s.side = p.side /\ s.size = p.size * Unit /\ s.blind = p.blind
    BY <1>2 DEF Settle, Settlement
  <2>4. Commit(p) = <<[side |-> p.side = "YES", size |-> p.size], p.blind>>
    BY DEF Commit
  <2> HIDE DEF p
  <2>5. BackedBy(commitments, s.side, s.size, s.blind)
    BY <2>1, <2>2, <2>3, <2>4 DEF BackedBy
  <2> QED
    BY <1>2, <2>2, <2>3, <2>5, SettleTyped
<1> QED
  BY <1>1, <1>2 DEF Pending

\* The contract in use keeps what it sealed, or there is a new one.
LEMMA AddressSteps ==
    ASSUME Memory, Midnight!TypeOK, [Next]_vars
    PROVE  \/ UNCHANGED address /\ commitments \subseteq commitments'
           \/ address' = address + 1
<1>1. CASE Restart
  BY <1>1 DEF Restart, NewContract, ledger
<1>2. CASE ~Restart
  <2>1. UNCHANGED address
    <3>1. CASE UNCHANGED vars \/ Boot \/ Trading \/ MidnightBlock \/ PolygonBlock
      BY <3>1 DEF vars, midnight, Boot, BootOne, BootDone, Trading, MidnightBlock, PolygonBlock
    <3>2. ASSUME NEW r \in Clients, Arrive(r) \/ Body(r) PROVE UNCHANGED address
      BY <3>2 DEF Arrive, Body, Refuse, OpenBegin, MatchBegin,
                  OpenBadBody, MatchBadSize, CoverBegin, SealOther,
                  SealDraft, StartCover, midnight
    <3>3. ASSUME NEW r \in Clients, Resume(r) PROVE UNCHANGED address
      BY <3>3 DEF Resume, OpenDone, MatchOpened, ListOther, MatchDone, CoverReadFree,
                  CoverReadSettled, CoverWrite, CoverReceipt, CoverDone, CloseCovered, Throw,
                  ThrowAndLeave, Proceed, midnight
    <3> QED
      BY <1>2, <3>1, <3>2, <3>3, NextIsAStep DEF AnyStep
  <2> QED
    BY <1>2, <2>1, LedgerGrows
<1> QED
  BY <1>1, <1>2

\* Only what was pending is mined, and only what a request sent is left behind.
LEMMA PendingSteps ==
    ASSUME Memory, [Next]_vars
    PROVE  /\ \A s \in polygonLate' : Pending(s)
           /\ PolygonBlock => \E s, outcome : Pending(s) /\ Mine(s, outcome)
<1>1. PolygonBlock => \E s, outcome : Pending(s) /\ Mine(s, outcome)
  BY DEF PolygonBlock, Pending, At, PolygonPcs
<1>2. \A s \in polygonLate' : Pending(s)
  <2>1. CASE UNCHANGED vars \/ Boot \/ Trading \/ MidnightBlock \/ PolygonBlock
    BY <2>1 DEF vars, polygon, Boot, BootOne, BootDone, Trading, MidnightBlock, PolygonBlock,
       Pending
  <2>2. CASE Restart
    BY <2>2 DEF Restart, Critical, Sent, Pending, PolygonPcs
  <2>3. ASSUME NEW r \in Clients, Arrive(r) \/ Body(r) PROVE UNCHANGED polygonLate
    BY <2>3 DEF Arrive, Body, Refuse, OpenBegin, MatchBegin,
                OpenBadBody, MatchBadSize, CoverBegin, SealOther,
                SealDraft, StartCover, polygon
  <2>4. ASSUME NEW r \in Clients, Resume(r) PROVE \A s \in polygonLate' : Pending(s)
    <3>1. CASE ThrowAndLeave(r)
      BY <3>1 DEF ThrowAndLeave, Pending, At, PolygonPcs
    <3>2. CASE ~ThrowAndLeave(r)
      BY <2>4, <3>2 DEF Resume, OpenDone, MatchOpened, ListOther, MatchDone, CoverReadFree,
                CoverReadSettled, CoverWrite, CoverReceipt, CoverDone, CloseCovered, Throw,
                Proceed, polygon, Pending
    <3> QED
      BY <3>1, <3>2
  <2> QED
    BY <2>1, <2>2, <2>3, <2>4, NextIsAStep DEF AnyStep, Pending
<1> QED
  BY <1>1, <1>2

\* A settlement is for one pending fill, under a key not yet settled.
LEMMA FillsStep ==
    ASSUME Memory, Midnight!TypeOK, VaultBooks, BookSealed, FillsBacked, [Next]_vars
    PROVE  FillsBacked'
<1>0. address \in Nat /\ \A s \in Settles : s.address \in Nat /\ s.slot \in Slots
  BY ServerAssumption DEF Memory, Addresses, Settles
<1>1. \A side, size, blind :
          UNCHANGED address /\ BackedBy(commitments, side, size, blind)
              => BackedBy(commitments', side, size, blind)
  BY <1>0, AddressSteps, BackedByMore
<1>2. address <= address' /\ address' \in Nat
      /\ \A a \in Nat : a <= address => a <= address' /\ (a = address' => UNCHANGED address)
  BY <1>0, AddressSteps
<1>3. \A s \in polygonLate' :
          /\ s.address <= address'
          /\ s.address = address' => BackedBy(commitments', s.side, s.size, s.blind)
  BY <1>0, <1>1, <1>2, PendingSteps, PendingBacked
<1>4. ASSUME settlements' = settlements, settled' = settled, fills' = fills PROVE FillsBacked'
  <2>1. \A f \in fills : FillBacked(f)'
    <3> SUFFICES ASSUME NEW f \in fills PROVE FillBacked(f)'
      OBVIOUS
    <3>1. FillBacked(f) /\ f.address \in Nat
      BY ServerAssumption DEF FillsBacked, FillBacked, Addresses
    <3>2. /\ f.address <= address'
          /\ f.address = address' => UNCHANGED address /\ f.address = address
      BY <1>2, <3>1 DEF FillBacked
    <3> QED
      BY <1>1, <1>4, <3>1, <3>2 DEF FillBacked
  <2> QED
    BY <1>3, <1>4, <2>1 DEF FillsBacked
<1>5. ASSUME NEW s \in Settles, Pending(s), Mine(s, "settled"), UNCHANGED address
      PROVE  FillsBacked'
  <2> DEFINE rec == SettlementOn(s)  n == Len(settlements) + 1  key == <<s.address, s.slot>>
  <2>1. /\ rec \in Vault!Settlement /\ settlements' = Append(settlements, rec)
        /\ settled' = settled \union {key} /\ key \notin settled
        /\ fills' = fills \union {Fill(s)}
    BY <1>5, SettlementRecorded
  <2>2. Vault!Key(rec) = key /\ rec.side = s.side /\ rec.size = s.size
    BY DEF SettlementOn, Vault!Key
  <2>3. Fill(s).address = s.address /\ Fill(s).slot = s.slot /\ Fill(s).blind = s.blind
    BY DEF Fill
  <2> HIDE DEF rec, n
  <2>4. /\ DOMAIN settlements' = DOMAIN settlements \union {n} /\ n \notin DOMAIN settlements
        /\ \A i \in DOMAIN settlements : settlements'[i] = settlements[i]
        /\ settlements'[n] = rec
    BY <2>1, Appended DEF VaultBooks, n
  <2>5. \A i \in DOMAIN settlements' : Vault!Key(settlements'[i]) \in settled'
    BY <2>1, <2>2, <2>4 DEF FillsBacked
  <2>6. /\ s.address <= address
        /\ s.address = address => BackedBy(commitments, s.side, s.size, s.blind)
    BY <1>5, PendingBacked
  <2>7. \A i \in DOMAIN settlements : Vault!Key(settlements[i]) # key
    BY <2>1 DEF FillsBacked
  <2>8. FillBacked(Fill(s))'
    <3>1. Fill(s).address \in Addresses
      BY <2>3 DEF Settles
    <3>2. /\ n \in DOMAIN settlements'
          /\ Vault!Key(settlements'[n]) = <<Fill(s).address, Fill(s).slot>>
      BY <2>2, <2>3, <2>4
    <3>3. \A i \in DOMAIN settlements' : Vault!Key(settlements'[i]) = key => i = n
      BY <2>4, <2>7
    <3> QED
      BY <1>1, <1>5, <2>1, <2>2, <2>3, <2>4, <2>6, <3>1, <3>2, <3>3 DEF FillBacked
  <2>9. \A f \in fills : FillBacked(f)'
    <3> SUFFICES ASSUME NEW f \in fills PROVE FillBacked(f)'
      OBVIOUS
    <3>1. FillBacked(f)
      BY DEF FillsBacked
    <3>2. PICK i \in DOMAIN settlements : Vault!Key(settlements[i]) = <<f.address, f.slot>>
      BY <3>1 DEF FillBacked
    <3>3. i \in DOMAIN settlements' /\ Vault!Key(settlements'[i]) = <<f.address, f.slot>>
      BY <2>4, <3>2
    <3>4. \A k \in DOMAIN settlements' : Vault!Key(settlements'[k]) = <<f.address, f.slot>>
              => k \in DOMAIN settlements /\ settlements'[k] = settlements[k]
      <4>1. key # <<f.address, f.slot>>
        BY <2>1, <3>1 DEF FillBacked
      <4> QED
        BY <2>2, <2>4, <4>1
    <3>5. f.address = address' => \A k \in DOMAIN settlements' :
              Vault!Key(settlements'[k]) = <<f.address, f.slot>>
                 => BackedBy(commitments', settlements'[k].side, settlements'[k].size, f.blind)
      BY <1>1, <1>5, <3>1, <3>4 DEF FillBacked
    <3> QED
      BY <1>5, <2>1, <3>1, <3>3, <3>5 DEF FillBacked
  <2> QED
    BY <1>3, <2>1, <2>5, <2>8, <2>9 DEF FillsBacked
<1>6. CASE UNCHANGED <<vault, fills>>
  BY <1>4, <1>6 DEF vault
<1>7. CASE Trading
  BY <1>4, <1>7 DEF Trading, Vault!deposit, Vault!withdraw, Vault!WithdrawDebit, Vault!Debit
<1>8. CASE PolygonBlock
  <2>1. PICK s, outcome : Pending(s) /\ Mine(s, outcome)
    BY <1>8, PendingSteps
  <2>2. s \in Settles
    BY <2>1, PendingBacked
  <2>3. CASE UNCHANGED <<vault, fills>>
    BY <1>6, <2>3
  <2>4. CASE Mine(s, "settled")
    BY <1>5, <1>8, <2>1, <2>2, <2>4 DEF PolygonBlock, midnight
  <2> QED
    BY <2>1, <2>3, <2>4 DEF Mine
<1> QED
  BY <1>6, <1>7, <1>8, VaultSteps

\* Whatever fails and however handlers interleave, every settlement for the
\* contract in use has a commitment there: same side, same size in units of
\* the vault (server.ts:570-577, evm.ts:109).
THEOREM WhatIsFilledIsSealed == Spec => []FillsAreSealed
<1> DEFINE All == Memory /\ Midnight!TypeOK /\ VaultBooks /\ BookSealed /\ FillsBacked
<1>1. Init => All
  BY MemoryInit, LedgerInit, VaultInit, SealedInit, FillsInit
<1>2. All /\ [Next]_vars => All'
  BY MemoryStep, LedgerStep, VaultStep, SealedStep, FillsStep
<1>3. FillsBacked => FillsAreSealed
  <2> SUFFICES ASSUME FillsBacked, NEW f \in fills, f.address = address
               PROVE  BackedBy(commitments, SettlementOf(f).side, SettlementOf(f).size, f.blind)
    BY DEF FillsAreSealed, BackedBy
  <2>1. FillBacked(f)
    BY DEF FillsBacked
  <2>2. \E s \in ToSet(settlements) : Vault!Key(s) = <<f.address, f.slot>>
    BY <2>1 DEF FillBacked, ToSet
  <2>3. SettlementOf(f) \in ToSet(settlements)
        /\ Vault!Key(SettlementOf(f)) = <<f.address, f.slot>>
    BY <2>2 DEF SettlementOf
  <2>4. PICK i \in DOMAIN settlements : settlements[i] = SettlementOf(f)
    BY <2>3 DEF ToSet
  <2> QED
    BY <2>1, <2>3, <2>4 DEF FillBacked
<1> QED
  BY <1>1, <1>2, <1>3, PTL DEF Spec

-----------------------------------------------------------------------------
(* The book refines OrderBook                                              *)

\* Where requests do not overlap, what a request is about is still open, and
\* only a match leaves a partner behind.
BookOpen ==
    /\ \A r \in Clients :
          /\ request[r].pc \in Targeting => positions[request[r].target].status = "open"
          /\ request[r].pc = "matching" => positions[request[r].own.id].status = "open"
    /\ \A i \in DOMAIN positions :
          positions[i].status # "matched" => positions[i].matchedWith = NoMatch

LEMMA OpenInit == Init => BookOpen
BY IdleIsARequest DEF Init, BookOpen, Targeting, PolygonPcs

\* Listed positions are left as they are.
LEMMA OpenKept ==
    ASSUME Memory, BookOpen, NEW r \in Clients, NEW q \in Requests, Become(r, q),
           \A i \in DOMAIN positions : i \in DOMAIN positions' /\ positions'[i] = positions[i],
           \A i \in DOMAIN positions' \ DOMAIN positions :
              positions'[i].status # "matched" => positions'[i].matchedWith = NoMatch,
           q.pc \in Targeting => positions'[q.target].status = "open",
           q.pc = "matching" => positions'[q.own.id].status = "open"
    PROVE  BookOpen'
<1>1. /\ request'[r] = q
      /\ \A s \in Clients : s # r => request'[s] = request[s]
  BY Becomes DEF Memory
<1>2. \A s \in Clients :
          /\ request[s].pc \in Targeting => request[s].target \in DOMAIN positions
          /\ request[s].pc = "matching" => request[s].own.id \in DOMAIN positions
  BY DEF Memory, Targets
<1> QED
  BY <1>1, <1>2 DEF BookOpen

\* Once positions are closed nothing waits for a transaction any more.
LEMMA OpenClosing ==
    ASSUME Memory, Alone, BookOpen, NEW r \in Clients, MatchDone(r) \/ CoverDone(r)
    PROVE  BookOpen'
<1>1. Idle \in Requests /\ Idle.pc = "idle" /\ Become(r, Idle) /\ request[r].pc # "idle"
  BY IdleIsARequest DEF MatchDone, CoverDone, CloseCovered, Finish, At
<1>2. \A s \in Clients : request'[s].pc = "idle"
  BY <1>1, Becomes DEF Memory, Alone
<1>3. \A i \in DOMAIN positions : i \in Nat /\ positions[i] \in Position
  BY LenProperties DEF Memory
<1>4. \A i \in DOMAIN positions' :
          positions'[i].status # "matched" => positions'[i].matchedWith = NoMatch
  <2>1. CASE MatchDone(r)
    <3> DEFINE t == request[r].target  c == request[r].own.id
    <3>1. /\ t \in DOMAIN positions /\ c \in DOMAIN positions \ {t}
          /\ DOMAIN positions' = DOMAIN positions
          /\ positions'[t] = Matched(positions[t], c)
          /\ positions'[c] = Matched(positions[c], t)
          /\ \A i \in DOMAIN positions \ {t, c} : positions'[i] = positions[i]
      BY <2>1, BothClosed DEF MatchDone
    <3> HIDE DEF t, c
    <3>2. positions'[t].status = "matched" /\ positions'[c].status = "matched"
      BY <1>3, <3>1, MatchedPosition
    <3> QED
      BY <3>1, <3>2 DEF BookOpen
  <2>2. CASE CoverDone(r)
    <3> DEFINE t == request[r].target
    <3>1. /\ t \in DOMAIN positions /\ DOMAIN positions' = DOMAIN positions
          /\ positions'[t] = Covered(positions[t], request[r].slot)
          /\ \A i \in DOMAIN positions \ {t} : positions'[i] = positions[i]
          /\ positions[t].status = "open" /\ request[r].slot \in Slots
      BY <2>2, OneCovered, Shapes DEF CoverDone, At, BookOpen, Targeting, Memory
    <3> HIDE DEF t
    <3>2. positions'[t].matchedWith = positions[t].matchedWith
      BY <1>3, <3>1, CoveredPosition
    <3> QED
      BY <3>1, <3>2 DEF BookOpen
  <2> QED
    BY <2>1, <2>2
<1> QED
  BY <1>2, <1>4 DEF BookOpen, Targeting, PolygonPcs

LEMMA OpenStep ==
    ASSUME Memory, Fresh, Alone, BookOpen, [Next]_vars
    PROVE  BookOpen'
<1>0. Idle \in Requests /\ Idle.pc = "idle" /\ "idle" \notin Targeting
  BY IdleIsARequest DEF Targeting, PolygonPcs
<1>1. CASE Restart
  BY <1>1, AllForgotten DEF BookOpen, Targeting, PolygonPcs
<1>2. CASE UNCHANGED <<positions, request>>
  BY <1>2 DEF BookOpen
<1>3. ASSUME NEW r \in Clients, NEW q \in Requests, Become(r, q), UNCHANGED positions,
             q.pc \in Targeting => positions[q.target].status = "open",
             q.pc = "matching" => positions[q.own.id].status = "open"
      PROVE  BookOpen'
  BY <1>3, OpenKept
<1>4. ASSUME NEW r \in Clients, Ends(r) PROVE BookOpen'
  BY <1>3, <1>4 DEF Ends, Targeting, PolygonPcs, BodyPcs
<1>5. ASSUME NEW r \in Clients, Seals(r) PROVE BookOpen'
  BY <1>3, <1>5 DEF Seals, Targeting, PolygonPcs, Drafting
<1>6. ASSUME NEW r \in Clients, Takes(r) \/ Goes(r) PROVE BookOpen'
  BY <1>3, <1>6 DEF Takes, Goes, Targeting, PolygonPcs, BookOpen
<1>7. ASSUME NEW r \in Clients, Lands(r) PROVE BookOpen'
  BY <1>3, <1>7 DEF Lands, Targeting, Owning, BookOpen
<1>8. ASSUME NEW r \in Clients, OpenDone(r) \/ MatchOpened(r) PROVE BookOpen'
  <2> DEFINE own == request[r].own
             one == [own EXCEPT !.id = nextId]
  <2>1. /\ own \in Position /\ request[r].pc \in Drafting
        /\ DOMAIN positions' = DOMAIN positions \union {nextId} /\ nextId \notin DOMAIN positions
        /\ \A i \in DOMAIN positions : positions'[i] = positions[i]
        /\ positions'[nextId] = one
    BY <1>8, DraftListed
  <2>2. own.status = "open" /\ own.matchedWith = NoMatch
    BY <2>1 DEF Fresh
  <2>3. one.status = "open" /\ one.matchedWith = NoMatch
    BY <2>1, <2>2 DEF Position
  <2> HIDE DEF one
  <2>4. CASE OpenDone(r)
    <3>1. Become(r, Idle)
      BY <2>4 DEF OpenDone, Finish
    <3> QED
      BY <1>0, <2>1, <2>3, <3>1, OpenKept
  <2>5. CASE MatchOpened(r)
    <3> DEFINE q == MatchingOf(one, request[r].target)
    <3>1. q \in Requests /\ Become(r, q) /\ q.own.id = nextId
          /\ request[r].target \in DOMAIN positions /\ request[r].pc = "opening_other"
      BY <2>5, MatchProceeds DEF one
    <3>2. q.target = request[r].target
      BY DEF MatchingOf
    <3>3. positions'[q.target].status = "open"
      BY <2>1, <3>1, <3>2 DEF BookOpen, Targeting
    <3> HIDE DEF q
    <3> QED
      BY <2>1, <2>3, <3>1, <3>3, OpenKept
  <2> QED
    BY <1>8, <2>4, <2>5
<1> QED
  BY <1>1, <1>2, <1>4, <1>5, <1>6, <1>7, <1>8, OpenClosing, KindsOfStep

\* The book of OrderBook that the positions stand for.
Shown == [i \in DOMAIN positions |-> Entry(positions[i])]

LEMMA BookListing ==
    ASSUME Memory, Fresh, NEW r \in Clients, OpenDone(r) \/ MatchOpened(r)
    PROVE  Shown' = Append(Shown, [status |-> "open", with |-> 0])
<1> DEFINE own == request[r].own
           entries == [status : {"open", "matched", "covered"}, with : Nat]
           n == Len(positions)
<1>1. /\ own \in Position /\ request[r].pc \in Drafting
      /\ DOMAIN positions' = DOMAIN positions \union {nextId} /\ nextId \notin DOMAIN positions
      /\ \A i \in DOMAIN positions : positions'[i] = positions[i]
      /\ positions'[nextId] = [own EXCEPT !.id = nextId]
  BY DraftListed
<1>2. own.status = "open" /\ own.matchedWith = NoMatch
  BY <1>1 DEF Fresh
<1>3. Entry(positions'[nextId]) = [status |-> "open", with |-> 0]
  BY <1>1, <1>2 DEF Position, Entry, NoMatch
<1>4. /\ n \in Nat /\ DOMAIN positions = 1..n /\ nextId = n + 1
      /\ \A i \in 1..n : positions[i] \in Position
  BY LenProperties DEF Memory
<1>5. \A i \in 1..n : Entry(positions[i]) \in entries
  BY <1>4 DEF Entry, Position
<1> HIDE DEF n
<1>6. Shown \in [1..n -> entries]
  BY <1>4, <1>5 DEF Shown
<1> HIDE DEF entries, own
<1>7. Shown \in Seq(entries) /\ Len(Shown) = n
  <2>1. Shown \in Seq(entries)
    BY <1>4, <1>6 DEF Seq
  <2> QED
    BY <1>4, <1>6, <2>1, LenProperties
<1>8. \A i \in 1..n : Shown[i] = Entry(positions[i])
  BY <1>4 DEF Shown
<1>9. Append(Shown, [status |-> "open", with |-> 0])
          = [i \in 1..(n + 1) |-> IF i = n + 1 THEN [status |-> "open", with |-> 0] ELSE Shown[i]]
  BY <1>4, <1>7
<1>10. Shown' = [i \in 1..(n + 1) |-> Entry(positions'[i])]
  <2>1. DOMAIN positions' = 1..(n + 1)
    BY <1>1, <1>4
  <2> QED
    BY <2>1 DEF Shown
<1>11. \A i \in 1..(n + 1) : Entry(positions'[i])
          = IF i = n + 1 THEN [status |-> "open", with |-> 0] ELSE Shown[i]
  BY <1>1, <1>3, <1>4, <1>8
<1> QED
  BY <1>9, <1>10, <1>11

LEMMA BookMatching ==
    ASSUME Memory, BookOpen, NEW r \in Clients, MatchDone(r)
    PROVE  \E i, j \in DOMAIN Shown : Book!Match(i, j)
<1> DEFINE t == request[r].target  c == request[r].own.id
<1>1. /\ t \in DOMAIN positions /\ c \in DOMAIN positions \ {t}
      /\ DOMAIN positions' = DOMAIN positions
      /\ positions'[t] = Matched(positions[t], c)
      /\ positions'[c] = Matched(positions[c], t)
      /\ \A i \in DOMAIN positions \ {t, c} : positions'[i] = positions[i]
  BY BothClosed DEF MatchDone
<1>2. positions[t].status = "open" /\ positions[c].status = "open"
  BY DEF BookOpen, MatchDone, At, Targeting
<1>3. \A i \in DOMAIN positions : i \in Nat /\ positions[i] \in Position
  BY LenProperties DEF Memory
<1> HIDE DEF t, c
<1>4. /\ positions[t].matchedWith = NoMatch /\ positions[c].matchedWith = NoMatch
      /\ positions'[t].status = "matched" /\ positions'[t].matchedWith = c
      /\ positions'[c].status = "matched" /\ positions'[c].matchedWith = t
  BY <1>1, <1>2, <1>3, MatchedPosition DEF BookOpen
<1>5. /\ Shown[t] = Book!Open /\ Shown[c] = Book!Open
      /\ Shown'[t] = Book!MatchedWith(c) /\ Shown'[c] = Book!MatchedWith(t)
  BY <1>1, <1>2, <1>4 DEF Shown, Entry, NoMatch, Book!Open, Book!MatchedWith
<1>6. /\ DOMAIN Shown = DOMAIN positions /\ DOMAIN Shown' = DOMAIN positions
      /\ \A i \in DOMAIN positions \ {t, c} : Shown'[i] = Shown[i]
  BY <1>1 DEF Shown
<1>7. Shown' = [Shown EXCEPT ![t] = Book!MatchedWith(c), ![c] = Book!MatchedWith(t)]
  <2> DEFINE new == [Shown EXCEPT ![t] = Book!MatchedWith(c), ![c] = Book!MatchedWith(t)]
  <2>1. DOMAIN new = DOMAIN positions
        /\ \A i \in DOMAIN positions : new[i] = Shown'[i]
    BY <1>1, <1>5, <1>6
  <2>2. Shown' = [i \in DOMAIN positions |-> Shown'[i]] /\ new = [i \in DOMAIN positions |-> new[i]]
    BY <1>1, <1>6 DEF Shown
  <2> HIDE DEF new
  <2> QED
    BY <2>1, <2>2 DEF new
<1> QED
  BY <1>1, <1>5, <1>6, <1>7 DEF Book!Match, Shown

LEMMA BookCovering ==
    ASSUME Memory, BookOpen, NEW r \in Clients, CoverDone(r)
    PROVE  \E i \in DOMAIN Shown : Book!Cover(i)
<1> DEFINE t == request[r].target
<1>1. /\ t \in DOMAIN positions /\ DOMAIN positions' = DOMAIN positions
      /\ positions'[t] = Covered(positions[t], request[r].slot)
      /\ \A i \in DOMAIN positions \ {t} : positions'[i] = positions[i]
      /\ positions[t].status = "open" /\ request[r].slot \in Slots
  BY OneCovered, Shapes DEF CoverDone, At, BookOpen, Targeting, Memory
<1>2. \A i \in DOMAIN positions : i \in Nat /\ positions[i] \in Position
  BY LenProperties DEF Memory
<1> HIDE DEF t
<1>3. /\ positions[t].matchedWith = NoMatch
      /\ positions'[t].status = "covered" /\ positions'[t].matchedWith = NoMatch
  BY <1>1, <1>2, CoveredPosition DEF BookOpen
<1>4. Shown[t] = Book!Open /\ Shown'[t] = Book!Covered
  BY <1>1, <1>3 DEF Shown, Entry, NoMatch, Book!Open, Book!Covered
<1>5. /\ DOMAIN Shown = DOMAIN positions /\ DOMAIN Shown' = DOMAIN positions
      /\ \A i \in DOMAIN positions \ {t} : Shown'[i] = Shown[i]
  BY <1>1 DEF Shown
<1>6. Shown' = [Shown EXCEPT ![t] = Book!Covered]
  <2>1. Shown' = [i \in DOMAIN positions |-> Shown'[i]]
    BY <1>1, <1>5 DEF Shown
  <2> QED
    BY <1>1, <1>4, <1>5, <2>1
<1> QED
  BY <1>1, <1>4, <1>5, <1>6 DEF Book!Cover, Shown

\* Every step is one of OrderBook's, or none.
LEMMA BookStep ==
    ASSUME Memory, Fresh, BookOpen, [Next]_vars
    PROVE  Book!Next \/ UNCHANGED Shown
<1>1. CASE UNCHANGED positions
  BY <1>1 DEF Shown
<1>2. CASE Restart
  BY <1>2, AllForgotten DEF Book!Next, Book!Forget
<1>3. ASSUME NEW r \in Clients, OpenDone(r) \/ MatchOpened(r) PROVE Book!Next
  BY <1>3, BookListing DEF Book!Next, Book!List, Book!Open, Shown
<1>4. ASSUME NEW r \in Clients, MatchDone(r) PROVE Book!Next
  BY <1>4, BookMatching DEF Book!Next, Shown
<1>5. ASSUME NEW r \in Clients, CoverDone(r) PROVE Book!Next
  BY <1>5, BookCovering DEF Book!Next, Shown
<1> QED
  BY <1>1, <1>2, <1>3, <1>4, <1>5, KindsOfStep DEF Ends, Seals, Takes, Goes, Lands

\* Where requests do not overlap, the backend implements the abstract book,
\* whatever else fails: a position leaves the open state once, one of two
\* ways, and a match takes both of its positions (server.ts:8).
THEOREM TheBookIsKept ==
    ASSUME "overlap" \notin Faults
    PROVE  Spec => LeavesTheBookOnce
<1> DEFINE All == Memory /\ Fresh /\ Alone /\ BookOpen
<1>1. Init => All
  BY MemoryInit, FreshInit, AloneInit, OpenInit
<1>2. All /\ [Next]_vars => All'
  BY MemoryStep, FreshStep, AloneStep, OpenStep
<1>3. Init => Book!Init
  BY DEF Init, Book!Init
<1>4. All /\ [Next]_vars => [Book!Next]_Shown
  BY BookStep
<1> QED
  BY <1>1, <1>2, <1>3, <1>4, PTL DEF Spec, LeavesTheBookOnce, Book!Spec, Shown

-----------------------------------------------------------------------------
(* What closes a commitment, and what the book says of it                  *)

\* What has happened on the chains for a request that is not over.
HasProved(q) == q.pc = "matching" /\ q.tx = "included"
HasFilled(q) == (q.pc = "receipt" /\ q.tx = "settled") \/ q.pc = "marking"
HasMarked(q) == q.pc = "marking" /\ q.tx = "included"
Silent(q) == ~HasProved(q) /\ ~HasFilled(q) /\ ~HasMarked(q)

MatchedOn(i) == \/ positions[i].status = "matched"
                \/ \E r \in Clients : HasProved(request[r])
                                      /\ i \in {request[r].target, request[r].own.id}
FilledOn(i) == \/ positions[i].status = "covered"
               \/ \E r \in Clients : HasFilled(request[r]) /\ i = request[r].target
MarkedOn(i) == \/ positions[i].status = "covered"
               \/ \E r \in Clients : HasMarked(request[r]) /\ i = request[r].target
OfBlind(b) == {i \in DOMAIN positions : positions[i].blind = b}

\* One request is under way: only it can have done something.
LEMMA AloneOn ==
    ASSUME Memory, Alone, NEW r \in Clients, request[r].pc # "idle", NEW i
    PROVE  /\ MatchedOn(i) <=> \/ positions[i].status = "matched"
                               \/ HasProved(request[r])
                                  /\ i \in {request[r].target, request[r].own.id}
           /\ FilledOn(i) <=> \/ positions[i].status = "covered"
                              \/ HasFilled(request[r]) /\ i = request[r].target
           /\ MarkedOn(i) <=> \/ positions[i].status = "covered"
                              \/ HasMarked(request[r]) /\ i = request[r].target
<1>1. \A s \in Clients : s = r \/ Silent(request[s])
  BY DEF Alone, Silent, HasProved, HasFilled, HasMarked
<1> QED
  BY <1>1 DEF MatchedOn, FilledOn, MarkedOn, Silent

LEMMA AloneOnNext ==
    ASSUME Memory, Alone, NEW r \in Clients, request[r].pc # "idle",
           NEW q \in Requests, Become(r, q), NEW i
    PROVE  /\ MatchedOn(i)' <=> \/ positions'[i].status = "matched"
                                \/ HasProved(q) /\ i \in {q.target, q.own.id}
           /\ FilledOn(i)' <=> \/ positions'[i].status = "covered"
                               \/ HasFilled(q) /\ i = q.target
           /\ MarkedOn(i)' <=> \/ positions'[i].status = "covered"
                               \/ HasMarked(q) /\ i = q.target
<1>1. request'[r] = q /\ \A s \in Clients : s # r => request'[s] = request[s]
  BY Becomes DEF Memory
<1>2. \A s \in Clients : s = r \/ Silent(request'[s])
  BY <1>1 DEF Alone, Silent, HasProved, HasFilled, HasMarked
<1>3. \A s \in Clients : request'[s] = IF s = r THEN q ELSE request'[s]
  BY <1>1
<1> QED
  BY <1>1, <1>2 DEF MatchedOn, FilledOn, MarkedOn, Silent, HasProved, HasFilled, HasMarked

LEMMA UsesRecorded ==
    ASSUME Midnight!TypeOK, NEW call, history' = Append(history, call), NEW op, NEW b
    PROVE  Uses(op, b)' = IF call.op = op /\ b \in {call.a.blind, call.b.blind}
                          THEN Uses(op, b) \union {Len(history) + 1} ELSE Uses(op, b)
<1>1. /\ DOMAIN history' = DOMAIN history \union {Len(history) + 1}
      /\ \A i \in DOMAIN history : history'[i] = history[i]
      /\ history'[Len(history) + 1] = call /\ Len(history) + 1 \notin DOMAIN history
  BY Appended DEF Midnight!TypeOK
<1> QED
  BY <1>1 DEF Uses

\* A request goes on, and nothing happens on a chain.
Continues(r) == \E q \in Requests :
    /\ Become(r, q) /\ UNCHANGED positions
    /\ \/ Silent(request[r]) /\ Silent(q)
       \/ /\ HasFilled(request[r]) /\ ~HasMarked(request[r]) /\ ~HasProved(request[r])
          /\ HasFilled(q) /\ ~HasMarked(q) /\ ~HasProved(q) /\ q.target = request[r].target

\* Its cover is settled.
Sending(r) == At(r, "receipt") /\ request[r].tx = "sent"
Settled(r) ==
    /\ Sending(r) /\ Mine(Settle(request[r]), "settled")
    /\ Become(r, CoverAt("receipt", request[r].target, request[r].slot, "settled"))

Chains == <<ledger, vault, fills>>

LEMMA CalmBody ==
    ASSUME Memory, NEW r \in Clients, Arrive(r) \/ Body(r)
    PROVE  /\ Continues(r) /\ UNCHANGED <<Chains, address, midnightLate, polygonLate>>
           /\ request[r].pc \in {"idle"} \union BodyPcs
<1>1. /\ UNCHANGED <<Chains, address, midnightLate, polygonLate>>
      /\ request[r].pc \in {"idle"} \union BodyPcs
  BY DEF Chains, Arrive, Body, Refuse, OpenBegin, MatchBegin,
         OpenBadBody, MatchBadSize, CoverBegin, SealOther,
         SealDraft, StartCover, At, BodyPcs, midnight, polygon
<1>2. Silent(request[r])
  BY <1>1 DEF Silent, HasProved, HasFilled, HasMarked, BodyPcs
<1>3. \A q \in Requests : q.pc \in {"idle"} \union BodyPcs \union Drafting \union {"read_free"}
          => Silent(q)
  BY DEF Silent, HasProved, HasFilled, HasMarked, BodyPcs, Drafting
<1>4. Continues(r)
  BY <1>2, <1>3, KindsOfBody DEF Ends, Seals, Takes, Continues
<1> QED
  BY <1>1, <1>4

-----------------------------------------------------------------------------
(* One fate for each commitment                                            *)

LateCalls(op, b) == {c \in midnightLate : c.op = op /\ b \in {c.a.blind, c.b.blind}}
LateMarks(b) == {c \in midnightLate : c.op = "mark_covered" /\ c.a.blind = b}
LateFills(b) == {s \in polygonLate : s.address = address /\ s.blind = b}

\* What has closed a commitment on the chains, or still may: a match or a fill.
Deeds(b) ==
    {<<"matched", x>> : x \in Uses("match_positions", b)}
    \union {<<"filled", x>> : x \in FillsOf(b)}
    \union {<<"to match", x>> : x \in LateCalls("match_positions", b)}
    \union {<<"to fill", x>> : x \in LateFills(b)}
MarkDeeds(b) ==
    {<<"marked", x>> : x \in Uses("mark_covered", b)}
    \union {<<"to mark", x>> : x \in LateMarks(b)}

\* The book says so, or is about to.
DeedTold(d, i) == \/ d[1] = "matched" /\ MatchedOn(i)
                  \/ d[1] = "filled" /\ FilledOn(i)
MarkTold(d, i) == \/ d[1] = "marked" /\ MarkedOn(i)
                  \/ d[1] = "to mark" /\ positions[i].status = "covered"

\* A blind that no listed position has, and one may still get.
Reserved(b) == \/ b > blinds
               \/ \E r \in Clients : request[r].pc \in Drafting /\ request[r].own.blind = b

ClosedOnce(b) ==
    /\ \A d, e \in Deeds(b) : d = e
    /\ \A d, e \in MarkDeeds(b) : d = e
    /\ \A i \in OfBlind(b) : /\ \A d \in Deeds(b) : DeedTold(d, i)
                             /\ \A d \in MarkDeeds(b) : MarkTold(d, i)
    /\ Reserved(b) => Deeds(b) = {} /\ MarkDeeds(b) = {}

Once == \A b \in 1..MaxBlinds : ClosedOnce(b)

LEMMA OnceInit == Init => Once
<1> SUFFICES ASSUME Init, NEW b \in 1..MaxBlinds PROVE ClosedOnce(b)
  BY DEF Once
<1>1. /\ positions = <<>> /\ history = <<>> /\ fills = {}
      /\ midnightLate = {} /\ polygonLate = {}
  BY DEF Init, Midnight!Init
<1>2. OfBlind(b) = {} /\ FillsOf(b) = {} /\ \A op : Uses(op, b) = {} /\ LateCalls(op, b) = {}
  BY <1>1 DEF OfBlind, FillsOf, Uses, LateCalls
<1>3. LateMarks(b) = {} /\ LateFills(b) = {}
  BY <1>1 DEF LateMarks, LateFills
<1> QED
  BY <1>2, <1>3 DEF ClosedOnce, Deeds, MarkDeeds

LEMMA DeedsAre ==
    ASSUME NEW b
    PROVE  /\ \A k, x : <<k, x>> \in Deeds(b) <=>
                 \/ k = "matched" /\ x \in Uses("match_positions", b)
                 \/ k = "filled" /\ x \in FillsOf(b)
                 \/ k = "to match" /\ x \in LateCalls("match_positions", b)
                 \/ k = "to fill" /\ x \in LateFills(b)
           /\ \A d \in Deeds(b) : \E k, x : d = <<k, x>>
           /\ \A k, x : <<k, x>> \in MarkDeeds(b) <=>
                 \/ k = "marked" /\ x \in Uses("mark_covered", b)
                 \/ k = "to mark" /\ x \in LateMarks(b)
           /\ \A d \in MarkDeeds(b) : \E k, x : d = <<k, x>>
<1>1. \A k, x : <<k, x>> \in Deeds(b) <=>
                 \/ k = "matched" /\ x \in Uses("match_positions", b)
                 \/ k = "filled" /\ x \in FillsOf(b)
                 \/ k = "to match" /\ x \in LateCalls("match_positions", b)
                 \/ k = "to fill" /\ x \in LateFills(b)
  BY DEF Deeds
<1>2. \A d \in Deeds(b) : \E k, x : d = <<k, x>>
  BY DEF Deeds
<1>3. \A k, x : <<k, x>> \in MarkDeeds(b) <=>
                 \/ k = "marked" /\ x \in Uses("mark_covered", b)
                 \/ k = "to mark" /\ x \in LateMarks(b)
  BY DEF MarkDeeds
<1>4. \A d \in MarkDeeds(b) : \E k, x : d = <<k, x>>
  BY DEF MarkDeeds
<1> QED
  BY <1>1, <1>2, <1>3, <1>4

\* The book and the requests never take back what they tell, and list only
\* what was reserved.
GoesOn ==
    /\ \A i \in DOMAIN positions :
          /\ i \in DOMAIN positions' /\ positions'[i].blind = positions[i].blind
          /\ MatchedOn(i) => MatchedOn(i)'
          /\ FilledOn(i) => FilledOn(i)'
          /\ MarkedOn(i) => MarkedOn(i)'
          /\ positions[i].status = "covered" => positions'[i].status = "covered"
    /\ \A i \in DOMAIN positions' \ DOMAIN positions : Reserved(positions'[i].blind)
    /\ \A b \in 1..MaxBlinds : Reserved(b)' => Reserved(b)

LEMMA OnceKept ==
    ASSUME GoesOn, NEW b \in 1..MaxBlinds, ClosedOnce(b), UNCHANGED <<Deeds(b), MarkDeeds(b)>>
    PROVE  ClosedOnce(b)'
<1>1. ASSUME NEW i \in OfBlind(b)'
      PROVE  (Deeds(b) = {} /\ MarkDeeds(b) = {}) \/ i \in OfBlind(b)
  BY DEF OfBlind, GoesOn, ClosedOnce
<1>2. \A i \in OfBlind(b) : /\ \A d \in Deeds(b) : DeedTold(d, i)'
                            /\ \A d \in MarkDeeds(b) : MarkTold(d, i)'
  BY DEF ClosedOnce, DeedTold, MarkTold, GoesOn, OfBlind
<1>3. Reserved(b)' => Deeds(b) = {} /\ MarkDeeds(b) = {}
  BY DEF ClosedOnce, GoesOn
<1>4. /\ \A d, e \in Deeds(b) : d = e
      /\ \A d, e \in MarkDeeds(b) : d = e
  BY DEF ClosedOnce
<1>5. \A i \in OfBlind(b)' : /\ \A d \in Deeds(b) : DeedTold(d, i)'
                             /\ \A d \in MarkDeeds(b) : MarkTold(d, i)'
  BY <1>1, <1>2
<1> QED
  BY <1>3, <1>4, <1>5 DEF ClosedOnce

\* A deed is done, or given up.
LEMMA OnceDone ==
    ASSUME GoesOn, NEW b \in 1..MaxBlinds, ClosedOnce(b), ~Reserved(b),
           NEW d, Deeds(b)' \subseteq {d}, UNCHANGED MarkDeeds(b),
           \A i \in OfBlind(b) : d \in Deeds(b)' => DeedTold(d, i)'
    PROVE  ClosedOnce(b)'
<1>1. \A i \in OfBlind(b)' : i \in OfBlind(b)
  BY DEF OfBlind, GoesOn
<1>2. \A i \in OfBlind(b) : \A e \in MarkDeeds(b) : MarkTold(e, i)'
  BY DEF ClosedOnce, MarkTold, GoesOn, OfBlind
<1>3. ~Reserved(b)'
  BY DEF GoesOn
<1>4. \A e \in Deeds(b)' : e = d
  OBVIOUS
<1>5. \A e, f \in MarkDeeds(b) : e = f
  BY DEF ClosedOnce
<1>6. \A i \in OfBlind(b)' : /\ \A e \in Deeds(b)' : DeedTold(e, i)'
                             /\ \A e \in MarkDeeds(b)' : MarkTold(e, i)'
  BY <1>1, <1>2, <1>4
<1> QED
  BY <1>3, <1>4, <1>5, <1>6 DEF ClosedOnce

LEMMA OnceMarked ==
    ASSUME GoesOn, NEW b \in 1..MaxBlinds, ClosedOnce(b), ~Reserved(b),
           NEW d, MarkDeeds(b)' \subseteq {d}, UNCHANGED Deeds(b),
           \A i \in OfBlind(b) : d \in MarkDeeds(b)' => MarkTold(d, i)'
    PROVE  ClosedOnce(b)'
<1>1. \A i \in OfBlind(b)' : i \in OfBlind(b)
  BY DEF OfBlind, GoesOn
<1>2. \A i \in OfBlind(b) : \A e \in Deeds(b) : DeedTold(e, i)'
  BY DEF ClosedOnce, DeedTold, GoesOn, OfBlind
<1>3. ~Reserved(b)'
  BY DEF GoesOn
<1>4. \A e \in MarkDeeds(b)' : e = d
  OBVIOUS
<1>5. \A e, f \in Deeds(b) : e = f
  BY DEF ClosedOnce
<1>6. \A i \in OfBlind(b)' : /\ \A e \in Deeds(b)' : DeedTold(e, i)'
                             /\ \A e \in MarkDeeds(b)' : MarkTold(e, i)'
  BY <1>1, <1>2, <1>4
<1> QED
  BY <1>3, <1>4, <1>5, <1>6 DEF ClosedOnce

\* One request goes on, and the book with it.
LEMMA RequestGoesOn ==
    ASSUME Memory, NEW r \in Clients, NEW q \in Requests, Become(r, q),
           HasProved(request[r]) => /\ HasProved(q) /\ q.target = request[r].target
                                    /\ q.own.id = request[r].own.id,
           HasFilled(request[r]) => HasFilled(q) /\ q.target = request[r].target,
           HasMarked(request[r]) => HasMarked(q) /\ q.target = request[r].target,
           q.pc \in Drafting => Reserved(q.own.blind), blinds <= blinds', blinds' \in Int,
           \A i \in DOMAIN positions : i \in DOMAIN positions' /\ positions'[i] = positions[i],
           \A i \in DOMAIN positions' \ DOMAIN positions : Reserved(positions'[i].blind)
    PROVE  GoesOn
<1>1. request'[r] = q /\ \A s \in Clients : s # r => request'[s] = request[s]
  BY Becomes DEF Memory
<1>2. ASSUME NEW i \in DOMAIN positions
      PROVE  /\ MatchedOn(i) => MatchedOn(i)'
             /\ FilledOn(i) => FilledOn(i)'
             /\ MarkedOn(i) => MarkedOn(i)'
  <2>1. MatchedOn(i) => MatchedOn(i)'
    BY <1>1 DEF MatchedOn
  <2>2. FilledOn(i) => FilledOn(i)'
    BY <1>1 DEF FilledOn
  <2>3. MarkedOn(i) => MarkedOn(i)'
    BY <1>1 DEF MarkedOn
  <2> QED
    BY <2>1, <2>2, <2>3
<1>3. \A b \in 1..MaxBlinds : Reserved(b)' => Reserved(b)
  BY <1>1 DEF Reserved, Memory
<1> QED
  BY <1>2, <1>3 DEF GoesOn

LEMMA SilentGoesOn ==
    ASSUME Memory, NEW r \in Clients, Silent(request[r]), NEW q \in Requests, Become(r, q),
           q.pc \in Drafting => Reserved(q.own.blind), blinds <= blinds', blinds' \in Int,
           UNCHANGED positions
    PROVE  GoesOn
BY RequestGoesOn DEF Silent

LEMMA ClosingGoesOn ==
    ASSUME Memory, BookOpen, NEW r \in Clients, MatchDone(r) \/ CoverDone(r)
    PROVE  GoesOn
<1>0. /\ Idle \in Requests /\ Idle.pc = "idle" /\ Become(r, Idle) /\ UNCHANGED blinds
  BY IdleIsARequest DEF MatchDone, CoverDone, CloseCovered, Finish
<1>1. request'[r] = Idle /\ \A s \in Clients : s # r => request'[s] = request[s]
  BY <1>0, Becomes DEF Memory
<1>2. \A b \in 1..MaxBlinds : Reserved(b)' => Reserved(b)
  BY <1>0, <1>1 DEF Reserved, Drafting
<1>3. /\ DOMAIN positions' = DOMAIN positions
      /\ \A i \in DOMAIN positions : positions[i] \in Position /\ i \in Nat
                                       /\ positions'[i].blind = positions[i].blind
  BY OnlyClosed, LenProperties DEF Same, Memory
<1>4. ASSUME NEW i \in DOMAIN positions
      PROVE  /\ MatchedOn(i) => MatchedOn(i)'
             /\ FilledOn(i) => FilledOn(i)'
             /\ MarkedOn(i) => MarkedOn(i)'
             /\ positions[i].status = "covered" => positions'[i].status = "covered"
  <2>1. CASE MatchDone(r)
    <3> DEFINE t == request[r].target  c == request[r].own.id
    <3>1. /\ ~HasFilled(request[r]) /\ ~HasMarked(request[r])
          /\ positions[t].status = "open" /\ positions[c].status = "open"
      BY <2>1 DEF MatchDone, At, HasFilled, HasMarked, BookOpen, Targeting
    <3>2. /\ t \in DOMAIN positions /\ c \in DOMAIN positions
          /\ positions'[t] = Matched(positions[t], c) /\ positions'[c] = Matched(positions[c], t)
          /\ i \notin {t, c} => positions'[i] = positions[i]
      BY <2>1, BothClosed DEF MatchDone
    <3>3. positions'[t].status = "matched" /\ positions'[c].status = "matched"
      BY <1>3, <3>2, MatchedPosition
    <3>4. MatchedOn(i) => MatchedOn(i)'
      BY <1>1, <3>1, <3>2, <3>3 DEF MatchedOn
    <3>5. FilledOn(i) => FilledOn(i)'
      BY <1>1, <3>1, <3>2, <3>3 DEF FilledOn
    <3>6. MarkedOn(i) => MarkedOn(i)'
      BY <1>1, <3>1, <3>2, <3>3 DEF MarkedOn
    <3> QED
      BY <3>1, <3>2, <3>4, <3>5, <3>6
  <2>2. CASE CoverDone(r)
    <3> DEFINE t == request[r].target
    <3>1. ~HasProved(request[r]) /\ positions[t].status = "open"
      BY <2>2 DEF CoverDone, At, HasProved, BookOpen, Targeting
    <3>2. /\ t \in DOMAIN positions /\ request[r].slot \in Slots
          /\ positions'[t] = Covered(positions[t], request[r].slot)
          /\ i # t => positions'[i] = positions[i]
      BY <2>2, OneCovered, Shapes DEF CoverDone, Memory, At
    <3>3. positions'[t].status = "covered"
      BY <1>3, <3>2, CoveredPosition
    <3>4. MatchedOn(i) => MatchedOn(i)'
      BY <1>1, <3>1, <3>2, <3>3 DEF MatchedOn
    <3>5. FilledOn(i) => FilledOn(i)'
      BY <1>1, <3>1, <3>2, <3>3 DEF FilledOn
    <3>6. MarkedOn(i) => MarkedOn(i)'
      BY <1>1, <3>1, <3>2, <3>3 DEF MarkedOn
    <3> QED
      BY <3>1, <3>2, <3>3, <3>4, <3>5, <3>6
  <2> QED
    BY <2>1, <2>2
<1> QED
  BY <1>2, <1>3, <1>4 DEF GoesOn

\* A cover that goes on keeps what it has done.
LEMMA CoverGoesOn ==
    ASSUME Memory, NEW r \in Clients,
           CoverReadFree(r) \/ CoverReadSettled(r) \/ CoverWrite(r) \/ CoverReceipt(r)
    PROVE  GoesOn
<1>0. /\ UNCHANGED <<positions, blinds>> /\ request[r].pc \in PolygonPcs /\ request[r] \in Requests
      /\ blinds \in Int
  BY CoverProceeds DEF Memory
<1>1. CASE CoverReceipt(r)
  <2> DEFINE q == CoverAt("marking", request[r].target, request[r].slot, "sent")
  <2>1. request[r] \in [pc : PolygonPcs, target : Nat, slot : Slots,
                        tx : {"none", "sent", "settled", "reverted"}]
    BY <1>0 DEF Requests, BodyPcs, PolygonPcs
  <2>2. [request[r] EXCEPT !.pc = "marking", !.tx = "sent"] = q
    <3> DEFINE at == CoverAt("marking", request[r].target, request[r].slot, request[r].tx)
    <3>1. [request[r] EXCEPT !.pc = "marking"] = at
      BY <1>0, Proceeds
    <3>2. [at EXCEPT !.tx = "sent"] = q
      BY DEF CoverAt
    <3> HIDE DEF at, q
    <3> QED
      BY <3>1, <3>2
  <2>3. q \in Requests
    BY <1>0, <2>1, Proceeds
  <2>4. Become(r, q)
    BY <1>1, <2>2 DEF CoverReceipt, Proceed
  <2>5. q.pc = "marking" /\ q.target = request[r].target
    BY DEF CoverAt
  <2> HIDE DEF q
  <2> QED
    BY <1>0, <2>3, <2>4, <2>5, RequestGoesOn
       DEF HasProved, HasFilled, HasMarked, PolygonPcs, Drafting
<1>2. CASE ~CoverReceipt(r)
  <2>1. Silent(request[r])
    BY <1>2 DEF CoverReadFree, CoverReadSettled, CoverWrite, At, Silent, HasProved, HasFilled,
                HasMarked
  <2>2. PICK q \in Requests : Become(r, q) /\ q.pc \notin Drafting
    <3>1. CASE Finish(r)
      BY <3>1, IdleIsARequest DEF Finish, Drafting
    <3>2. CASE ~Finish(r)
      <4>1. PICK pc \in PolygonPcs \union {"marking"}, tx \in {"none", "sent"} :
                LET q == CoverAt(pc, request[r].target, request[r].slot, tx) IN
                q \in Requests /\ Become(r, q)
        BY <3>2, CoverProceeds
      <4>2. CoverAt(pc, request[r].target, request[r].slot, tx).pc = pc
        BY DEF CoverAt
      <4> QED
        BY <4>1, <4>2 DEF PolygonPcs, Drafting
    <3> QED
      BY <3>1, <3>2
  <2> QED
    BY <1>0, <2>1, <2>2, SilentGoesOn
<1> QED
  BY <1>1, <1>2

\* A request whose transaction is included has done it now.
LEMMA LandingGoesOn ==
    ASSUME Memory, NEW r \in Clients, Lands(r)
    PROVE  GoesOn
<1>1. PICK q \in Requests :
         /\ request[r].pc \in MidnightPcs /\ request[r].tx = "sent"
         /\ q.pc = request[r].pc /\ q.tx = "included"
         /\ q.pc \in Owning => q.own = request[r].own
         /\ q.pc \in Targeting => q.target = request[r].target
         /\ Become(r, q) /\ UNCHANGED <<positions, blinds>>
  BY DEF Lands
<1>2. blinds \in Int /\ blinds <= blinds
  BY DEF Memory
<1>3. q.pc \in Drafting => Reserved(q.own.blind)
  BY <1>1 DEF Reserved, Drafting, Owning
<1>4. /\ HasProved(request[r]) => /\ HasProved(q) /\ q.target = request[r].target
                                  /\ q.own.id = request[r].own.id
      /\ HasFilled(request[r]) => HasFilled(q) /\ q.target = request[r].target
      /\ HasMarked(request[r]) => HasMarked(q) /\ q.target = request[r].target
  BY <1>1 DEF HasProved, HasFilled, HasMarked, MidnightPcs, Targeting
<1> QED
  BY <1>1, <1>2, <1>3, <1>4, RequestGoesOn

LEMMA ListingGoesOn ==
    ASSUME Memory, NEW r \in Clients, OpenDone(r) \/ MatchOpened(r)
    PROVE  GoesOn
<1>1. /\ request[r].own \in Position /\ request[r].pc \in Drafting
      /\ DOMAIN positions' = DOMAIN positions \union {nextId}
      /\ \A i \in DOMAIN positions : positions'[i] = positions[i]
      /\ positions'[nextId] = [request[r].own EXCEPT !.id = nextId]
  BY DraftListed
<1>2. positions'[nextId].blind = request[r].own.blind
  BY <1>1 DEF Position
<1>3. \A i \in DOMAIN positions' \ DOMAIN positions : Reserved(positions'[i].blind)
  BY <1>1, <1>2 DEF Reserved
<1>4. PICK q \in Requests : Become(r, q) /\ q.pc \notin Drafting
  <2>1. CASE OpenDone(r)
    BY <2>1, IdleIsARequest DEF OpenDone, Finish, Drafting
  <2>2. CASE MatchOpened(r)
    <3>1. PICK q \in Requests : Become(r, q) /\ q.pc = "matching"
      BY <2>2, MatchProceeds DEF MatchingOf
    <3> QED
      BY <3>1 DEF Drafting
  <2> QED
    BY <2>1, <2>2
<1>5. Silent(request[r])
  BY <1>1 DEF Drafting, Silent, HasProved, HasFilled, HasMarked
<1>6. blinds' = blinds /\ blinds \in Int
  BY DEF OpenDone, MatchOpened, ListOther, Memory
<1> QED
  BY <1>1, <1>3, <1>4, <1>5, <1>6, RequestGoesOn DEF Silent

LEMMA BodyGoesOn ==
    ASSUME Memory, NEW r \in Clients, Arrive(r) \/ Body(r)
    PROVE  GoesOn
<1>1. request[r].pc \in {"idle"} \union BodyPcs
  BY DEF Arrive, Body, Refuse, OpenBegin, MatchBegin,
         OpenBadBody, MatchBadSize, CoverBegin, At, BodyPcs
<1>2. Silent(request[r])
  BY <1>1 DEF Silent, HasProved, HasFilled, HasMarked, BodyPcs
<1>3. blinds \in Int
  BY DEF Memory
<1>4. CASE Ends(r) \/ Takes(r)
  BY <1>2, <1>3, <1>4, SilentGoesOn DEF Ends, Takes, Drafting, BodyPcs
<1>5. CASE Seals(r)
  <2>1. PICK q \in Requests :
          /\ \E w \in Wallets, side \in {"YES", "NO"}, size \in Sizes, cond \in Conditions :
                q.own = Draft(w, side, size, cond)
          /\ Become(r, q) /\ blinds' = blinds + 1 /\ UNCHANGED positions
    BY <1>5 DEF Seals
  <2>2. q.own.blind = blinds + 1
    BY <2>1 DEF Draft
  <2>3. Reserved(q.own.blind)
    BY <1>3, <2>2 DEF Reserved
  <2> QED
    BY <1>2, <1>3, <2>1, <2>3, SilentGoesOn
<1> QED
  BY <1>4, <1>5, KindsOfBody

\* A fill is mined, or refused.
LEMMA FillGoesOn ==
    ASSUME Memory, NEW r \in Clients, At(r, "receipt"), request[r].tx = "sent",
           NEW tx \in {"settled", "reverted"}, Become(r, [request[r] EXCEPT !.tx = tx]),
           UNCHANGED <<positions, blinds>>
    PROVE  GoesOn
<1> DEFINE q == CoverAt("receipt", request[r].target, request[r].slot, tx)
<1>1. request[r] \in Requests /\ request[r].pc = "receipt" /\ "receipt" \in PolygonPcs
  BY DEF Memory, At, PolygonPcs
<1>2. [request[r] EXCEPT !.tx = tx] = q /\ q \in Requests
  BY <1>1, Proceeds
<1>3. q.pc = "receipt" /\ q.target = request[r].target /\ q.tx = tx
  BY DEF CoverAt
<1> HIDE DEF q
<1>4. Silent(request[r])
  BY <1>1 DEF Silent, HasProved, HasFilled, HasMarked
<1>5. blinds \in Int /\ q.pc \notin Drafting /\ Become(r, q)
  BY <1>2, <1>3 DEF Memory, Drafting
<1> QED
  BY <1>2, <1>4, <1>5, SilentGoesOn

LEMMA StillGoesOn ==
    ASSUME UNCHANGED <<positions, request, blinds>>
    PROVE  GoesOn
<1>1. \A i : (MatchedOn(i)' <=> MatchedOn(i)) /\ (FilledOn(i)' <=> FilledOn(i))
             /\ (MarkedOn(i)' <=> MarkedOn(i))
  BY DEF MatchedOn, FilledOn, MarkedOn
<1>2. \A b : Reserved(b)' <=> Reserved(b)
  BY DEF Reserved
<1> QED
  BY <1>1, <1>2 DEF GoesOn

\* Only an answer that is lost lets a handler forget what it has done.
LEMMA BookGoesOn ==
    ASSUME "lost_reply" \notin Faults, Memory, BookOpen, [Next]_vars, ~Restart
    PROVE  GoesOn
<1>1. CASE UNCHANGED vars \/ Boot \/ Trading
  BY <1>1, StillGoesOn DEF vars, memory, Boot, BootOne, BootDone, Trading
<1>2. ASSUME NEW r \in Clients, Resume(r) PROVE GoesOn
  <2>1. CASE Throw(r)
    <3>1. Silent(request[r]) /\ Become(r, Idle) /\ UNCHANGED <<positions, blinds>>
      BY <2>1 DEF Throw, Finish, At, Silent, HasProved, HasFilled, HasMarked
    <3>2. Idle \in Requests /\ Idle.pc \notin Drafting /\ blinds \in Int
      BY IdleIsARequest DEF Drafting, Memory
    <3> QED
      BY <3>1, <3>2, SilentGoesOn
  <2>2. ~ThrowAndLeave(r)
    BY DEF ThrowAndLeave
  <2> QED
    BY <1>2, <2>1, <2>2, ListingGoesOn, ClosingGoesOn, CoverGoesOn DEF Resume
<1>3. CASE MidnightBlock
  <2>1. CASE UNCHANGED request
    BY <1>3, <2>1, StillGoesOn DEF MidnightBlock
  <2>2. ASSUME NEW r \in Clients, request[r].pc \in MidnightPcs, request[r].tx = "sent",
               Include(Circuit(request[r])), Become(r, [request[r] EXCEPT !.tx = "included"])
        PROVE  GoesOn
    <3> DEFINE q == [request[r] EXCEPT !.tx = "included"]
    <3>1. /\ q \in Requests /\ q.pc = request[r].pc /\ q.tx = "included"
          /\ q.pc \in Targeting => q.target = request[r].target
          /\ q.pc \in Owning => q.own = request[r].own
          /\ q.pc = "marking" => q.slot = request[r].slot
      BY <2>2, Answered DEF Memory
    <3>2. Become(r, q) /\ UNCHANGED <<positions, nextCoverSlot, blinds>>
      BY <1>3, <2>2 DEF MidnightBlock
    <3> HIDE DEF q
    <3>3. Lands(r)
      BY <2>2, <3>1, <3>2 DEF Lands
    <3> QED
      BY <3>3, LandingGoesOn
  <2> QED
    BY <1>3, <2>1, <2>2 DEF MidnightBlock
<1>4. CASE PolygonBlock
  BY <1>4, StillGoesOn, FillGoesOn DEF PolygonBlock
<1> QED
  BY <1>1, <1>2, <1>3, <1>4, BodyGoesOn, NextIsAStep DEF AnyStep

Lates == <<midnightLate, polygonLate>>
Done == <<history, fills, address>>

\* What a step does that a commitment can be closed by.
LEMMA DeedKinds ==
    ASSUME "lost_reply" \notin Faults, Memory, [Next]_vars
    PROVE  \/ ~Restart /\ UNCHANGED <<Done, Lates>>
           \/ Restart /\ UNCHANGED fills
           \/ ~Restart /\ UNCHANGED <<fills, address, Lates>> /\ (\E r \in Clients : Lands(r))
           \/ /\ ~Restart /\ UNCHANGED <<positions, request, fills, address, polygonLate>>
              /\ \E c \in midnightLate : Include(c) /\ midnightLate' = midnightLate \ {c}
           \/ /\ ~Restart /\ UNCHANGED <<positions, history, address, Lates>>
              /\ \E r \in Clients : Settled(r)
           \/ /\ ~Restart /\ UNCHANGED <<positions, request, history, address, midnightLate>>
              /\ \E s \in polygonLate, outcome \in {"settled", "reverted"} :
                    Mine(s, outcome) /\ polygonLate' = polygonLate \ {s}
           \/ /\ ~Restart /\ UNCHANGED <<Done, polygonLate>>
              /\ \E r \in Clients : /\ CoverDone(r) /\ request[r].tx = "sent"
                                    /\ midnightLate' = midnightLate \union {Circuit(request[r])}
<1>1. CASE Restart
  BY <1>1 DEF Restart
<1> SUFFICES ASSUME ~Restart PROVE
           \/ UNCHANGED <<Done, Lates>>
           \/ UNCHANGED <<fills, address, Lates>> /\ (\E r \in Clients : Lands(r))
           \/ /\ UNCHANGED <<positions, request, fills, address, polygonLate>>
              /\ \E c \in midnightLate : Include(c) /\ midnightLate' = midnightLate \ {c}
           \/ /\ UNCHANGED <<positions, history, address, Lates>>
              /\ \E r \in Clients : Settled(r)
           \/ /\ UNCHANGED <<positions, request, history, address, midnightLate>>
              /\ \E s \in polygonLate, outcome \in {"settled", "reverted"} :
                    Mine(s, outcome) /\ polygonLate' = polygonLate \ {s}
           \/ /\ UNCHANGED <<Done, polygonLate>>
              /\ \E r \in Clients : /\ CoverDone(r) /\ request[r].tx = "sent"
                                    /\ midnightLate' = midnightLate \union {Circuit(request[r])}
  BY <1>1
<1>2. CASE UNCHANGED vars \/ Boot \/ Trading
  BY <1>2 DEF vars, midnight, polygon, ledger, Boot, BootOne, BootDone, Trading, Done, Lates
<1>3. CASE MidnightBlock
  <2>1. UNCHANGED <<positions, fills, address, polygonLate>>
    BY <1>3 DEF MidnightBlock, polygon
  <2>2. ASSUME NEW r \in Clients, request[r].pc \in MidnightPcs, request[r].tx = "sent",
               Include(Circuit(request[r])), Become(r, [request[r] EXCEPT !.tx = "included"]),
               UNCHANGED midnightLate
        PROVE  (UNCHANGED <<fills, address, Lates>>) /\ Lands(r)
    <3> DEFINE q == [request[r] EXCEPT !.tx = "included"]
    <3>1. /\ q \in Requests /\ q.pc = request[r].pc /\ q.tx = "included"
          /\ q.pc \in Targeting => q.target = request[r].target
          /\ q.pc \in Owning => q.own = request[r].own
          /\ q.pc = "marking" => q.slot = request[r].slot
      BY <2>2, Answered DEF Memory
    <3>2. Become(r, q) /\ UNCHANGED <<positions, nextCoverSlot, blinds>>
      BY <1>3, <2>2 DEF MidnightBlock
    <3> HIDE DEF q
    <3>3. Lands(r)
      BY <2>2, <3>1, <3>2 DEF Lands
    <3> QED
      BY <1>3, <2>2, <3>3 DEF MidnightBlock, polygon, Lates
  <2>3. \/ \E r \in Clients :
             /\ request[r].pc \in MidnightPcs /\ request[r].tx = "sent"
             /\ Include(Circuit(request[r]))
             /\ Become(r, [request[r] EXCEPT !.tx = "included"]) /\ UNCHANGED midnightLate
        \/ /\ UNCHANGED request
           /\ \E c \in midnightLate : Include(c) /\ midnightLate' = midnightLate \ {c}
    BY <1>3 DEF MidnightBlock
  <2> QED
    BY <2>1, <2>2, <2>3
<1>4. CASE PolygonBlock
  <2>0. UNCHANGED <<positions, history, address, midnightLate>>
    BY <1>4 DEF PolygonBlock, midnight, ledger
  <2>2. ASSUME NEW r \in Clients, NEW outcome \in {"settled", "reverted"}, Sending(r),
               Mine(Settle(request[r]), outcome), Become(r, [request[r] EXCEPT !.tx = outcome]),
               UNCHANGED polygonLate
        PROVE  UNCHANGED <<Done, Lates>> \/ (UNCHANGED Lates /\ Settled(r))
    <3>1. CASE outcome = "reverted"
      BY <2>0, <2>2, <3>1 DEF Mine, Lates, Done
    <3>2. CASE outcome = "settled"
      <4>1. request[r] \in Requests /\ request[r].pc = "receipt" /\ "receipt" \in PolygonPcs
        BY <2>2 DEF Memory, Sending, At, PolygonPcs
      <4>2. [request[r] EXCEPT !.tx = "settled"]
              = CoverAt("receipt", request[r].target, request[r].slot, "settled")
        BY <4>1, Proceeds
      <4> QED
        BY <2>0, <2>2, <3>2, <4>2 DEF Settled, Lates
    <3> QED
      BY <3>1, <3>2
  <2>3. \/ /\ UNCHANGED request
           /\ \E s \in polygonLate, outcome \in {"settled", "reverted"} :
                 Mine(s, outcome) /\ polygonLate' = polygonLate \ {s}
        \/ \E r \in Clients, outcome \in {"settled", "reverted"} :
              /\ Sending(r) /\ Mine(Settle(request[r]), outcome)
              /\ Become(r, [request[r] EXCEPT !.tx = outcome]) /\ UNCHANGED polygonLate
    BY <1>4 DEF PolygonBlock, Sending
  <2> QED
    BY <2>0, <2>2, <2>3
<1>5. ASSUME NEW r \in Clients, Arrive(r) \/ Body(r) PROVE UNCHANGED <<Done, Lates>>
  BY <1>5, CalmBody DEF Chains, ledger, Done, Lates
<1>6. ASSUME NEW r \in Clients, Resume(r)
      PROVE  \/ UNCHANGED <<Done, Lates>>
             \/ /\ UNCHANGED <<Done, polygonLate>> /\ CoverDone(r) /\ request[r].tx = "sent"
                /\ midnightLate' = midnightLate \union {Circuit(request[r])}
  BY <1>6 DEF Resume, OpenDone, MatchOpened, ListOther, MatchDone, CoverReadFree, CoverReadSettled,
              CoverWrite, CoverReceipt, CoverDone, CloseCovered, Throw, ThrowAndLeave, Proceed,
              midnight, ledger, polygon, Done, Lates
<1> QED
  BY <1>2, <1>3, <1>4, <1>5, <1>6, NextIsAStep DEF AnyStep

\* A call on Midnight, and the commitments it is about.
LEMMA CallCounted ==
    ASSUME Midnight!TypeOK, NEW c \in Circuits, Include(c), NEW b
    PROVE  LET n == Len(history) + 1 IN
           /\ Uses("match_positions", b)'
                 = Uses("match_positions", b) \union
                      (IF c.op = "match_positions" /\ b \in {c.a.blind, c.b.blind} THEN {n} ELSE {})
           /\ Uses("mark_covered", b)'
                 = Uses("mark_covered", b) \union
                      (IF c.op = "mark_covered" /\ b = c.a.blind THEN {n} ELSE {})
<1>0. \A op, x, y : /\ Midnight!Call(op, x, y).op = op /\ Midnight!Call(op, x, y).a = x
                    /\ Midnight!Call(op, x, y).b = y
  BY DEF Midnight!Call
<1>1. CASE c.op = "open_position"
  <2>1. history' = Append(history, Midnight!Call("open_position", c.a, c.a))
    BY <1>1 DEF Include, Midnight!open_position, Midnight!Record
  <2> QED
    BY <1>0, <1>1, <2>1, UsesRecorded
<1>2. CASE c.op = "match_positions"
  <2>1. history' = Append(history, Midnight!Call("match_positions", c.a, c.b))
    BY <1>2 DEF Include, Midnight!match_positions, Midnight!AddMatched, Midnight!Record
  <2> QED
    BY <1>0, <1>2, <2>1, UsesRecorded
<1>3. CASE c.op = "mark_covered"
  <2>1. history' = Append(history, Midnight!Call("mark_covered", c.a, c.a))
    BY <1>3 DEF Include, Midnight!mark_covered, Midnight!Record
  <2> QED
    BY <1>0, <1>3, <2>1, UsesRecorded
<1> QED
  BY <1>1, <1>2, <1>3 DEF Include

\* The call a request waits for, and the positions it is about.
LEMMA CircuitAbout ==
    ASSUME Memory, Paired, NEW r \in Clients, request[r].pc \in MidnightPcs
    PROVE  LET q == request[r]  c == Circuit(q) IN
           /\ q.pc \in Drafting => c.op = "open_position"
           /\ q.pc = "matching" => /\ c.op = "match_positions"
                                   /\ c.a.blind = positions[q.target].blind
                                   /\ c.b.blind = positions[q.own.id].blind
           /\ q.pc = "marking" => c.op = "mark_covered" /\ c.a.blind = positions[q.target].blind
<1>1. \A p : OpeningOf(p).blind = p.blind
  BY DEF OpeningOf
<1>2. request[r].pc = "matching" => positions[request[r].own.id].blind = request[r].own.blind
  BY DEF Paired, RequestPaired, Same
<1> QED
  BY <1>1, <1>2 DEF Circuit, Drafting

\* The commitment of a listed position, and what has not been done to it.
LEMMA ListedUndone ==
    ASSUME Memory, BookSealed, Once, NEW i \in DOMAIN positions
    PROVE  LET b == positions[i].blind IN
           /\ b \in 1..MaxBlinds /\ OfBlind(b) = {i} /\ ~Reserved(b)
           /\ ~MatchedOn(i) /\ ~FilledOn(i) => Deeds(b) = {}
           /\ ~MarkedOn(i) /\ positions[i].status # "covered" => MarkDeeds(b) = {}
<1> DEFINE b == positions[i].blind
<1>1. b \in 1..MaxBlinds
  <2>1. positions[i] \in Position
    BY DEF Memory
  <2> QED
    BY <2>1 DEF Position
<1>2. OfBlind(b) = {i}
  BY DEF OfBlind, BookSealed
<1>3. ~Reserved(b)
  BY <1>1, ServerAssumption DEF Reserved, BookSealed, DraftSealed, Memory
<1>4. ClosedOnce(b)
  BY <1>1 DEF Once
<1> HIDE DEF b
<1> QED
  BY <1>1, <1>2, <1>3, <1>4 DEF ClosedOnce, DeedTold, MarkTold, b

\* Nothing that was done, and nothing still to come, is told apart by more.
LEMMA DeedsKept ==
    ASSUME NEW b, Uses("match_positions", b)' = Uses("match_positions", b),
           FillsOf(b)' = FillsOf(b), LateFills(b)' = LateFills(b),
           LateCalls("match_positions", b)' = LateCalls("match_positions", b)
    PROVE  Deeds(b)' = Deeds(b)
BY DEF Deeds

LEMMA MarksKept ==
    ASSUME NEW b, Uses("mark_covered", b)' = Uses("mark_covered", b), LateMarks(b)' = LateMarks(b)
    PROVE  MarkDeeds(b)' = MarkDeeds(b)
BY DEF MarkDeeds

\* A transaction that a request waits for is included.
LEMMA OnceLands ==
    ASSUME Memory, Midnight!TypeOK, Alone, BookSealed, Paired, BookOpen, Once, GoesOn,
           NEW r \in Clients, Lands(r), UNCHANGED <<fills, address, Lates>>
    PROVE  Once'
<1> DEFINE c == Circuit(request[r])
<1>0. PICK t, o, n : t = request[r].target /\ o = request[r].own.id /\ n = Len(history) + 1
  OBVIOUS
<1>1. PICK q \in Requests :
         /\ request[r].pc \in MidnightPcs /\ request[r].tx = "sent" /\ Include(c)
         /\ q.pc = request[r].pc /\ q.tx = "included"
         /\ q.pc \in Owning => q.own = request[r].own
         /\ q.pc \in Targeting => q.target = t
         /\ Become(r, q) /\ UNCHANGED positions
  BY <1>0 DEF Lands
<1>2. /\ c \in Circuits
      /\ q.pc \in Drafting => c.op = "open_position"
      /\ q.pc = "matching" => /\ c.op = "match_positions" /\ c.a.blind = positions[t].blind
                              /\ c.b.blind = positions[o].blind
      /\ q.pc = "marking" => c.op = "mark_covered" /\ c.a.blind = positions[t].blind
  BY <1>0, <1>1, CircuitTyped, CircuitAbout
<1>3. /\ q.pc = "matching" => /\ t \in DOMAIN positions /\ o \in DOMAIN positions
                              /\ positions[t].status = "open" /\ positions[o].status = "open"
      /\ q.pc = "marking" => t \in DOMAIN positions /\ positions[t].status = "open"
  BY <1>0, <1>1 DEF Memory, Targets, Targeting, BookOpen
<1>4. /\ q.pc = "matching" => HasProved(q) /\ q.target = t /\ q.own.id = o
      /\ q.pc = "marking" => HasMarked(q) /\ q.target = t
  BY <1>0, <1>1 DEF HasProved, HasMarked, Owning, Targeting
<1>5. /\ request[r].pc # "idle" /\ ~HasProved(request[r]) /\ ~HasMarked(request[r])
      /\ HasFilled(request[r]) <=> q.pc = "marking"
  BY <1>1 DEF MidnightPcs, HasProved, HasFilled, HasMarked
<1>6. \A i : /\ MatchedOn(i) <=> positions[i].status = "matched"
             /\ FilledOn(i) <=> positions[i].status = "covered" \/ (q.pc = "marking" /\ i = t)
             /\ MarkedOn(i) <=> positions[i].status = "covered"
  BY <1>0, <1>5, AloneOn
<1>7. /\ q.pc = "matching" => MatchedOn(t)' /\ MatchedOn(o)'
      /\ q.pc = "marking" => MarkedOn(t)'
  BY <1>1, <1>4, <1>5, AloneOnNext
<1>8. q.pc \in Drafting \union {"matching", "marking"}
      /\ "matching" \notin Drafting /\ "marking" \notin Drafting
  BY <1>1 DEF MidnightPcs, Drafting
<1> HIDE DEF c
<1> SUFFICES ASSUME NEW b \in 1..MaxBlinds PROVE ClosedOnce(b)'
  BY DEF Once
<1>9. ClosedOnce(b) /\ FillsOf(b)' = FillsOf(b) /\ LateFills(b)' = LateFills(b)
      /\ LateMarks(b)' = LateMarks(b)
      /\ LateCalls("match_positions", b)' = LateCalls("match_positions", b)
  BY DEF Once, FillsOf, LateFills, LateMarks, LateCalls, Lates
<1>10. /\ Uses("match_positions", b)'
            = Uses("match_positions", b) \union
                 (IF c.op = "match_positions" /\ b \in {c.a.blind, c.b.blind} THEN {n} ELSE {})
       /\ Uses("mark_covered", b)'
            = Uses("mark_covered", b) \union
                 (IF c.op = "mark_covered" /\ b = c.a.blind THEN {n} ELSE {})
  BY <1>0, <1>1, <1>2, CallCounted
<1>11. ASSUME q.pc = "matching", NEW i \in {t, o}, b = positions[i].blind
       PROVE  ClosedOnce(b)'
  <2>1. Deeds(b) = {} /\ OfBlind(b) = {i} /\ ~Reserved(b)
    BY <1>3, <1>6, <1>11, ListedUndone
  <2>2. MarkDeeds(b)' = MarkDeeds(b)
    BY <1>2, <1>9, <1>10, <1>11, MarksKept
  <2>3. Deeds(b)' \subseteq {<<"matched", n>>}
    BY <1>9, <1>10, <2>1 DEF Deeds
  <2>4. DeedTold(<<"matched", n>>, i)'
    BY <1>7, <1>11 DEF DeedTold
  <2> QED
    BY <1>9, <2>1, <2>2, <2>3, <2>4, OnceDone
<1>12. ASSUME q.pc = "marking", b = positions[t].blind
       PROVE  ClosedOnce(b)'
  <2>1. MarkDeeds(b) = {} /\ OfBlind(b) = {t} /\ ~Reserved(b)
    BY <1>3, <1>6, <1>12, ListedUndone
  <2>2. Deeds(b)' = Deeds(b)
    BY <1>2, <1>9, <1>10, <1>12, DeedsKept
  <2>3. MarkDeeds(b)' \subseteq {<<"marked", n>>}
    BY <1>9, <1>10, <2>1 DEF MarkDeeds
  <2>4. MarkTold(<<"marked", n>>, t)'
    BY <1>7, <1>12 DEF MarkTold
  <2> QED
    BY <1>9, <2>1, <2>2, <2>3, <2>4, OnceMarked
<1>13. CASE \/ q.pc \in Drafting
            \/ q.pc = "matching" /\ b \notin {positions[t].blind, positions[o].blind}
            \/ q.pc = "marking" /\ b # positions[t].blind
  <2>1. Uses("match_positions", b)' = Uses("match_positions", b)
        /\ Uses("mark_covered", b)' = Uses("mark_covered", b)
    BY <1>2, <1>10, <1>13
  <2> QED
    BY <1>9, <2>1, DeedsKept, MarksKept, OnceKept
<1> QED
  BY <1>8, <1>11, <1>12, <1>13

\* A transaction that nobody waits for any more is included.
LEMMA OnceLate ==
    ASSUME Memory, Midnight!TypeOK, Once, GoesOn, NEW c \in midnightLate, Include(c),
           midnightLate' = midnightLate \ {c},
           UNCHANGED <<positions, request, fills, address, polygonLate>>
    PROVE  Once'
<1>0. PICK n : n = Len(history) + 1
  OBVIOUS
<1>1. c \in Circuits
  BY DEF Memory
<1> SUFFICES ASSUME NEW b \in 1..MaxBlinds PROVE ClosedOnce(b)'
  BY DEF Once
<1>2. ClosedOnce(b) /\ FillsOf(b)' = FillsOf(b) /\ LateFills(b)' = LateFills(b)
      /\ LateMarks(b)' = LateMarks(b) \ {c}
      /\ LateCalls("match_positions", b)' = LateCalls("match_positions", b) \ {c}
  BY DEF Once, FillsOf, LateFills, LateMarks, LateCalls
<1>3. /\ Uses("match_positions", b)'
            = Uses("match_positions", b) \union
                 (IF c.op = "match_positions" /\ b \in {c.a.blind, c.b.blind} THEN {n} ELSE {})
      /\ Uses("mark_covered", b)'
            = Uses("mark_covered", b) \union
                 (IF c.op = "mark_covered" /\ b = c.a.blind THEN {n} ELSE {})
  BY <1>0, <1>1, CallCounted
<1>4. CASE c.op = "match_positions" /\ b \in {c.a.blind, c.b.blind}
  <2>1. c \in LateCalls("match_positions", b) /\ c \notin LateMarks(b)
    BY <1>4 DEF LateCalls, LateMarks
  <2>2. <<"to match", c>> \in Deeds(b)
    BY <2>1, DeedsAre
  <2>3. \A i \in OfBlind(b) : FALSE
    BY <1>2, <2>2 DEF ClosedOnce, DeedTold
  <2>4. ~Reserved(b)
    BY <1>2, <2>2 DEF ClosedOnce
  <2>5. \A d \in Deeds(b) : d = <<"to match", c>>
    BY <1>2, <2>2 DEF ClosedOnce
  <2>6. /\ Uses("match_positions", b) = {} /\ FillsOf(b) = {} /\ LateFills(b) = {}
        /\ LateCalls("match_positions", b) \subseteq {c}
    BY <2>5, DeedsAre
  <2>7. Deeds(b)' \subseteq {<<"matched", n>>}
    <3>1. /\ Uses("match_positions", b)' = {n} /\ FillsOf(b)' = {} /\ LateFills(b)' = {}
          /\ LateCalls("match_positions", b)' = {}
      BY <1>2, <1>3, <1>4, <2>6
    <3> QED
      BY <3>1 DEF Deeds
  <2>8. MarkDeeds(b)' = MarkDeeds(b)
    BY <1>2, <1>3, <1>4, <2>1, MarksKept
  <2> QED
    BY <1>2, <2>3, <2>4, <2>7, <2>8, OnceDone
<1>5. CASE c.op = "mark_covered" /\ b = c.a.blind
  <2>1. c \in LateMarks(b) /\ c \notin LateCalls("match_positions", b)
    BY <1>5 DEF LateCalls, LateMarks
  <2>2. <<"to mark", c>> \in MarkDeeds(b)
    BY <2>1, DeedsAre
  <2>3. \A i \in OfBlind(b) : positions[i].status = "covered"
    BY <1>2, <2>2 DEF ClosedOnce, MarkTold
  <2>4. \A i \in OfBlind(b) : MarkTold(<<"marked", n>>, i)'
    BY <2>3 DEF MarkTold, MarkedOn
  <2>5. ~Reserved(b)
    BY <1>2, <2>2 DEF ClosedOnce
  <2>6. \A d \in MarkDeeds(b) : d = <<"to mark", c>>
    BY <1>2, <2>2 DEF ClosedOnce
  <2>7. Uses("mark_covered", b) = {} /\ LateMarks(b) \subseteq {c}
    BY <2>6, DeedsAre
  <2>8. MarkDeeds(b)' \subseteq {<<"marked", n>>}
    BY <1>2, <1>3, <2>7 DEF MarkDeeds
  <2>9. Deeds(b)' = Deeds(b)
    BY <1>2, <1>3, <1>5, <2>1, DeedsKept
  <2> QED
    BY <1>2, <2>4, <2>5, <2>8, <2>9, OnceMarked
<1>6. CASE /\ ~(c.op = "match_positions" /\ b \in {c.a.blind, c.b.blind})
           /\ ~(c.op = "mark_covered" /\ b = c.a.blind)
  <2>1. c \notin LateCalls("match_positions", b) /\ c \notin LateMarks(b)
    BY <1>6 DEF LateCalls, LateMarks
  <2>2. Deeds(b)' = Deeds(b)
    BY <1>2, <1>3, <1>6, <2>1, DeedsKept
  <2>3. MarkDeeds(b)' = MarkDeeds(b)
    BY <1>2, <1>3, <1>6, <2>1, MarksKept
  <2> QED
    BY <1>2, <2>2, <2>3, OnceKept
<1> QED
  BY <1>4, <1>5, <1>6

\* The fill that a request waits for is mined.
LEMMA OnceSettled ==
    ASSUME Memory, VaultBooks, Alone, BookSealed, BookOpen, Once, GoesOn, NEW r \in Clients,
           Settled(r), UNCHANGED <<positions, history, address, Lates>>
    PROVE  Once'
<1>0. PICK t, f : t = request[r].target /\ f = Fill(Settle(request[r]))
  OBVIOUS
<1> DEFINE q == CoverAt("receipt", t, request[r].slot, "settled")
<1>1. /\ request[r] \in Requests /\ request[r].pc = "receipt" /\ request[r].tx = "sent"
      /\ "receipt" \in PolygonPcs /\ Mine(Settle(request[r]), "settled") /\ Become(r, q)
  BY <1>0 DEF Settled, Sending, At, Memory, PolygonPcs
<1>2. t \in DOMAIN positions /\ positions[t].status = "open"
  BY <1>0, <1>1 DEF Memory, Targets, Targeting, BookOpen
<1>3. fills' = fills \union {f} /\ f.address = address /\ f.blind = positions[t].blind
  BY <1>0, <1>1, SettleTyped, SettlementRecorded DEF Fill, Settle, Settlement
<1>4. q \in Requests /\ HasFilled(q) /\ q.target = t
  BY <1>0, <1>1, Proceeds DEF CoverAt, HasFilled
<1>5. Silent(request[r]) /\ request[r].pc # "idle"
  BY <1>1 DEF Silent, HasProved, HasFilled, HasMarked
<1> HIDE DEF q
<1>6. ~MatchedOn(t) /\ ~FilledOn(t) /\ FilledOn(t)'
  BY <1>1, <1>2, <1>4, <1>5, AloneOn, AloneOnNext DEF Silent
<1> SUFFICES ASSUME NEW b \in 1..MaxBlinds PROVE ClosedOnce(b)'
  BY DEF Once
<1>7. /\ ClosedOnce(b) /\ LateFills(b)' = LateFills(b) /\ LateMarks(b)' = LateMarks(b)
      /\ LateCalls("match_positions", b)' = LateCalls("match_positions", b)
      /\ Uses("match_positions", b)' = Uses("match_positions", b)
      /\ Uses("mark_covered", b)' = Uses("mark_covered", b)
  BY DEF Once, LateFills, LateMarks, LateCalls, Uses, Lates
<1>8. MarkDeeds(b)' = MarkDeeds(b)
  BY <1>7, MarksKept
<1>9. CASE b = positions[t].blind
  <2>1. Deeds(b) = {} /\ OfBlind(b) = {t} /\ ~Reserved(b)
    BY <1>2, <1>6, <1>9, ListedUndone
  <2>2. FillsOf(b)' \subseteq FillsOf(b) \union {f}
    BY <1>3 DEF FillsOf
  <2>3. Deeds(b)' \subseteq {<<"filled", f>>}
    BY <1>7, <2>1, <2>2 DEF Deeds
  <2>4. DeedTold(<<"filled", f>>, t)'
    BY <1>6 DEF DeedTold
  <2> QED
    BY <1>7, <1>8, <2>1, <2>3, <2>4, OnceDone
<1>10. CASE b # positions[t].blind
  <2>1. FillsOf(b)' = FillsOf(b)
    BY <1>3, <1>10 DEF FillsOf
  <2> QED
    BY <1>7, <1>8, <2>1, DeedsKept, OnceKept
<1> QED
  BY <1>9, <1>10

\* A fill that nobody waits for any more is mined, or refused.
LEMMA OnceLateFill ==
    ASSUME Memory, VaultBooks, Once, GoesOn, NEW s \in polygonLate,
           NEW outcome \in {"settled", "reverted"}, Mine(s, outcome),
           polygonLate' = polygonLate \ {s},
           UNCHANGED <<positions, request, history, address, midnightLate>>
    PROVE  Once'
<1>0. PICK f : f = Fill(s)
  OBVIOUS
<1>1. /\ fills' \subseteq fills \union {f} /\ fills \subseteq fills'
      /\ f.address = s.address /\ f.blind = s.blind
  BY <1>0, SettlementRecorded DEF Mine, Fill, Memory
<1> SUFFICES ASSUME NEW b \in 1..MaxBlinds PROVE ClosedOnce(b)'
  BY DEF Once
<1>2. /\ ClosedOnce(b) /\ LateMarks(b)' = LateMarks(b) /\ LateFills(b)' = LateFills(b) \ {s}
      /\ LateCalls("match_positions", b)' = LateCalls("match_positions", b)
      /\ Uses("match_positions", b)' = Uses("match_positions", b)
      /\ Uses("mark_covered", b)' = Uses("mark_covered", b)
  BY DEF Once, LateFills, LateMarks, LateCalls, Uses
<1>3. MarkDeeds(b)' = MarkDeeds(b)
  BY <1>2, MarksKept
<1>4. CASE s \in LateFills(b)
  <2>1. <<"to fill", s>> \in Deeds(b)
    BY <1>4, DeedsAre
  <2>2. ~Reserved(b) /\ \A i \in OfBlind(b) : FALSE
    BY <1>2, <2>1 DEF ClosedOnce, DeedTold
  <2>3. \A d \in Deeds(b) : d = <<"to fill", s>>
    BY <1>2, <2>1 DEF ClosedOnce
  <2>4. /\ Uses("match_positions", b) = {} /\ FillsOf(b) = {} /\ LateFills(b) \subseteq {s}
        /\ LateCalls("match_positions", b) = {}
    <3>1. \A k, x : <<k, x>> \in Deeds(b) => k = "to fill" /\ x = s
      BY <2>3
    <3> QED
      BY <3>1, DeedsAre
  <2>5. FillsOf(b)' \subseteq {f}
    BY <1>1, <2>4 DEF FillsOf
  <2>6. Deeds(b)' \subseteq {<<"filled", f>>}
    <3>1. /\ Uses("match_positions", b)' = {} /\ LateFills(b)' = {}
          /\ LateCalls("match_positions", b)' = {}
      BY <1>2, <2>4
    <3> QED
      BY <2>5, <3>1 DEF Deeds
  <2> QED
    BY <1>2, <1>3, <2>2, <2>6, OnceDone
<1>5. CASE s \notin LateFills(b)
  <2>1. ~(f.address = address /\ f.blind = b)
    BY <1>1, <1>5 DEF LateFills
  <2>2. FillsOf(b)' = FillsOf(b) /\ LateFills(b)' = LateFills(b)
    BY <1>1, <1>2, <1>5, <2>1 DEF FillsOf
  <2> QED
    BY <1>2, <1>3, <2>2, DeedsKept, OnceKept
<1> QED
  BY <1>4, <1>5

\* A cover is over, and its mark is left to the chain.
LEMMA OnceLeft ==
    ASSUME Memory, Alone, BookSealed, Paired, BookOpen, Once, GoesOn, NEW r \in Clients,
           CoverDone(r), request[r].tx = "sent",
           midnightLate' = midnightLate \union {Circuit(request[r])},
           UNCHANGED <<Done, polygonLate>>
    PROVE  Once'
<1>0. PICK t, c : t = request[r].target /\ c = Circuit(request[r])
  OBVIOUS
<1>1. At(r, "marking") /\ CloseCovered(r) /\ request[r].pc \in MidnightPcs
  BY DEF CoverDone, At, MidnightPcs
<1>2. c.op = "mark_covered" /\ c.a.blind = positions[t].blind
  BY <1>0, <1>1, CircuitAbout DEF At
<1>3. t \in DOMAIN positions /\ positions[t].status = "open"
  BY <1>0, <1>1 DEF Memory, Targets, Targeting, BookOpen, At
<1>4. ~MarkedOn(t)
  BY <1>0, <1>1, <1>3, AloneOn DEF At, HasMarked
<1>5. positions'[t].status = "covered"
  <2>1. positions[t] \in Position /\ request[r].slot \in Slots
    BY <1>1, <1>3, Shapes DEF Memory, At
  <2> QED
    BY <1>0, <1>1, <2>1, OneCovered, CoveredPosition
<1> SUFFICES ASSUME NEW b \in 1..MaxBlinds PROVE ClosedOnce(b)'
  BY DEF Once
<1>6. /\ ClosedOnce(b) /\ FillsOf(b)' = FillsOf(b) /\ LateFills(b)' = LateFills(b)
      /\ Uses("match_positions", b)' = Uses("match_positions", b)
      /\ Uses("mark_covered", b)' = Uses("mark_covered", b)
  BY DEF Once, FillsOf, LateFills, Uses, Done
<1>7. LateCalls("match_positions", b)' = LateCalls("match_positions", b)
  BY <1>0, <1>2 DEF LateCalls
<1>8. Deeds(b)' = Deeds(b)
  BY <1>6, <1>7, DeedsKept
<1>9. CASE b = positions[t].blind
  <2>1. MarkDeeds(b) = {} /\ OfBlind(b) = {t} /\ ~Reserved(b)
    BY <1>3, <1>4, <1>9, ListedUndone
  <2>2. LateMarks(b)' \subseteq LateMarks(b) \union {c}
    BY <1>0 DEF LateMarks
  <2>3. MarkDeeds(b)' \subseteq {<<"to mark", c>>}
    BY <1>6, <2>1, <2>2 DEF MarkDeeds
  <2>4. MarkTold(<<"to mark", c>>, t)'
    BY <1>5 DEF MarkTold
  <2> QED
    BY <1>6, <1>8, <2>1, <2>3, <2>4, OnceMarked
<1>10. CASE b # positions[t].blind
  <2>1. LateMarks(b)' = LateMarks(b)
    BY <1>0, <1>2, <1>10 DEF LateMarks
  <2> QED
    BY <1>6, <1>8, <2>1, MarksKept, OnceKept
<1> QED
  BY <1>9, <1>10

\* With the book forgotten, nobody has to be told any more.
LEMMA OnceForgotten ==
    ASSUME NEW b \in 1..MaxBlinds, ClosedOnce(b), positions' = <<>>, Reserved(b)' => Reserved(b),
           Deeds(b)' = Deeds(b) \/ (~Reserved(b) /\ \E d : Deeds(b)' \subseteq {d}),
           MarkDeeds(b)' = MarkDeeds(b) \/ (~Reserved(b) /\ \E d : MarkDeeds(b)' \subseteq {d})
    PROVE  ClosedOnce(b)'
<1>1. OfBlind(b)' = {}
  BY DEF OfBlind
<1>2. \A d, e \in Deeds(b)' : d = e
  BY DEF ClosedOnce
<1>3. \A d, e \in MarkDeeds(b)' : d = e
  BY DEF ClosedOnce
<1>4. Reserved(b)' => Deeds(b)' = {} /\ MarkDeeds(b)' = {}
  BY DEF ClosedOnce
<1> QED
  BY <1>1, <1>2, <1>3, <1>4 DEF ClosedOnce

\* The process dies, and with a new contract nothing is done yet.
LEMMA OnceRenewed ==
    ASSUME Memory, FillsBacked, Once, Restart, NewContract
    PROVE  Once'
<1>1. /\ history' = <<>> /\ fills' = fills /\ address' = address + 1 /\ positions' = <<>>
      /\ midnightLate' = {} /\ address \in Nat
  BY DEF NewContract, Midnight!deploy, Restart, ForgetBook, Memory, Addresses
<1>2. \A s \in polygonLate' : s.address <= address
  <2>1. \A q : Settle(q).address = address
    BY DEF Settle, Settlement
  <2> QED
    BY <1>1, <2>1 DEF Restart, FillsBacked
<1>3. \A f \in fills : f.address <= address
  BY DEF FillsBacked, FillBacked
<1> SUFFICES ASSUME NEW b \in 1..MaxBlinds PROVE ClosedOnce(b)'
  BY DEF Once
<1>4. ~(address + 1 <= address)
  BY <1>1
<1>5. FillsOf(b)' = {} /\ LateFills(b)' = {}
  BY <1>1, <1>2, <1>3, <1>4 DEF FillsOf, LateFills
<1>6. LateCalls("match_positions", b)' = {} /\ LateMarks(b)' = {} /\ OfBlind(b)' = {}
      /\ \A op : Uses(op, b)' = {}
  BY <1>1 DEF LateCalls, LateMarks, OfBlind, Uses
<1>7. Deeds(b)' = {} /\ MarkDeeds(b)' = {}
  BY <1>5, <1>6 DEF Deeds, MarkDeeds
<1> QED
  BY <1>6, <1>7 DEF ClosedOnce

\* The process dies, and what it had sent for the one request under way is
\* left to the chains.
LEMMA OnceRestarted ==
    ASSUME Memory, Alone, BookSealed, Paired, BookOpen, Once, Restart,
           UNCHANGED <<history, address>>,
           midnightLate' = midnightLate \union
               {Circuit(request[r]) : r \in {q \in Critical : Sent(q, MidnightPcs)}}
    PROVE  Once'
<1>1. /\ positions' = <<>> /\ UNCHANGED <<fills, blinds>>
      /\ \A r \in Clients : request'[r].pc = "idle"
  BY AllForgotten DEF Restart
<1>2. polygonLate' = polygonLate \union
          {Settle(request[r]) : r \in {q \in Critical : Sent(q, {"write", "receipt"})}}
  BY DEF Restart
<1> SUFFICES ASSUME NEW b \in 1..MaxBlinds PROVE ClosedOnce(b)'
  BY DEF Once
<1>3. /\ ClosedOnce(b) /\ FillsOf(b)' = FillsOf(b) /\ (Reserved(b)' => Reserved(b))
      /\ Uses("match_positions", b)' = Uses("match_positions", b)
      /\ Uses("mark_covered", b)' = Uses("mark_covered", b)
  BY <1>1 DEF Once, FillsOf, Uses, Reserved, Drafting
<1>4. ASSUME midnightLate' = midnightLate, polygonLate' = polygonLate
      PROVE  ClosedOnce(b)'
  <2>1. LateCalls("match_positions", b)' = LateCalls("match_positions", b)
        /\ LateMarks(b)' = LateMarks(b) /\ LateFills(b)' = LateFills(b)
    BY <1>4 DEF LateCalls, LateMarks, LateFills
  <2> QED
    BY <1>1, <1>3, <2>1, DeedsKept, MarksKept, OnceForgotten
<1>5. CASE Critical = {}
  BY <1>2, <1>4, <1>5
<1>6. ASSUME NEW r \in Critical PROVE ClosedOnce(b)'
  <2>1. /\ request[r].pc \in MidnightPcs \union PolygonPcs /\ request[r].pc # "idle"
        /\ r \in Clients /\ request[r] \in Requests
    BY DEF Critical, MidnightPcs, PolygonPcs, Memory
  <2>2. Critical = {r}
    BY <2>1 DEF Alone, Critical, MidnightPcs, PolygonPcs
  <2>3. PICK t, o, c, s : /\ t = request[r].target /\ o = request[r].own.id
                          /\ c = Circuit(request[r]) /\ s = Settle(request[r])
    OBVIOUS
  <2>4. /\ midnightLate' = midnightLate \union (IF Sent(r, MidnightPcs) THEN {c} ELSE {})
        /\ polygonLate' = polygonLate \union
               (IF Sent(r, {"write", "receipt"}) THEN {s} ELSE {})
    BY <1>2, <2>2, <2>3
  <2>5. /\ request[r].pc \in Drafting => c.op = "open_position"
        /\ request[r].pc = "matching" => /\ c.op = "match_positions"
                                         /\ c.a.blind = positions[t].blind
                                         /\ c.b.blind = positions[o].blind
        /\ request[r].pc = "marking" => c.op = "mark_covered" /\ c.a.blind = positions[t].blind
    <3>1. CASE request[r].pc \in MidnightPcs
      BY <2>1, <2>3, <3>1, CircuitAbout
    <3> QED
      BY <3>1 DEF Drafting, MidnightPcs
  <2>6. s.address = address /\ s.blind = positions[t].blind
    BY <2>3 DEF Settle, Settlement
  <2>7. \A i : /\ MatchedOn(i) <=> positions[i].status = "matched"
                                   \/ (HasProved(request[r]) /\ i \in {t, o})
               /\ FilledOn(i) <=> positions[i].status = "covered"
                                  \/ (HasFilled(request[r]) /\ i = t)
               /\ MarkedOn(i) <=> positions[i].status = "covered"
                                  \/ (HasMarked(request[r]) /\ i = t)
    BY <2>1, <2>3, AloneOn
  <2>8. /\ request[r].pc \in Targeting => t \in DOMAIN positions /\ positions[t].status = "open"
        /\ request[r].pc = "matching" => o \in DOMAIN positions /\ positions[o].status = "open"
    BY <2>1, <2>3 DEF Memory, Targets, BookOpen
  <2>9. CASE request[r].pc = "matching" /\ Sent(r, MidnightPcs)
    <3>1. ~Sent(r, {"write", "receipt"}) /\ ~HasProved(request[r]) /\ ~HasFilled(request[r])
      BY <2>9, <2>1, Shapes DEF Sent, HasProved, HasFilled
    <3>2. LateFills(b)' = LateFills(b) /\ LateMarks(b)' = LateMarks(b)
      BY <2>4, <2>5, <2>9, <3>1 DEF LateFills, LateMarks
    <3>3. MarkDeeds(b)' = MarkDeeds(b)
      BY <1>3, <3>2, MarksKept
    <3>4. ASSUME NEW i \in {t, o}, b = positions[i].blind PROVE ClosedOnce(b)'
      <4>1. Deeds(b) = {} /\ ~Reserved(b)
        BY <2>7, <2>8, <2>9, <3>1, <3>4, ListedUndone DEF Targeting
      <4>2. LateCalls("match_positions", b)' \subseteq LateCalls("match_positions", b) \union {c}
        BY <2>4 DEF LateCalls
      <4>3. Deeds(b)' \subseteq {<<"to match", c>>}
        BY <1>3, <3>2, <4>1, <4>2 DEF Deeds
      <4> QED
        BY <1>1, <1>3, <3>3, <4>1, <4>3, OnceForgotten
    <3>5. CASE b \notin {positions[t].blind, positions[o].blind}
      <4>1. LateCalls("match_positions", b)' = LateCalls("match_positions", b)
        BY <2>4, <2>5, <2>9, <3>5 DEF LateCalls
      <4> QED
        BY <1>1, <1>3, <3>2, <3>3, <4>1, DeedsKept, OnceForgotten
    <3> QED
      BY <3>4, <3>5
  <2>10. CASE request[r].pc = "marking" /\ Sent(r, MidnightPcs)
    <3>1. ~Sent(r, {"write", "receipt"}) /\ ~HasMarked(request[r])
      BY <2>10 DEF Sent, HasMarked
    <3>2. LateFills(b)' = LateFills(b)
          /\ LateCalls("match_positions", b)' = LateCalls("match_positions", b)
      BY <2>4, <2>5, <2>10, <3>1 DEF LateFills, LateCalls
    <3>3. Deeds(b)' = Deeds(b)
      BY <1>3, <3>2, DeedsKept
    <3>4. CASE b = positions[t].blind
      <4>1. MarkDeeds(b) = {} /\ ~Reserved(b)
        BY <2>7, <2>8, <2>10, <3>1, <3>4, ListedUndone DEF Targeting
      <4>2. LateMarks(b)' \subseteq LateMarks(b) \union {c}
        BY <2>4 DEF LateMarks
      <4>3. MarkDeeds(b)' \subseteq {<<"to mark", c>>}
        BY <1>3, <4>1, <4>2 DEF MarkDeeds
      <4> QED
        BY <1>1, <1>3, <3>3, <4>1, <4>3, OnceForgotten
    <3>5. CASE b # positions[t].blind
      <4>1. LateMarks(b)' = LateMarks(b)
        BY <2>4, <2>5, <2>10, <3>5 DEF LateMarks
      <4> QED
        BY <1>1, <1>3, <3>3, <4>1, MarksKept, OnceForgotten
    <3> QED
      BY <3>4, <3>5
  <2>11. CASE Sent(r, {"write", "receipt"})
    <3>1. /\ ~Sent(r, MidnightPcs) /\ ~HasProved(request[r]) /\ ~HasFilled(request[r])
          /\ request[r].pc \in PolygonPcs
      BY <2>11 DEF Sent, MidnightPcs, PolygonPcs, HasProved, HasFilled
    <3>2. LateMarks(b)' = LateMarks(b)
          /\ LateCalls("match_positions", b)' = LateCalls("match_positions", b)
      BY <2>4, <3>1 DEF LateMarks, LateCalls
    <3>3. MarkDeeds(b)' = MarkDeeds(b)
      BY <1>3, <3>2, MarksKept
    <3>4. CASE b = positions[t].blind
      <4>1. Deeds(b) = {} /\ ~Reserved(b)
        BY <2>7, <2>8, <3>1, <3>4, ListedUndone DEF Targeting
      <4>2. LateFills(b)' \subseteq LateFills(b) \union {s}
        BY <2>4 DEF LateFills
      <4>3. Deeds(b)' \subseteq {<<"to fill", s>>}
        BY <1>3, <3>2, <4>1, <4>2 DEF Deeds
      <4> QED
        BY <1>1, <1>3, <3>3, <4>1, <4>3, OnceForgotten
    <3>5. CASE b # positions[t].blind
      <4>1. LateFills(b)' = LateFills(b)
        BY <2>4, <2>6, <3>5 DEF LateFills
      <4> QED
        BY <1>1, <1>3, <3>2, <3>3, <4>1, DeedsKept, OnceForgotten
    <3> QED
      BY <3>4, <3>5
  <2>12. CASE request[r].pc \in Drafting /\ Sent(r, MidnightPcs)
    <3>1. ~Sent(r, {"write", "receipt"})
      BY <2>12 DEF Sent, Drafting
    <3>2. LateFills(b)' = LateFills(b) /\ LateMarks(b)' = LateMarks(b)
          /\ LateCalls("match_positions", b)' = LateCalls("match_positions", b)
      BY <2>4, <2>5, <2>12, <3>1 DEF LateFills, LateMarks, LateCalls
    <3> QED
      BY <1>1, <1>3, <3>2, DeedsKept, MarksKept, OnceForgotten
  <2>13. CASE ~Sent(r, MidnightPcs) /\ ~Sent(r, {"write", "receipt"})
    BY <1>4, <2>4, <2>13
  <2> QED
    BY <2>9, <2>10, <2>11, <2>12, <2>13 DEF Sent, MidnightPcs, Drafting
<1> QED
  BY <1>5, <1>6

LEMMA OnceStep ==
    ASSUME "lost_reply" \notin Faults, Memory, Midnight!TypeOK, VaultBooks, Alone, BookSealed,
           Paired, BookOpen, FillsBacked, Once, [Next]_vars
    PROVE  Once'
<1>1. ASSUME UNCHANGED <<Done, Lates>>, GoesOn PROVE Once'
  <2> SUFFICES ASSUME NEW b \in 1..MaxBlinds PROVE ClosedOnce(b)'
    BY DEF Once
  <2>1. Deeds(b)' = Deeds(b) /\ MarkDeeds(b)' = MarkDeeds(b)
    BY <1>1 DEF Deeds, MarkDeeds, Uses, FillsOf, LateCalls, LateMarks, LateFills, Done, Lates
  <2> QED
    BY <1>1, <2>1, OnceKept DEF Once
<1>2. CASE Restart
  BY <1>2, OnceRenewed, OnceRestarted DEF Restart, ledger
<1>3. ~Restart => GoesOn
  BY BookGoesOn
<1> QED
  BY <1>1, <1>2, <1>3, DeedKinds, OnceLands, OnceLate, OnceSettled, OnceLateFill, OnceLeft

LEMMA AtMostOne ==
    ASSUME NEW S, \A x, y \in S : x = y
    PROVE  Cardinality(S) = IF S = {} THEN 0 ELSE 1
<1>1. CASE S = {}
  BY <1>1, FS_EmptySet
<1>2. CASE S # {}
  <2>1. PICK x : S = {x}
    BY <1>2
  <2> QED
    BY <1>2, <2>1, FS_Singleton
<1> QED
  BY <1>1, <1>2

\* What holds when requests do not overlap and every answer arrives.
OneAfterAnother ==
    /\ Memory /\ Midnight!TypeOK /\ VaultBooks /\ Alone
    /\ Fresh /\ BookSealed /\ Paired /\ BookOpen /\ FillsBacked /\ Once

LEMMA OneAfterAnotherAlways ==
    ASSUME "overlap" \notin Faults, "lost_reply" \notin Faults
    PROVE  Spec => []OneAfterAnother
<1>1. Init => OneAfterAnother
  BY MemoryInit, LedgerInit, VaultInit, AloneInit, FreshInit, SealedInit, PairedInit, OpenInit,
     FillsInit, OnceInit DEF OneAfterAnother
<1>2. OneAfterAnother /\ [Next]_vars => OneAfterAnother'
  <2> SUFFICES ASSUME OneAfterAnother, [Next]_vars PROVE OneAfterAnother'
    OBVIOUS
  <2>1. /\ Memory /\ Midnight!TypeOK /\ VaultBooks /\ Alone
        /\ Fresh /\ BookSealed /\ Paired /\ BookOpen /\ FillsBacked /\ Once
    BY DEF OneAfterAnother
  <2>2. Memory' /\ Midnight!TypeOK' /\ VaultBooks' /\ Alone' /\ Fresh'
    BY <2>1, MemoryStep, LedgerStep, VaultStep, AloneStep, FreshStep
  <2>3. BookSealed' /\ Paired' /\ BookOpen' /\ FillsBacked' /\ Once'
    BY <2>1, SealedStep, PairedStep, OpenStep, FillsStep, OnceStep
  <2> QED
    BY <2>2, <2>3 DEF OneAfterAnother
<1> QED
  BY <1>1, <1>2, PTL DEF Spec

\* What closes a commitment, closes it once.
LEMMA AtMostOneDeed ==
    ASSUME NEW b \in 1..MaxBlinds, Once
    PROVE  /\ Matches(b) = IF Uses("match_positions", b) = {} THEN 0 ELSE 1
           /\ FillsFor(b) = IF FillsOf(b) = {} THEN 0 ELSE 1
           /\ Marks(b) = IF Uses("mark_covered", b) = {} THEN 0 ELSE 1
           /\ Uses("match_positions", b) = {} \/ FillsOf(b) = {}
<1>1. (\A d, e \in Deeds(b) : d = e) /\ (\A d, e \in MarkDeeds(b) : d = e)
  BY DEF Once, ClosedOnce
<1>2. \A k, x, l, y : <<k, x>> \in Deeds(b) /\ <<l, y>> \in Deeds(b) => k = l /\ x = y
  BY <1>1
<1>3. \A k, x, l, y : <<k, x>> \in MarkDeeds(b) /\ <<l, y>> \in MarkDeeds(b) => k = l /\ x = y
  BY <1>1
<1>4. /\ \A x \in Uses("match_positions", b) : <<"matched", x>> \in Deeds(b)
      /\ \A x \in FillsOf(b) : <<"filled", x>> \in Deeds(b)
      /\ \A x \in Uses("mark_covered", b) : <<"marked", x>> \in MarkDeeds(b)
  BY DEF Deeds, MarkDeeds
<1>5. /\ \A x, y \in Uses("match_positions", b) : x = y
      /\ \A x, y \in FillsOf(b) : x = y
      /\ \A x, y \in Uses("mark_covered", b) : x = y
      /\ Uses("match_positions", b) = {} \/ FillsOf(b) = {}
  BY <1>2, <1>3, <1>4
<1> QED
  BY <1>5, AtMostOne DEF Matches, FillsFor, Marks

\* When requests do not overlap and no answer that was sent is lost, a
\* commitment is matched on Midnight or filled on Polygon, once and never both,
\* and is marked covered at most once, although the process may die between any
\* two awaits and leave what it had sent, marks may come late and traders may
\* withdraw: the status checks of /api/match and /api/cover, made before the
\* awaits, are then enough (server.ts:8, 497, 560).
THEOREM EachHasOneFate ==
    ASSUME "overlap" \notin Faults, "lost_reply" \notin Faults
    PROVE  Spec => []OneFate
<1>1. OneAfterAnother => OneFate
  <2> SUFFICES ASSUME OneAfterAnother, NEW b \in 1..blinds
               PROVE  Matches(b) + FillsFor(b) <= 1 /\ Marks(b) <= 1
    BY DEF OneFate
  <2>1. b \in 1..MaxBlinds
    BY ServerAssumption DEF OneAfterAnother, Memory
  <2> QED
    BY <2>1, AtMostOneDeed DEF OneAfterAnother
<1> QED
  BY <1>1, OneAfterAnotherAlways, PTL

-----------------------------------------------------------------------------
(* Calm days: besides, nothing that a cover counts on is lost              *)

\* The fill of a cover that has passed a check can still not be refused.
CoverFunded(r) ==
    /\ At(r, "read_free") \/ At(r, "read_settled") \/ At(r, "write") => request[r].tx = "none"
    /\ At(r, "read_settled") \/ At(r, "write") \/ Sending(r)
          => Settle(request[r]).size <= Vault!freeCollateral
    /\ At(r, "write") \/ Sending(r) => <<address, request[r].slot>> \notin settled
    /\ At(r, "receipt") => request[r].tx \in {"sent", "settled"}
Funded == \A r \in Clients : CoverFunded(r)

LEMMA CalmResume ==
    ASSUME "lost_reply" \notin Faults, Memory, Funded, NEW r \in Clients, Resume(r)
    PROVE  /\ UNCHANGED <<Chains, address, polygonLate>>
           /\ UNCHANGED midnightLate \/ CoverDone(r)
           /\ \/ Continues(r)
              \/ OpenDone(r) \/ MatchOpened(r) \/ MatchDone(r) \/ CoverDone(r)
<1>0. Idle \in Requests /\ Silent(Idle) /\ request[r] \in Requests /\ CoverFunded(r)
  BY IdleIsARequest DEF Silent, HasProved, HasFilled, HasMarked, Memory, Funded
<1>1. CASE Throw(r)
  <2>1. Silent(request[r])
    BY <1>1 DEF Throw, At, Silent, HasProved, HasFilled, HasMarked
  <2> QED
    BY <1>0, <1>1, <2>1 DEF Throw, Finish, Continues, Chains, midnight, polygon
<1>2. CASE ThrowAndLeave(r)
  BY <1>2 DEF ThrowAndLeave
<1>3. CASE CoverReadFree(r) \/ CoverReadSettled(r) \/ CoverWrite(r) \/ CoverReceipt(r)
  <2>1. /\ request[r].pc \in PolygonPcs
        /\ UNCHANGED <<positions, midnight, polygon>>
    BY <1>3, CoverProceeds
  <2>2. CASE Finish(r)
    <3>1. Silent(request[r])
      <4>1. ~CoverReceipt(r)
        <5>1. Idle.pc # "marking" /\ request'[r] = Idle
          BY <1>0, <2>2, IdleIsARequest, Becomes DEF Finish, Memory
        <5>2. CoverReceipt(r) => Become(r, [request[r] EXCEPT !.pc = "marking", !.tx = "sent"])
          BY DEF CoverReceipt, Proceed
        <5>3. request[r] \in [pc : PolygonPcs, target : Nat, slot : Slots,
                              tx : {"none", "sent", "settled", "reverted"}]
          BY <1>0, <2>1 DEF Requests, BodyPcs, PolygonPcs
        <5>4. [request[r] EXCEPT !.pc = "marking", !.tx = "sent"].pc = "marking"
          BY <5>3
        <5>5. request[r] \in Requests /\ request \in [Clients -> Requests]
          BY <1>0 DEF Memory
        <5> QED
          BY <5>1, <5>2, <5>4, <5>5 DEF Become
      <4> QED
        BY <1>3, <4>1 DEF CoverReadFree, CoverReadSettled, CoverWrite, At, Silent, HasProved,
                          HasFilled, HasMarked
    <3> QED
      BY <1>0, <2>1, <2>2, <3>1 DEF Finish, Continues, Chains, midnight, polygon
  <2>3. ASSUME NEW pc \in PolygonPcs \union {"marking"}, NEW tx \in {"none", "sent"},
               CoverAt(pc, request[r].target, request[r].slot, tx) \in Requests,
               request' = [request EXCEPT
                               ![r] = CoverAt(pc, request[r].target, request[r].slot, tx)]
        PROVE  Continues(r)
    <3> DEFINE q == CoverAt(pc, request[r].target, request[r].slot, tx)
    <3>1. q.pc = pc /\ q.target = request[r].target /\ q.tx = tx
      BY DEF CoverAt
    <3>2. request'[r] = q
      BY <2>3 DEF Memory
    <3> HIDE DEF q
    <3>3. q \in Requests /\ Become(r, q)
      BY <2>3 DEF q, Become
    <3>4. CASE ~CoverReceipt(r)
      <4>1. pc # "marking"
        <5>1. request[r] \in [pc : PolygonPcs, target : Nat, slot : Slots,
                              tx : {"none", "sent", "settled", "reverted"}]
          BY <1>0, <2>1 DEF Requests, BodyPcs, PolygonPcs
        <5>2. \E to \in {"read_settled", "write", "receipt"}, sent \in {"none", "sent"} :
                  Finish(r) \/ Become(r, [request[r] EXCEPT !.pc = to, !.tx = sent])
          BY <1>3, <3>4 DEF CoverReadFree, CoverReadSettled, CoverWrite, Proceed
        <5>3. \A to \in {"read_settled", "write", "receipt"}, sent \in {"none", "sent"} :
                  [request[r] EXCEPT !.pc = to, !.tx = sent].pc # "marking"
          BY <5>1
        <5>4. Idle.pc # "marking"
          BY IdleIsARequest
        <5>5. request'[r].pc # "marking"
          BY <5>2, <5>3, <5>4 DEF Finish, Become, Memory
        <5> QED
          BY <3>1, <3>2, <5>5
      <4>2. Silent(q) /\ Silent(request[r])
        BY <1>3, <3>1, <3>4, <4>1 DEF CoverReadFree, CoverReadSettled, CoverWrite, At, Silent,
                                      HasProved, HasFilled, HasMarked, PolygonPcs
      <4> QED
        BY <2>1, <3>3, <4>2 DEF Continues
    <3>5. CASE CoverReceipt(r)
      <4>1. request[r].pc = "receipt" /\ request[r].tx = "settled"
        BY <1>0, <3>5 DEF CoverReceipt, At, CoverFunded
      <4>2. request[r] \in [pc : PolygonPcs, target : Nat, slot : Slots,
                            tx : {"none", "sent", "settled", "reverted"}]
        BY <1>0, <2>1 DEF Requests, BodyPcs, PolygonPcs
      <4>3. request' = [request EXCEPT ![r] = [request[r] EXCEPT !.pc = "marking", !.tx = "sent"]]
        BY <3>5 DEF CoverReceipt, Proceed, Become
      <4>4. [request[r] EXCEPT !.pc = "marking", !.tx = "sent"].pc = "marking"
            /\ [request[r] EXCEPT !.pc = "marking", !.tx = "sent"].tx = "sent"
        BY <4>2
      <4>5. q.pc = "marking" /\ q.tx = "sent"
        BY <3>2, <4>3, <4>4 DEF Memory
      <4> QED
        BY <2>1, <3>1, <3>3, <4>1, <4>5 DEF Continues, HasProved, HasFilled, HasMarked
    <3> QED
      BY <3>4, <3>5
  <2> QED
    BY <1>3, <2>1, <2>2, <2>3, CoverProceeds DEF Become, Chains, midnight, polygon
<1>4. CASE OpenDone(r) \/ MatchOpened(r) \/ MatchDone(r)
  BY <1>4 DEF OpenDone, MatchOpened, ListOther, MatchDone, Chains, midnight, polygon
<1>5. CASE CoverDone(r)
  BY <1>5 DEF CoverDone, CloseCovered, Chains, polygon, HasMarked, At
<1> QED
  BY <1>1, <1>2, <1>3, <1>4, <1>5 DEF Resume

\* What can happen when at most a mark is lost.
LEMMA CalmKinds ==
    ASSUME Faults \subseteq {"mark_lost"}, Memory, VaultBooks, polygonLate = {}, Funded,
           [Next]_vars
    PROVE  /\ polygonLate' = {} /\ UNCHANGED address
           /\ \/ /\ UNCHANGED <<positions, request, ledger, fills, settlements, settled, committed,
                                midnightLate>>
                 /\ totalDeposits' = totalDeposits \/ \E v \in Deposits : Vault!deposit(Trader, v)
              \/ \E r \in Clients : Settled(r) /\ UNCHANGED <<positions, ledger, midnightLate>>
              \/ \E r \in Clients : Lands(r) /\ UNCHANGED <<vault, fills, midnightLate>>
              \/ /\ UNCHANGED <<positions, request, vault, fills>>
                 /\ \E c \in midnightLate : Include(c) /\ midnightLate' = midnightLate \ {c}
              \/ /\ UNCHANGED Chains
                 /\ \E r \in Clients :
                       /\ Arrive(r) \/ Body(r) \/ Resume(r)
                       /\ UNCHANGED midnightLate \/ CoverDone(r)
                       /\ \/ Continues(r)
                          \/ OpenDone(r) \/ MatchOpened(r) \/ MatchDone(r) \/ CoverDone(r)
<1>1. CASE UNCHANGED vars \/ Boot
  BY <1>1 DEF vars, memory, midnight, polygon, vault, Boot, BootOne, BootDone
<1>2. CASE Trading
  BY <1>2 DEF Trading, memory, midnight, Vault!deposit
<1>3. CASE Restart
  BY <1>3 DEF Restart
<1>4. CASE MidnightBlock
  <2>1. ASSUME NEW r \in Clients, request[r].pc \in MidnightPcs, request[r].tx = "sent",
               Include(Circuit(request[r])), Become(r, [request[r] EXCEPT !.tx = "included"]),
               UNCHANGED midnightLate
        PROVE  Lands(r)
    <3> DEFINE q == [request[r] EXCEPT !.tx = "included"]
    <3>1. /\ q \in Requests /\ q.pc = request[r].pc /\ q.tx = "included"
          /\ q.pc \in Targeting => q.target = request[r].target
          /\ q.pc \in Owning => q.own = request[r].own
          /\ q.pc = "marking" => q.slot = request[r].slot
      BY <2>1, Answered DEF Memory
    <3>2. Become(r, q) /\ UNCHANGED <<positions, nextCoverSlot, blinds>>
      BY <1>4, <2>1 DEF MidnightBlock
    <3> HIDE DEF q
    <3> QED
      BY <2>1, <3>1, <3>2 DEF Lands
  <2>2. UNCHANGED <<positions, address, vault, fills, polygonLate>>
    BY <1>4 DEF MidnightBlock, polygon
  <2>3. \/ \E r \in Clients :
             /\ request[r].pc \in MidnightPcs /\ request[r].tx = "sent"
             /\ Include(Circuit(request[r]))
             /\ Become(r, [request[r] EXCEPT !.tx = "included"]) /\ UNCHANGED midnightLate
        \/ /\ UNCHANGED request
           /\ \E c \in midnightLate : Include(c) /\ midnightLate' = midnightLate \ {c}
    BY <1>4 DEF MidnightBlock
  <2> QED
    BY <2>1, <2>2, <2>3
<1>5. CASE PolygonBlock
  <2>1. PICK r \in Clients, outcome \in {"settled", "reverted"} :
          /\ Sending(r) /\ Mine(Settle(request[r]), outcome)
          /\ Become(r, [request[r] EXCEPT !.tx = outcome])
          /\ UNCHANGED <<polygonLate, positions, midnight>>
    BY <1>5 DEF PolygonBlock, Sending
  <2>2. Settle(request[r]).address = address /\ Settle(request[r]).slot = request[r].slot
    BY DEF Settle, Settlement
  <2>3. outcome = "settled"
    <3>1. /\ Settle(request[r]).size <= Vault!freeCollateral
          /\ <<address, request[r].slot>> \notin settled
      BY <2>1 DEF Funded, CoverFunded
    <3>2. Settle(request[r]) \in Settles /\ Vault!freeCollateral \in Int
      <4>1. Vault!freeCollateral \in Int
        BY DEF VaultBooks, Vault!freeCollateral
      <4>2. request[r].pc \in PolygonPcs
        BY <2>1 DEF Sending, At, PolygonPcs
      <4> QED
        BY <4>1, <4>2, SettleTyped
    <3>3. Settle(request[r]).size \in Int
      BY <3>2 DEF Settles
    <3> QED
      BY <2>1, <2>2, <3>1, <3>2, <3>3 DEF Mine
  <2>4. request[r] \in Requests /\ request[r].pc = "receipt" /\ "receipt" \in PolygonPcs
    BY <2>1 DEF Memory, Sending, At, PolygonPcs
  <2>5. [request[r] EXCEPT !.tx = "settled"]
          = CoverAt("receipt", request[r].target, request[r].slot, "settled")
    BY <2>4, Proceeds
  <2> QED
    BY <2>1, <2>3, <2>5 DEF Settled, midnight
<1>6. ASSUME NEW r \in Clients, Arrive(r) \/ Body(r)
      PROVE  Continues(r) /\ UNCHANGED <<Chains, address, midnightLate, polygonLate>>
  BY <1>6, CalmBody
<1>7. ASSUME NEW r \in Clients, Resume(r)
      PROVE  /\ UNCHANGED <<Chains, address, polygonLate>>
             /\ UNCHANGED midnightLate \/ CoverDone(r)
             /\ \/ Continues(r)
                \/ OpenDone(r) \/ MatchOpened(r) \/ MatchDone(r) \/ CoverDone(r)
  BY <1>7, CalmResume
<1> QED
  BY <1>1, <1>2, <1>3, <1>4, <1>5, <1>6, <1>7, NextIsAStep DEF AnyStep

LEMMA ProceedsTo ==
    ASSUME NEW q \in Requests, q.pc \in PolygonPcs, NEW pc \in PolygonPcs \union {"marking"},
           NEW tx \in {"none", "sent"}
    PROVE  [q EXCEPT !.pc = pc, !.tx = tx] = CoverAt(pc, q.target, q.slot, tx)
<1>1. q \in [pc : PolygonPcs, target : Nat, slot : Slots,
             tx : {"none", "sent", "settled", "reverted"}]
  BY DEF Requests, BodyPcs, MidnightPcs, PolygonPcs
<1>2. [q EXCEPT !.pc = pc] = CoverAt(pc, q.target, q.slot, q.tx)
  BY <1>1 DEF CoverAt
<1>3. [CoverAt(pc, q.target, q.slot, q.tx) EXCEPT !.tx = tx] = CoverAt(pc, q.target, q.slot, tx)
  BY DEF CoverAt
<1> QED
  BY <1>2, <1>3

LEMMA FundedBy ==
    ASSUME Memory, Alone, Funded, NEW r \in Clients, NEW q \in Requests, Become(r, q),
           \/ request[r].pc # "idle"
           \/ UNCHANGED <<positions, address, totalDeposits, committed, settled>>,
           CoverFunded(r)'
    PROVE  Funded'
<1> SUFFICES ASSUME NEW s \in Clients, s # r PROVE CoverFunded(s)'
  BY DEF Funded
<1>1. request'[s] = request[s] /\ CoverFunded(s)
  BY Becomes DEF Memory, Funded
<1>2. CASE request[r].pc # "idle"
  <2>1. request'[s].pc = "idle"
    BY <1>1, <1>2 DEF Alone
  <2> QED
    BY <2>1 DEF CoverFunded, At, Sending
<1>3. CASE UNCHANGED <<positions, address, totalDeposits, committed, settled>>
  BY <1>1, <1>3 DEF CoverFunded, At, Sending, Settle, Settlement, Vault!freeCollateral
<1> QED
  BY <1>2, <1>3

\* The checks a cover has passed, in the order it passes them.
LEMMA FundedCover ==
    ASSUME Memory, Alone, Funded, NEW r \in Clients,
           CoverReadFree(r) \/ CoverReadSettled(r) \/ CoverWrite(r) \/ CoverReceipt(r)
    PROVE  Funded'
<1>1. /\ request[r] \in Requests /\ request[r].pc \in PolygonPcs /\ CoverFunded(r)
      /\ UNCHANGED <<positions, midnight, polygon>>
  BY CoverProceeds DEF Memory, Funded
<1>2. CASE Finish(r)
  <2>1. request'[r].pc = "idle"
    BY <1>2, IdleIsARequest, Becomes DEF Finish, Memory
  <2>2. CoverFunded(r)'
    BY <2>1 DEF CoverFunded, At, Sending
  <2> QED
    BY <1>1, <1>2, <2>2, FundedBy, IdleIsARequest DEF Finish, PolygonPcs
<1>3. ASSUME NEW pc \in PolygonPcs \union {"marking"}, NEW tx \in {"none", "sent"},
             Become(r, [request[r] EXCEPT !.pc = pc, !.tx = tx]),
             pc = "marking" => tx = "sent",
             pc \in {"read_free", "read_settled", "write"} => tx = "none",
             pc \in {"read_settled", "write", "receipt"}
                => Settle(request[r]).size <= Vault!freeCollateral,
             pc \in {"write", "receipt"} => <<address, request[r].slot>> \notin settled,
             pc = "receipt" => tx = "sent"
      PROVE  Funded'
  <2> DEFINE q == CoverAt(pc, request[r].target, request[r].slot, tx)
  <2>1. q.pc = pc /\ q.tx = tx /\ q.target = request[r].target /\ q.slot = request[r].slot
    BY DEF CoverAt
  <2>2. q \in Requests
    BY <1>1, <1>3, Proceeds
  <2>3. Become(r, q)
    BY <1>1, <1>3, ProceedsTo
  <2> HIDE DEF q
  <2>4. request'[r] = q
    BY <2>2, <2>3, Becomes DEF Memory
  <2>5. Settle(request[r])'.size = Settle(request[r]).size
    BY <1>1, <2>1, <2>4 DEF Settle, Settlement
  <2>6. CoverFunded(r)'
    BY <1>1, <1>3, <2>1, <2>4, <2>5 DEF CoverFunded, At, Sending, Vault!freeCollateral, midnight,
                                        polygon, vault
  <2> QED
    BY <1>1, <2>2, <2>3, <2>6, FundedBy DEF PolygonPcs
<1>4. CASE ~Finish(r)
  <2>1. CASE CoverReadFree(r)
    BY <1>3, <1>4, <2>1 DEF CoverReadFree, Proceed, PolygonPcs
  <2>2. CASE CoverReadSettled(r)
    BY <1>1, <1>3, <1>4, <2>2 DEF CoverReadSettled, Proceed, PolygonPcs, CoverFunded, At
  <2>3. CASE CoverWrite(r)
    BY <1>1, <1>3, <1>4, <2>3 DEF CoverWrite, Proceed, PolygonPcs, CoverFunded, At
  <2>4. CASE CoverReceipt(r)
    BY <1>3, <1>4, <2>4 DEF CoverReceipt, Proceed, PolygonPcs
  <2> QED
    BY <2>1, <2>2, <2>3, <2>4
<1> QED
  BY <1>2, <1>4

LEMMA FundedInit == Init => Funded
BY IdleIsARequest DEF Init, Funded, CoverFunded, At, Sending

LEMMA FundedStep ==
    ASSUME Faults \subseteq {"mark_lost"}, Memory, VaultBooks, Alone, polygonLate = {}, Funded,
           [Next]_vars
    PROVE  Funded'
<1>0. /\ Idle \in Requests /\ Idle.pc = "idle"
      /\ \A s \in Clients : request'[s].pc \notin PolygonPcs => CoverFunded(s)'
  BY IdleIsARequest DEF CoverFunded, At, Sending, PolygonPcs
<1>1. CASE UNCHANGED <<positions, request, settled, committed, address>>
           /\ (totalDeposits' = totalDeposits \/ \E v \in Deposits : Vault!deposit(Trader, v))
  <2>1. Vault!freeCollateral <= Vault!freeCollateral'
    BY <1>1, ServerAssumption DEF Vault!deposit, Vault!freeCollateral, VaultBooks
  <2> SUFFICES ASSUME NEW s \in Clients PROVE CoverFunded(s)'
    BY DEF Funded
  <2>2. CoverFunded(s) /\ Settle(request[s])' = Settle(request[s])
    BY <1>1 DEF Funded, Settle, Settlement
  <2>3. request[s].pc \in PolygonPcs => Settle(request[s]).size \in Int
    BY SettleTyped DEF Settles
  <2>4. Vault!freeCollateral \in Int /\ Vault!freeCollateral' \in Int
    <3>1. totalDeposits \in Int /\ totalDeposits' \in Int /\ committed \in Int /\ committed' \in Int
      BY <1>1, ServerAssumption DEF Vault!deposit, VaultBooks
    <3> QED
      BY <3>1 DEF Vault!freeCollateral
  <2>5. request[s].pc \in PolygonPcs /\ Settle(request[s]).size <= Vault!freeCollateral
           => Settle(request[s])'.size <= Vault!freeCollateral'
    BY <2>1, <2>2, <2>3, <2>4
  <2> QED
    BY <1>1, <2>2, <2>5 DEF CoverFunded, At, Sending, PolygonPcs
<1>2. ASSUME NEW r \in Clients, Settled(r)
      PROVE  Funded'
  <2> DEFINE q == CoverAt("receipt", request[r].target, request[r].slot, "settled")
  <2>1. request[r] \in Requests /\ request[r].pc = "receipt" /\ "receipt" \in PolygonPcs
    BY <1>2 DEF Settled, Sending, At, Memory, PolygonPcs
  <2>2. q \in Requests
    BY <2>1, Proceeds
  <2>3. q.pc = "receipt" /\ q.tx = "settled"
    BY DEF CoverAt
  <2>4. Become(r, q)
    BY <1>2 DEF Settled
  <2> HIDE DEF q
  <2>5. CoverFunded(r)'
    BY <2>2, <2>3, <2>4, Becomes DEF Memory, CoverFunded, At, Sending
  <2> QED
    BY <2>1, <2>2, <2>4, <2>5, FundedBy
<1>3. ASSUME NEW r \in Clients, Lands(r)
      PROVE  Funded'
  <2>1. PICK q \in Requests : q.pc = request[r].pc /\ q.pc \in MidnightPcs /\ Become(r, q)
    BY <1>3 DEF Lands
  <2>2. q.pc \notin PolygonPcs /\ q.pc # "idle"
    BY <2>1 DEF MidnightPcs, PolygonPcs
  <2>3. CoverFunded(r)'
    BY <1>0, <2>1, <2>2, Becomes DEF Memory
  <2> QED
    BY <2>1, <2>2, <2>3, FundedBy
<1>4. ASSUME NEW r \in Clients, Arrive(r) \/ Body(r), UNCHANGED Chains, UNCHANGED address
      PROVE  Funded'
  <2>1. UNCHANGED <<positions, address, totalDeposits, committed, settled>>
    BY <1>4, KindsOfBody DEF Chains, vault, Ends, Seals, Takes
  <2>2. ASSUME NEW q \in Requests, Become(r, q), q.pc \notin PolygonPcs
        PROVE  Funded'
    BY <1>0, <2>1, <2>2, Becomes, FundedBy DEF Memory
  <2>3. CASE CoverBegin(r)
    <3>1. PICK t \in DOMAIN positions : StartCover(r, t)
      BY <2>3 DEF CoverBegin
    <3> DEFINE q == [pc |-> "read_free", target |-> t, slot |-> nextCoverSlot, tx |-> "none"]
    <3>2. Finish(r) \/ Become(r, q)
      BY <3>1 DEF StartCover
    <3>3. q \in Requests
      BY <2>3, RequestsMade, LenProperties DEF Memory, CoverBegin
    <3>4. CASE Become(r, q)
      <4>1. request'[r] = q
        BY <3>3, <3>4, Becomes DEF Memory
      <4>2. CoverFunded(r)'
        BY <4>1 DEF CoverFunded, At, Sending
      <4> QED
        BY <2>1, <3>3, <3>4, <4>2, FundedBy
    <3> QED
      BY <1>0, <2>2, <3>2, <3>4 DEF Finish, PolygonPcs
  <2>4. CASE Arrive(r) \/ Refuse(r) \/ OpenBegin(r) \/ MatchBegin(r) \/ OpenBadBody(r)
             \/ MatchBadSize(r)
    <3>1. CASE Ends(r) \/ Seals(r)
      BY <2>2, <3>1 DEF Ends, Seals, Drafting, BodyPcs, PolygonPcs
    <3>2. CASE Takes(r)
      <4>1. request'[r].pc = "read_free"
        BY <3>2, Becomes DEF Takes, Memory
      <4>2. \A q : q.pc # "read_free" => ~Become(r, q)
        BY <4>1 DEF Become, Memory
      <4> QED
        BY <1>0, <2>4, <4>2 DEF Arrive, Refuse, OpenBegin, MatchBegin,
                                OpenBadBody, MatchBadSize, SealOther,
                                SealDraft, Finish
    <3> QED
      BY <2>4, <3>1, <3>2, KindsOfBody DEF Body
  <2> QED
    BY <1>4, <2>3, <2>4 DEF Body
<1>5. ASSUME NEW r \in Clients, Resume(r)
      PROVE  Funded'
  <2>1. ASSUME NEW q \in Requests, Become(r, q), q.pc \notin PolygonPcs, request[r].pc # "idle"
        PROVE  Funded'
    BY <1>0, <2>1, Becomes, FundedBy DEF Memory
  <2>2. request[r].pc # "idle"
    BY <1>5 DEF Resume, OpenDone, MatchOpened, MatchDone, CoverReadFree, CoverReadSettled,
       CoverWrite,
                CoverReceipt, CoverDone, Throw, ThrowAndLeave, At, Critical, MidnightPcs, PolygonPcs
  <2>3. CASE MatchOpened(r)
    <3>1. PICK q \in Requests : Become(r, q) /\ q.pc = "matching"
      BY <2>3, MatchProceeds DEF MatchingOf
    <3> QED
      BY <2>1, <2>2, <3>1 DEF PolygonPcs
  <2>4. CASE OpenDone(r) \/ MatchDone(r) \/ CoverDone(r) \/ Throw(r) \/ ThrowAndLeave(r)
    BY <1>0, <2>1, <2>2, <2>4
       DEF OpenDone, MatchDone, CoverDone, CloseCovered, Throw, ThrowAndLeave, Finish, PolygonPcs
  <2> QED
    BY <1>5, <2>3, <2>4, FundedCover DEF Resume
<1>6. CASE ~\E r \in Clients : Arrive(r) \/ Body(r) \/ Resume(r)
  BY <1>0, <1>1, <1>2, <1>3, <1>6, CalmKinds DEF vault
<1> QED
  BY <1>4, <1>5, <1>6, CalmBody

\* What the book shows or is about to show as covered is filled, and so is
\* what Midnight holds or will hold as covered.
FilledFor(b) == (\E i \in OfBlind(b) : FilledOn(i)) \/ MarkDeeds(b) # {}
Filled == \A b \in 1..MaxBlinds : FilledFor(b) => FillsOf(b) # {}

LEMMA FilledInit == Init => Filled
<1> SUFFICES ASSUME Init PROVE Filled
  OBVIOUS
<1>1. positions = <<>> /\ history = <<>> /\ midnightLate = {}
  BY DEF Init, Midnight!Init
<1>2. ASSUME NEW b PROVE ~FilledFor(b)
  <2>1. Uses("mark_covered", b) = {} /\ LateMarks(b) = {} /\ OfBlind(b) = {}
    BY <1>1 DEF Uses, LateMarks, OfBlind
  <2> QED
    BY <2>1 DEF FilledFor, MarkDeeds
<1> QED
  BY <1>2 DEF Filled

\* Nothing is shown, and nothing marked, that was not before or is filled.
LEMMA FilledKept ==
    ASSUME Filled, fills \subseteq fills', UNCHANGED address,
           \A b \in 1..MaxBlinds :
              /\ \A i \in OfBlind(b)' : FilledOn(i)' => \/ i \in OfBlind(b) /\ FilledOn(i)
                                                      \/ FillsOf(b)' # {}
              /\ MarkDeeds(b)' # {} => MarkDeeds(b) # {} \/ FillsOf(b) # {}
    PROVE  Filled'
<1>1. ASSUME NEW b \in 1..MaxBlinds, FilledFor(b)' PROVE FillsOf(b)' # {}
  <2>1. FillsOf(b) \subseteq FillsOf(b)'
    BY DEF FillsOf
  <2>2. FillsOf(b) # {} \/ FillsOf(b)' # {}
    BY <1>1 DEF Filled, FilledFor
  <2> QED
    BY <2>1, <2>2
<1> QED
  BY <1>1 DEF Filled

LEMMA MarksSame ==
    ASSUME UNCHANGED <<history, midnightLate>>, NEW b
    PROVE  MarkDeeds(b)' = MarkDeeds(b)
BY DEF MarkDeeds, Uses, LateMarks

LEMMA FilledMined ==
    ASSUME Memory, VaultBooks, Alone, Filled, NEW r \in Clients, Settled(r),
           UNCHANGED <<positions, ledger, address, midnightLate>>
    PROVE  Filled'
<1>0. PICK t, f : t = request[r].target /\ f = Fill(Settle(request[r]))
  OBVIOUS
<1> DEFINE q == CoverAt("receipt", t, request[r].slot, "settled")
<1>1. /\ request[r] \in Requests /\ request[r].pc = "receipt" /\ request[r].tx = "sent"
      /\ "receipt" \in PolygonPcs /\ Mine(Settle(request[r]), "settled") /\ Become(r, q)
  BY <1>0 DEF Settled, Sending, At, Memory, PolygonPcs
<1>2. fills' = fills \union {f} /\ f.address = address /\ f.blind = positions[t].blind
  BY <1>0, <1>1, SettleTyped, SettlementRecorded DEF Fill, Settle, Settlement
<1>3. q \in Requests /\ q.target = t
  BY <1>0, <1>1, Proceeds DEF CoverAt
<1> HIDE DEF q
<1>4. \A i : FilledOn(i)' => positions[i].status = "covered" \/ i = t
  BY <1>1, <1>3, AloneOnNext
<1>5. \A i : FilledOn(i)' => FilledOn(i) \/ i = t
  BY <1>4 DEF FilledOn
<1>6. \A b : t \in OfBlind(b) => f \in FillsOf(b)'
  BY <1>2 DEF FillsOf, OfBlind
<1>7. \A b : OfBlind(b)' = OfBlind(b) /\ MarkDeeds(b)' = MarkDeeds(b)
  BY MarksSame DEF OfBlind, ledger
<1> QED
  BY <1>2, <1>5, <1>6, <1>7, FilledKept

LEMMA FilledLands ==
    ASSUME Memory, Midnight!TypeOK, Paired, Filled, NEW r \in Clients, Lands(r),
           UNCHANGED <<fills, address, midnightLate>>
    PROVE  Filled'
<1> DEFINE t == request[r].target
           c == Circuit(request[r])
<1>1. PICK q \in Requests :
         /\ request[r].pc \in MidnightPcs /\ request[r].tx = "sent" /\ Include(c)
         /\ q.pc = request[r].pc /\ q.tx = "included"
         /\ q.pc \in Targeting => q.target = t
         /\ Become(r, q) /\ UNCHANGED positions
  BY DEF Lands
<1>2. request'[r] = q /\ \A s \in Clients : s # r => request'[s] = request[s]
  BY <1>1, Becomes DEF Memory
<1>3. HasFilled(q) => HasFilled(request[r]) /\ q.target = t
  BY <1>1 DEF HasFilled, MidnightPcs, Targeting
<1>4. \A i : FilledOn(i)' => FilledOn(i)
  BY <1>1, <1>2, <1>3 DEF FilledOn
<1>5. ASSUME NEW b \in 1..MaxBlinds, MarkDeeds(b)' # {}
      PROVE  MarkDeeds(b) # {} \/ FillsOf(b) # {}
  <2>1. /\ Uses("mark_covered", b)'
             = Uses("mark_covered", b) \union
                  (IF c.op = "mark_covered" /\ b = c.a.blind THEN {Len(history) + 1} ELSE {})
        /\ LateMarks(b)' = LateMarks(b)
    BY <1>1, CircuitTyped, CallCounted DEF LateMarks
  <2>2. CASE c.op = "mark_covered" /\ b = c.a.blind
    <3>1. request[r].pc = "marking" /\ b = positions[t].blind
      BY <1>1, <2>2, CircuitAbout DEF MidnightPcs, Drafting
    <3>2. t \in OfBlind(b) /\ FilledOn(t)
      BY <3>1 DEF Memory, Targets, Targeting, FilledOn, HasFilled, OfBlind
    <3> QED
      BY <1>5, <3>2 DEF Filled, FilledFor
  <2>3. CASE ~(c.op = "mark_covered" /\ b = c.a.blind)
    BY <1>5, <2>1, <2>3 DEF MarkDeeds
  <2> QED
    BY <2>2, <2>3
<1>6. \A b : OfBlind(b)' = OfBlind(b)
  BY <1>1 DEF OfBlind
<1> QED
  BY <1>4, <1>5, <1>6, FilledKept

LEMMA FilledLate ==
    ASSUME Memory, Midnight!TypeOK, Filled, NEW c \in midnightLate, Include(c),
           midnightLate' = midnightLate \ {c}, UNCHANGED <<positions, request, fills, address>>
    PROVE  Filled'
<1>1. \A i : FilledOn(i)' => FilledOn(i)
  BY DEF FilledOn
<1>2. ASSUME NEW b, MarkDeeds(b)' # {} PROVE MarkDeeds(b) # {}
  <2>1. Uses("mark_covered", b)'
             = Uses("mark_covered", b) \union
                  (IF c.op = "mark_covered" /\ b = c.a.blind THEN {Len(history) + 1} ELSE {})
    BY CallCounted DEF Memory
  <2>2. CASE c.op = "mark_covered" /\ b = c.a.blind
    BY <2>2 DEF MarkDeeds, LateMarks
  <2>3. CASE ~(c.op = "mark_covered" /\ b = c.a.blind)
    BY <1>2, <2>1, <2>3 DEF MarkDeeds, LateMarks
  <2> QED
    BY <2>2, <2>3
<1>3. \A b : OfBlind(b)' = OfBlind(b)
  BY DEF OfBlind
<1> QED
  BY <1>1, <1>2, <1>3, FilledKept

\* A handler goes on, and nothing happens on a chain.
LEMMA FilledResume ==
    ASSUME Memory, Paired, Fresh, Filled, UNCHANGED <<Chains, address>>, NEW r \in Clients,
           UNCHANGED midnightLate \/ CoverDone(r),
           Continues(r) \/ OpenDone(r) \/ MatchOpened(r) \/ MatchDone(r) \/ CoverDone(r)
    PROVE  Filled'
<1>0. fills' = fills /\ history' = history
  BY DEF Chains, ledger
<1>1. CASE Continues(r)
  <2>1. PICK q \in Requests :
          /\ Become(r, q) /\ UNCHANGED positions
          /\ HasFilled(q) => HasFilled(request[r]) /\ q.target = request[r].target
    BY <1>1 DEF Continues, Silent
  <2>2. \A i : FilledOn(i)' => FilledOn(i)
    BY <2>1, Becomes DEF FilledOn, Memory
  <2>3. UNCHANGED midnightLate
    <3>1. CASE CoverDone(r)
      <4>1. request'[r] = Idle /\ HasFilled(request[r]) /\ positions' = positions
        BY <2>1, <3>1, IdleIsARequest, Becomes
           DEF CoverDone, CloseCovered, Finish, Memory, HasFilled, At
      <4> QED
        BY <1>1, <4>1, IdleIsARequest, Becomes DEF Continues, Silent, HasFilled, Memory
    <3> QED
      BY <3>1
  <2>4. \A b : OfBlind(b)' = OfBlind(b)
    BY <2>1 DEF OfBlind
  <2> QED
    BY <1>0, <2>2, <2>3, <2>4, MarksSame, FilledKept
<1>2. CASE OpenDone(r) \/ MatchOpened(r)
  <2>1. /\ request[r].pc \in Drafting /\ request[r].own \in Position
        /\ DOMAIN positions' = DOMAIN positions \union {nextId} /\ nextId \notin DOMAIN positions
        /\ \A i \in DOMAIN positions : positions'[i] = positions[i]
        /\ positions'[nextId] = [request[r].own EXCEPT !.id = nextId]
    BY <1>2, DraftListed
  <2>2. positions'[nextId].status # "covered"
    BY <2>1 DEF Fresh, Position
  <2>3. PICK q \in Requests : Become(r, q) /\ ~HasFilled(q)
    <3>1. CASE MatchOpened(r)
      BY <3>1, MatchProceeds DEF MatchingOf, HasFilled
    <3>2. CASE OpenDone(r)
      BY <3>2, IdleIsARequest DEF OpenDone, Finish, HasFilled
    <3> QED
      BY <1>2, <3>1, <3>2
  <2>4. request'[r] = q /\ \A s \in Clients : s # r => request'[s] = request[s]
    BY <2>3, Becomes DEF Memory
  <2>5. \A s \in Clients : HasFilled(request'[s]) => /\ HasFilled(request[s])
                                                     /\ request'[s].target \in DOMAIN positions
                                                     /\ request'[s].target = request[s].target
    BY <2>3, <2>4 DEF HasFilled, Memory, Targets, Targeting, PolygonPcs
  <2>6. \A i \in DOMAIN positions' : FilledOn(i)' => i \in DOMAIN positions /\ FilledOn(i)
    BY <2>1, <2>2, <2>5 DEF FilledOn
  <2>7. UNCHANGED midnightLate
    BY <1>2 DEF OpenDone, MatchOpened, ListOther, midnight
  <2>8. \A b : \A i \in OfBlind(b)' : i \in DOMAIN positions => i \in OfBlind(b)
    BY <2>1 DEF OfBlind
  <2>9. \A b : \A i \in OfBlind(b)' : i \in DOMAIN positions'
    BY DEF OfBlind
  <2> QED
    BY <1>0, <2>6, <2>7, <2>8, <2>9, MarksSame, FilledKept
<1>3. CASE MatchDone(r) \/ CoverDone(r)
  <2>1. /\ DOMAIN positions' = DOMAIN positions
        /\ \A i \in DOMAIN positions : positions'[i].blind = positions[i].blind
    BY <1>3, OnlyClosed DEF Same
  <2>2. /\ \A i \in DOMAIN positions : positions[i] \in Position /\ i \in Nat
        /\ request'[r] = Idle /\ \A s \in Clients : s # r => request'[s] = request[s]
    BY <1>3, IdleIsARequest, Becomes, LenProperties
       DEF MatchDone, CoverDone, CloseCovered, Finish, Memory
  <2>3. \A i \in DOMAIN positions :
            positions'[i].status = "covered" => \/ positions[i].status = "covered"
                                                \/ CoverDone(r) /\ i = request[r].target
    <3>1. CASE MatchDone(r)
      <4> DEFINE t == request[r].target  o == request[r].own.id
      <4>1. /\ t \in DOMAIN positions /\ o \in DOMAIN positions \ {t}
            /\ positions'[t] = Matched(positions[t], o) /\ positions'[o] = Matched(positions[o], t)
            /\ \A i \in DOMAIN positions \ {t, o} : positions'[i] = positions[i]
        BY <3>1, BothClosed DEF MatchDone
      <4> HIDE DEF t, o
      <4>2. positions'[t].status = "matched" /\ positions'[o].status = "matched"
        BY <2>2, <4>1, MatchedPosition
      <4> QED
        BY <4>1, <4>2
    <3>2. CASE CoverDone(r)
      BY <3>2, OneCovered DEF CoverDone
    <3> QED
      BY <1>3, <3>1, <3>2
  <2>4. \A i \in DOMAIN positions : FilledOn(i)' => FilledOn(i)
    BY <2>2, <2>3, IdleIsARequest DEF FilledOn, HasFilled, CoverDone, At
  <2>5. ASSUME NEW b \in 1..MaxBlinds, MarkDeeds(b)' # {}
        PROVE  MarkDeeds(b) # {} \/ FillsOf(b) # {}
    <3>1. CASE UNCHANGED midnightLate
      BY <1>0, <2>5, <3>1, MarksSame
    <3>2. CASE CoverDone(r) /\ ~UNCHANGED midnightLate
      <4> DEFINE t == request[r].target  c == Circuit(request[r])
      <4>1. At(r, "marking") /\ midnightLate' = midnightLate \union {c}
        BY <3>2 DEF CoverDone
      <4>2. c.a.blind = positions[t].blind /\ t \in DOMAIN positions /\ FilledOn(t)
        BY <4>1, CircuitAbout
           DEF At, MidnightPcs, Memory, Targets, Targeting, FilledOn, HasFilled
      <4> HIDE DEF t, c
      <4>3. b = positions[t].blind \/ LateMarks(b)' = LateMarks(b)
        BY <4>1, <4>2 DEF LateMarks
      <4>4. Uses("mark_covered", b)' = Uses("mark_covered", b)
        BY <1>0 DEF Uses
      <4>5. b = positions[t].blind \/ MarkDeeds(b)' = MarkDeeds(b)
        BY <4>3, <4>4, MarksKept
      <4>6. b = positions[t].blind => FilledFor(b)
        BY <4>2 DEF FilledFor, OfBlind
      <4> QED
        BY <2>5, <4>5, <4>6 DEF Filled
    <3> QED
      BY <3>1, <3>2
  <2>6. \A b : OfBlind(b)' = OfBlind(b)
    BY <2>1 DEF OfBlind
  <2>7. \A b : OfBlind(b) \subseteq DOMAIN positions
    BY DEF OfBlind
  <2> QED
    BY <1>0, <2>4, <2>5, <2>6, <2>7, FilledKept
<1> QED
  BY <1>1, <1>2, <1>3

LEMMA FilledStep ==
    ASSUME Faults \subseteq {"mark_lost"}, OneAfterAnother, polygonLate = {}, Funded, Filled,
           [Next]_vars
    PROVE  Filled'
<1>1. ASSUME UNCHANGED <<positions, request, ledger, fills, address, midnightLate>>
      PROVE  Filled'
  <2>1. \A i : FilledOn(i)' => FilledOn(i)
    BY <1>1 DEF FilledOn
  <2>2. \A b : OfBlind(b)' = OfBlind(b)
    BY <1>1 DEF OfBlind
  <2>3. \A b : MarkDeeds(b)' = MarkDeeds(b)
    BY <1>1, MarksSame DEF ledger
  <2> QED
    BY <1>1, <2>1, <2>2, <2>3, FilledKept
<1> QED
  BY <1>1, CalmKinds, FilledMined, FilledLands, FilledLate, FilledResume DEF OneAfterAnother, Chains

CalmDay == OneAfterAnother /\ polygonLate = {} /\ Funded /\ Filled

LEMMA CalmDayAlways == ASSUME Faults \subseteq {"mark_lost"} PROVE Spec => []CalmDay
<1> DEFINE Calm == polygonLate = {} /\ Funded /\ Filled
<1>1. Init => Calm
  BY FundedInit, FilledInit DEF Init
<1>2. OneAfterAnother /\ Calm /\ [Next]_vars => Calm'
  BY CalmKinds, FundedStep, FilledStep DEF OneAfterAnother
<1>3. Spec => []OneAfterAnother
  BY OneAfterAnotherAlways
<1>4. OneAfterAnother /\ Calm => CalmDay
  BY DEF CalmDay
<1> QED
  BY <1>1, <1>2, <1>3, <1>4, PTL DEF Spec

\* When nothing is lost but marks, the book agrees with the chains between
\* requests: what it shows as matched was proved once, what it shows as covered
\* was filled once, and nothing else was, although a mark that fails is only
\* logged and may still be included later (server.ts:534-541, 579-594).
THEOREM BookAgrees ==
    ASSUME Faults \subseteq {"mark_lost"}
    PROVE  Spec => []BookAgreesWithChains
<1>1. CalmDay => BookAgreesWithChains
  <2> SUFFICES ASSUME CalmDay, AtRest, NEW i \in DOMAIN positions
               PROVE  /\ positions[i].status = "matched" <=> Matches(positions[i].blind) = 1
                      /\ positions[i].status = "covered" <=> FillsFor(positions[i].blind) = 1
    BY DEF BookAgreesWithChains
  <2>0. Memory /\ BookSealed /\ Paired /\ Once /\ Filled
    BY DEF CalmDay, OneAfterAnother
  <2> DEFINE b == positions[i].blind
  <2>1. b \in 1..MaxBlinds /\ OfBlind(b) = {i}
    BY <2>0, ListedUndone
  <2> HIDE DEF b
  <2>2. \A r \in Clients : Silent(request[r])
    BY DEF AtRest, Critical, MidnightPcs, PolygonPcs, Silent, HasProved, HasFilled, HasMarked
  <2>3. /\ MatchedOn(i) <=> positions[i].status = "matched"
        /\ FilledOn(i) <=> positions[i].status = "covered"
    BY <2>2 DEF MatchedOn, FilledOn, Silent
  <2>4. positions[i].status = "matched" => Uses("match_positions", b) # {}
    <3>1. SUFFICES ASSUME positions[i].status = "matched" PROVE Uses("match_positions", b) # {}
      OBVIOUS
    <3>2. PICK p : \/ Proof(positions[i], p) \in ToSet(history)
                   \/ Proof(p, positions[i]) \in ToSet(history)
      BY <2>0, <3>1 DEF Paired, PositionPaired, Proved
    <3>3. PICK call \in ToSet(history) :
              call.op = "match_positions" /\ b \in {call.a.blind, call.b.blind}
      BY <3>2 DEF Proof, Midnight!Call, OpeningOf, b
    <3> QED
      BY <3>3 DEF Uses, ToSet
  <2>5. Uses("match_positions", b) # {} => MatchedOn(i)
    <3> SUFFICES ASSUME NEW x \in Uses("match_positions", b) PROVE MatchedOn(i)
      OBVIOUS
    <3>1. <<"matched", x>> \in Deeds(b)
      BY DEF Deeds
    <3>2. DeedTold(<<"matched", x>>, i)
      BY <2>0, <2>1, <3>1 DEF Once, ClosedOnce
    <3> QED
      BY <3>2 DEF DeedTold
  <2>6. FillsOf(b) # {} => FilledOn(i)
    <3> SUFFICES ASSUME NEW x \in FillsOf(b) PROVE FilledOn(i)
      OBVIOUS
    <3>1. <<"filled", x>> \in Deeds(b)
      BY DEF Deeds
    <3>2. DeedTold(<<"filled", x>>, i)
      BY <2>0, <2>1, <3>1 DEF Once, ClosedOnce
    <3> QED
      BY <3>2 DEF DeedTold
  <2>7. FilledOn(i) => FillsOf(b) # {}
    BY <2>0, <2>1 DEF Filled, FilledFor
  <2>8. /\ Matches(b) = IF Uses("match_positions", b) = {} THEN 0 ELSE 1
        /\ FillsFor(b) = IF FillsOf(b) = {} THEN 0 ELSE 1
    BY <2>0, <2>1, AtMostOneDeed
  <2> QED
    BY <2>3, <2>4, <2>5, <2>6, <2>7, <2>8 DEF b
<1> QED
  BY <1>1, CalmDayAlways, PTL

\* When nothing is lost but marks, no cover is marked on Midnight without its
\* fill on Polygon, at any moment and not only between requests: "the same
\* number should appear in the vault's settlement" (darkmarket.compact:98,
\* server.ts:579-586).
THEOREM MarksHaveFills ==
    ASSUME Faults \subseteq {"mark_lost"}
    PROVE  Spec => []MarkedIsFilled
<1>1. CalmDay => MarkedIsFilled
  <2> SUFFICES ASSUME CalmDay, NEW b \in 1..blinds, Marks(b) > 0
               PROVE  FillsFor(b) > 0
    BY DEF MarkedIsFilled
  <2>1. b \in 1..MaxBlinds /\ Once /\ Filled
    BY ServerAssumption DEF CalmDay, OneAfterAnother, Memory
  <2>2. Uses("mark_covered", b) # {}
    BY FS_EmptySet DEF Marks
  <2>3. MarkDeeds(b) # {}
    BY <2>2 DEF MarkDeeds
  <2>4. FillsOf(b) # {}
    BY <2>1, <2>3 DEF Filled, FilledFor
  <2> QED
    BY <2>1, <2>4, AtMostOneDeed
<1> QED
  BY <1>1, CalmDayAlways, PTL

-----------------------------------------------------------------------------
(* Both ledgers carry the same number                                      *)

Opened(p) == Midnight!Call("open_position", OpeningOf(p), OpeningOf(p))
Marked(p) == Midnight!Call("mark_covered", OpeningOf(p), OpeningOf(p))

\* A transaction reaches Midnight.
LEMMA CallRecorded ==
    ASSUME Memory, NEW r \in Clients, request[r].pc \in MidnightPcs, Include(Circuit(request[r]))
    PROVE  LET q == request[r] IN
           \/ /\ q.pc \in Drafting /\ history' = Append(history, Opened(q.own))
              /\ UNCHANGED covered_notional
           \/ /\ q.pc = "matching" /\ history' = Append(history, Proof(positions[q.target], q.own))
              /\ UNCHANGED covered_notional
           \/ /\ q.pc = "marking" /\ history' = Append(history, Marked(positions[q.target]))
              /\ covered_notional' = covered_notional + positions[q.target].size
<1> DEFINE q == request[r]  c == Circuit(q)
<1>1. CASE q.pc \in Drafting
  <2>1. c.op = "open_position" /\ c.a = OpeningOf(q.own)
    BY <1>1 DEF Circuit, Drafting
  <2> QED
    BY <1>1, <2>1 DEF Include, Midnight!open_position, Midnight!Record, Opened
<1>2. CASE q.pc = "matching"
  <2>1. c.op = "match_positions" /\ c.a = OpeningOf(positions[q.target]) /\ c.b = OpeningOf(q.own)
    BY <1>2 DEF Circuit
  <2> QED
    BY <1>2, <2>1 DEF Include, Midnight!match_positions, Midnight!AddMatched, Midnight!Record, Proof
<1>3. CASE q.pc = "marking"
  <2>1. c.op = "mark_covered" /\ c.a = OpeningOf(positions[q.target])
        /\ c.a.size = positions[q.target].size
    BY <1>3 DEF Circuit, OpeningOf
  <2> QED
    BY <1>3, <2>1 DEF Include, Midnight!mark_covered, Midnight!Record, Marked
<1> QED
  BY <1>1, <1>2, <1>3 DEF MidnightPcs, Drafting

\* Fills can be added up, and a key has one settlement.
KeysOnce ==
    /\ IsFiniteSet(fills)
    /\ \A i, j \in DOMAIN settlements : Vault!Key(settlements[i]) = Vault!Key(settlements[j])
                                          => i = j

LEMMA KeysInit == Init => KeysOnce
BY FS_EmptySet DEF Init, Vault!Init, KeysOnce

LEMMA KeysStep ==
    ASSUME Memory, VaultBooks, FillsBacked, KeysOnce, [Next]_vars
    PROVE  KeysOnce'
<1>1. CASE UNCHANGED <<vault, fills>>
  BY <1>1 DEF vault, KeysOnce
<1>2. CASE Trading
  BY <1>2 DEF Trading, Vault!deposit, Vault!withdraw, Vault!WithdrawDebit, Vault!Debit, KeysOnce
<1>3. ASSUME NEW s \in Settles, Mine(s, "settled")
      PROVE  KeysOnce'
  <2> DEFINE n == Len(settlements) + 1
  <2>1. /\ settlements' = Append(settlements, SettlementOn(s))
        /\ <<s.address, s.slot>> \notin settled /\ fills' = fills \union {Fill(s)}
    BY <1>3, SettlementRecorded
  <2>2. Vault!Key(SettlementOn(s)) = <<s.address, s.slot>>
    BY DEF SettlementOn, Vault!Key
  <2>3. /\ DOMAIN settlements' = DOMAIN settlements \union {n}
        /\ \A i \in DOMAIN settlements : settlements'[i] = settlements[i]
        /\ settlements'[n] = SettlementOn(s)
    BY <2>1, Appended DEF VaultBooks
  <2>4. \A i \in DOMAIN settlements : Vault!Key(settlements[i]) # <<s.address, s.slot>>
    BY <2>1 DEF FillsBacked
  <2> HIDE DEF n
  <2>5. IsFiniteSet(fills')
    BY <2>1, FS_AddElement DEF KeysOnce
  <2> QED
    BY <2>2, <2>3, <2>4, <2>5 DEF KeysOnce
<1> QED
  BY <1>1, <1>2, <1>3, VaultSteps

\* The settlement of a key that only one settlement has.
LEMMA FoundOnce ==
    ASSUME NEW seq, NEW i \in DOMAIN seq, NEW key, Vault!Key(seq[i]) = key,
           \A j \in DOMAIN seq : Vault!Key(seq[j]) = key => j = i
    PROVE  (CHOOSE s \in ToSet(seq) : Vault!Key(s) = key) = seq[i]
<1>1. seq[i] \in ToSet(seq) /\ \A s \in ToSet(seq) : Vault!Key(s) = key => s = seq[i]
  BY DEF ToSet
<1> QED
  BY <1>1

\* The fill of the settlement s is new, and adds its size.
LEMMA FilledHereGrows ==
    ASSUME Memory, VaultBooks, FillsBacked, KeysOnce, NEW s \in Settles, Mine(s, "settled"),
           s.address = address, UNCHANGED address
    PROVE  FilledHere' = FilledHere + s.size
<1> DEFINE n == Len(settlements) + 1
           key == <<s.address, s.slot>>
           Here == {f \in fills : f.address = address}
           K(f) == <<f.address, f.slot>>
           new == Fill(s)
<1>1. /\ settlements' = Append(settlements, SettlementOn(s))
      /\ key \notin settled /\ fills' = fills \union {new}
  BY SettlementRecorded
<1>2. Vault!Key(SettlementOn(s)) = key /\ SettlementOn(s).size = s.size
  BY DEF SettlementOn, Vault!Key
<1>3. K(new) = key /\ new.address = s.address
  BY DEF Fill
<1>4. \A f \in fills : K(f) # key
  BY <1>1 DEF FillsBacked, FillBacked
<1>5. /\ DOMAIN settlements' = DOMAIN settlements \union {n}
      /\ \A i \in DOMAIN settlements : settlements'[i] = settlements[i]
      /\ settlements'[n] = SettlementOn(s)
      /\ \A i \in DOMAIN settlements : settlements[i] \in Vault!Settlement
  BY <1>1, Appended DEF VaultBooks
<1> HIDE DEF n, key, new
<1>6. \A i \in DOMAIN settlements : Vault!Key(settlements[i]) # key
  BY <1>1 DEF FillsBacked, key
<1>7. ASSUME NEW f \in fills
      PROVE  SettlementOf(f)' = SettlementOf(f) /\ SettlementOf(f).size \in Int
  <2>1. PICK i \in DOMAIN settlements : Vault!Key(settlements[i]) = K(f)
    BY DEF FillsBacked, FillBacked
  <2>2. \A j \in DOMAIN settlements : Vault!Key(settlements[j]) = K(f) => j = i
    BY <2>1 DEF KeysOnce
  <2>3. SettlementOf(f) = settlements[i]
    BY <2>1, <2>2, FoundOnce DEF SettlementOf
  <2>4. i \in DOMAIN settlements' /\ Vault!Key(settlements'[i]) = K(f)
        /\ \A j \in DOMAIN settlements' : Vault!Key(settlements'[j]) = K(f) => j = i
    BY <1>2, <1>4, <1>5, <2>1, <2>2
  <2>5. SettlementOf(f)' = settlements'[i]
    BY <2>4, FoundOnce DEF SettlementOf
  <2>6. settlements[i].size \in Int
    BY <1>5 DEF Vault!Settlement
  <2> QED
    BY <1>5, <2>3, <2>5, <2>6
<1>8. SettlementOf(new)' = SettlementOn(s)
  <2>1. n \in DOMAIN settlements' /\ Vault!Key(settlements'[n]) = key
        /\ \A j \in DOMAIN settlements' : Vault!Key(settlements'[j]) = key => j = n
    BY <1>2, <1>5, <1>6
  <2>2. (CHOOSE x \in ToSet(settlements') : Vault!Key(x) = key) = settlements'[n]
    BY <2>1, FoundOnce
  <2> QED
    BY <1>3, <1>5, <2>2 DEF SettlementOf
<1>9. /\ \A f \in Here : FillSizes'[f] = FillSizes[f] /\ FillSizes[f] \in Int
      /\ FillSizes'[new] = s.size /\ s.size \in Int
  <2>1. \A f \in Here : FillSizes[f] = SettlementOf(f).size
    BY DEF FillSizes
  <2>2. \A f \in fills' : FillSizes'[f] = SettlementOf(f)'.size
    BY DEF FillSizes
  <2>3. s.size \in Int
    BY DEF Settles
  <2> QED
    BY <1>1, <1>2, <1>7, <1>8, <2>1, <2>2, <2>3
<1>10. /\ {f \in fills' : f.address = address'} = Here \union {new}
       /\ new \notin Here /\ IsFiniteSet(Here)
  BY <1>1, <1>3, <1>4, FS_Subset DEF KeysOnce
<1> HIDE DEF Here
<1>11. SumFunctionOnSet(FillSizes', Here \union {new})
         = SumFunctionOnSet(FillSizes', Here) + FillSizes'[new]
  BY <1>9, <1>10, SumOneMore
<1>12. SumFunctionOnSet(FillSizes', Here) = SumFunctionOnSet(FillSizes, Here)
  BY <1>9, <1>10, SumOfSame
<1> QED
  BY <1>9, <1>10, <1>11, <1>12 DEF FilledHere, Here

\* Filled on Polygon and not marked on Midnight yet.
Due(q) == HasFilled(q) /\ ~HasMarked(q)

\* The ledgers carry the same number, but for the cover in between.
Level ==
    /\ \A r \in Clients : Due(request[r]) =>
          FilledHere = (covered_notional + positions[request[r].target].size) * Unit
    /\ (\A r \in Clients : ~Due(request[r])) => FilledHere = covered_notional * Unit

LEMMA LevelInit == Init => Level
<1> SUFFICES ASSUME Init PROVE Level
  OBVIOUS
<1>1. {f \in fills : f.address = address} = {} /\ covered_notional = 0
  BY DEF Init, Midnight!Init
<1>2. FilledHere = 0
  BY <1>1, SumOfNothing DEF FilledHere
<1>3. \A r \in Clients : ~Due(request[r])
  BY IdleIsARequest DEF Init, Due, HasFilled
<1> QED
  BY <1>1, <1>2, <1>3, ServerAssumption DEF Level

LEMMA FilledHereKept ==
    ASSUME UNCHANGED <<fills, settlements, address>>
    PROVE  FilledHere' = FilledHere
BY DEF FilledHere, FillSizes, SettlementOf

\* Nothing is filled and nothing is marked.
LEMMA LevelKept ==
    ASSUME Level, UNCHANGED <<fills, settlements, address, covered_notional>>,
           \A r \in Clients :
              /\ Due(request'[r]) <=> Due(request[r])
              /\ Due(request[r]) => positions'[request'[r].target].size
                                      = positions[request[r].target].size
    PROVE  Level'
BY FilledHereKept DEF Level

\* The one request there is, is due neither before nor after.
LEMMA LevelAlone ==
    ASSUME Memory, Alone, Level, UNCHANGED <<fills, settlements, address, covered_notional>>,
           NEW r \in Clients, NEW q \in Requests, Become(r, q),
           request[r].pc # "idle", ~Due(request[r]), ~Due(q)
    PROVE  Level'
<1>1. request'[r] = q /\ \A s \in Clients : s # r => request'[s] = request[s]
  BY Becomes DEF Memory
<1>2. \A s \in Clients : ~Due(request[s]) /\ ~Due(request'[s])
  BY <1>1 DEF Alone, Due, HasFilled
<1> QED
  BY <1>2, LevelKept

LEMMA LevelFilled ==
    ASSUME Memory, VaultBooks, Midnight!TypeOK, Alone, FillsBacked, KeysOnce, Level,
           NEW r \in Clients, Settled(r), UNCHANGED <<positions, ledger, address>>
    PROVE  Level'
<1> DEFINE t == request[r].target
           s == Settle(request[r])
           q == CoverAt("receipt", t, request[r].slot, "settled")
<1>1. /\ request[r] \in Requests /\ request[r].pc = "receipt" /\ request[r].tx = "sent"
      /\ "receipt" \in PolygonPcs /\ Mine(s, "settled") /\ Become(r, q)
  BY DEF Settled, Sending, At, Memory, PolygonPcs
<1>2. s \in Settles /\ s.address = address /\ s.size = positions[t].size * Unit
  BY <1>1, SettleTyped DEF Settle, Settlement
<1>3. q \in Requests /\ Due(q) /\ q.target = t
  BY <1>1, Proceeds DEF CoverAt, Due, HasFilled, HasMarked
<1>4. positions[t].size \in Nat /\ covered_notional \in Nat /\ Unit \in Nat
  <2>1. t \in DOMAIN positions
    BY <1>1 DEF Memory, Targets, Targeting
  <2>2. positions[t] \in Position
    BY <2>1 DEF Memory
  <2>3. positions[t].size \in Nat
    BY <2>2, ServerAssumption DEF Position
  <2>4. covered_notional \in 0..1000
    BY DEF Midnight!TypeOK
  <2> QED
    BY <2>3, <2>4, ServerAssumption
<1> HIDE DEF q, s, t
<1>5. request'[r] = q /\ \A x \in Clients : x # r => request'[x] = request[x]
  BY <1>1, <1>3, Becomes DEF Memory
<1>6. ~Due(request[r]) /\ \A x \in Clients : x # r => ~Due(request[x])
  BY <1>1 DEF Alone, Due, HasFilled
<1>7. FilledHere = covered_notional * Unit
  BY <1>6 DEF Level
<1>8. FilledHere' = FilledHere + s.size
  BY <1>1, <1>2, FilledHereGrows
<1>9. FilledHere' = (covered_notional + positions[t].size) * Unit
  BY <1>2, <1>4, <1>7, <1>8
<1> QED
  BY <1>3, <1>5, <1>6, <1>9 DEF Level, ledger

LEMMA LevelLands ==
    ASSUME Memory, Midnight!TypeOK, Alone, Level, NEW r \in Clients, Lands(r),
           UNCHANGED <<vault, fills, address>>
    PROVE  Level'
<1>1. PICK q \in Requests :
         /\ request[r].pc \in MidnightPcs /\ request[r].tx = "sent" /\ Include(Circuit(request[r]))
         /\ q.pc = request[r].pc /\ q.tx = "included"
         /\ Become(r, q) /\ UNCHANGED positions
  BY DEF Lands
<1>2. request[r].pc # "idle"
  BY <1>1 DEF MidnightPcs
<1>3. CASE q.pc # "marking"
  <2>1. ~Due(request[r]) /\ ~Due(q)
    BY <1>1, <1>3 DEF Due, HasFilled, MidnightPcs
  <2>2. UNCHANGED covered_notional
    BY <1>1, <1>3, CallRecorded
  <2> QED
    BY <1>1, <1>2, <2>1, <2>2, LevelAlone DEF vault
<1>4. CASE q.pc = "marking"
  <2>1. Due(request[r]) /\ ~Due(q)
    BY <1>1, <1>4 DEF Due, HasFilled, HasMarked
  <2>2. covered_notional' = covered_notional + positions[request[r].target].size
    BY <1>1, <1>4, CallRecorded DEF Drafting
  <2>3. FilledHere' = covered_notional' * Unit
    BY <2>1, <2>2, FilledHereKept DEF Level, vault
  <2>4. \A s \in Clients : ~Due(request'[s])
    <3>1. request'[r] = q /\ \A s \in Clients : s # r => request'[s] = request[s]
      BY <1>1, Becomes DEF Memory
    <3> QED
      BY <1>2, <2>1, <3>1 DEF Alone, Due, HasFilled
  <2> QED
    BY <2>3, <2>4 DEF Level
<1> QED
  BY <1>3, <1>4

LEMMA LevelContinues ==
    ASSUME Memory, Level, NEW r \in Clients, Continues(r), UNCHANGED <<Chains, address>>
    PROVE  Level'
<1>1. /\ UNCHANGED positions
      /\ \A s \in Clients : s # r => request'[s] = request[s]
      /\ Due(request'[r]) <=> Due(request[r])
      /\ Due(request[r]) => request'[r].target = request[r].target
  BY Becomes DEF Continues, Memory, Silent, Due
<1>2. \A s \in Clients : /\ Due(request'[s]) <=> Due(request[s])
                         /\ Due(request[s]) => positions'[request'[s].target].size
                                                 = positions[request[s].target].size
  BY <1>1
<1> QED
  BY <1>2, LevelKept DEF Chains, ledger, vault

LEMMA LevelStep ==
    ASSUME Faults = {}, Memory, Midnight!TypeOK, VaultBooks, Alone, FillsBacked, KeysOnce,
           midnightLate = {}, polygonLate = {}, Funded, Level, [Next]_vars
    PROVE  Level' /\ midnightLate' = {}
<1>0. ASSUME NEW r \in Clients, CoverDone(r)
      PROVE  HasMarked(request[r]) /\ UNCHANGED midnightLate
  BY <1>0 DEF CoverDone, HasMarked, At
<1>1. ASSUME UNCHANGED <<positions, request, ledger, fills, settlements, address>>
      PROVE  Level'
  BY <1>1, LevelKept DEF ledger
<1>2. ASSUME NEW r \in Clients, UNCHANGED Chains, UNCHANGED address,
             OpenDone(r) \/ MatchOpened(r) \/ MatchDone(r) \/ CoverDone(r)
      PROVE  Level'
  <2>1. request[r].pc # "idle" /\ ~Due(request[r])
    BY <1>0, <1>2 DEF OpenDone, MatchOpened, MatchDone, CoverDone, At, Due, HasFilled
  <2>2. PICK q \in Requests : Become(r, q) /\ ~Due(q)
    <3>1. CASE MatchOpened(r)
      BY <3>1, MatchProceeds DEF MatchingOf, Due, HasFilled
    <3>2. CASE ~MatchOpened(r)
      BY <1>2, <3>2, IdleIsARequest
         DEF OpenDone, MatchDone, CoverDone, CloseCovered, Finish, Due, HasFilled
    <3> QED
      BY <3>1, <3>2
  <2> QED
    BY <1>2, <2>1, <2>2, LevelAlone DEF Chains, ledger, vault
<1>3. UNCHANGED midnightLate
  BY <1>0, CalmKinds
<1>4. Level'
  BY <1>1, <1>2, CalmKinds, LevelContinues, LevelFilled, LevelLands
<1> QED
  BY <1>3, <1>4

\* On a quiet day what Midnight calls covered is, between requests, what the
\* vault settled for this contract, in units of the vault: both ledgers carry
\* the same number (server.ts:579, darkmarket.compact:98).
THEOREM LedgersCarryOneNumber ==
    ASSUME Faults = {}
    PROVE  Spec => []LedgersAgree
<1> DEFINE Even == KeysOnce /\ midnightLate = {} /\ Level
<1>1. Init => Even
  BY KeysInit, LevelInit DEF Init
<1>2. CalmDay /\ Even /\ [Next]_vars => Even'
  BY KeysStep, LevelStep DEF CalmDay, OneAfterAnother
<1>3. Spec => []CalmDay
  BY CalmDayAlways
<1>4. Even => LedgersAgree
  <2> SUFFICES ASSUME Even, AtRest PROVE FilledHere = covered_notional * Unit
    BY DEF LedgersAgree
  <2>1. \A r \in Clients : ~Due(request[r])
    BY DEF AtRest, Critical, MidnightPcs, PolygonPcs, Due, HasFilled
  <2> QED
    BY <2>1 DEF Level
<1> QED
  BY <1>1, <1>2, <1>3, <1>4, PTL DEF Spec

=============================================================================
