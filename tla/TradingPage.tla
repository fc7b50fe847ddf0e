---------------------------- MODULE TradingPage ----------------------------
(***************************************************************************)
(* The page (packages/ui/public/index.html): it polls /api/state on a      *)
(* timer, whatever became of the last poll, posts what the user clicks,    *)
(* and shows cards ("toasts"), one of which spins for work in progress.    *)
(*                                                                         *)
(* Each request of the page is suspended in one await; its answer is a     *)
(* snapshot of the backend at the time the backend wrote it.               *)
(***************************************************************************)
EXTENDS Integers, FiniteSets, Functions

CONSTANTS
    Timers,     \* polls of the timer that can be under way at once
    Calls,      \* clicks on Open, Match or Cover
    Unreliable, \* a poll may fail
    Ids,        \* bound: cards on the screen
    MaxVersion  \* bound: changes of the backend's book

BootCard == "boot"   \* what a card may be for, or show the answer of,
NoAnswer == "none"   \* besides a click

ASSUME PageAssumption ==
    /\ Unreliable \in BOOLEAN
    /\ Ids \subseteq Nat \ {0} /\ MaxVersion \in Nat
    /\ BootCard \notin Calls

VARIABLES
    version, booting, bootError,   \* the backend
    picked, backendLive, painted,  \* what the page believes and shows
    statePoll,                     \* its polls, one per timer or answered click
    call,                          \* its clicks
    toasts, workToast, bootToast,
    crossed                        \* history: clicks that overlapped another

backend == <<version, booting, bootError>>
cards == <<toasts, workToast, bootToast>>
pageVars == <<backend, picked, backendLive, painted, statePoll, call, cards, crossed>>

None == 0
Unpainted == -1   \* painted: the page as it was served
Offline == -2   \* painted: paintOffline

Snapshots == [version : 0..MaxVersion, booting : BOOLEAN, bootError : BOOLEAN]
Snapshot == [version |-> version, booting |-> booting, bootError |-> bootError]

NotAsked == [pc |-> "idle"]
Asked == [pc |-> "asked"]
Answered(s) == [pc |-> "answered", state |-> s]
Polls == Timers \union Calls

\* A card: what it was made for, and whose answer it shows, good or bad, once
\* it no longer spins.
Toast == [kind : {"work", "done"}, for : Calls \union {BootCard},
          shows : Calls \union {NoAnswer, BootCard}]

PageInit ==
    /\ version = 0 /\ booting \in BOOLEAN /\ bootError = FALSE
    /\ picked = FALSE /\ backendLive = FALSE /\ painted = Unpainted
    /\ statePoll = [p \in Polls |-> NotAsked]
    /\ call = [c \in Calls |-> "none"]
    /\ toasts = <<>>
    /\ workToast = None /\ bootToast = None
    /\ crossed = {}

-----------------------------------------------------------------------------
(* Cards.  Ids only tell cards apart, so one that is gone may be reused.   *)

FreeIds == Ids \ DOMAIN toasts
NextId == CHOOSE id \in FreeIds : TRUE

Spinner(what) == [kind |-> "work", for |-> what, shows |-> NoAnswer]

PutUp(cs, id, card) == [i \in DOMAIN cs \union {id} |-> IF i = id THEN card ELSE cs[i]]

\* setToast of a card that is gone does nothing.
WithAnswer(cs, id, what) ==
    IF id \in DOMAIN cs THEN [cs EXCEPT ![id].kind = "done", ![id].shows = what] ELSE cs

CloseToastOnly(id) ==  \* mutant: workToast and bootToast keep naming it
    /\ id \in DOMAIN toasts
    /\ toasts' = Restrict(toasts, DOMAIN toasts \ {id})
    /\ UNCHANGED <<backend, picked, backendLive, painted, statePoll, call, workToast,
                   bootToast, crossed>>

\* The user's x, or the timer of a card that reports an end.
CloseToast(id) ==
    /\ id \in DOMAIN toasts
    /\ toasts' = Restrict(toasts, DOMAIN toasts \ {id})
    /\ workToast' = IF workToast = id THEN None ELSE workToast
    /\ bootToast' = IF bootToast = id THEN None ELSE bootToast
    /\ UNCHANGED <<backend, picked, backendLive, painted, statePoll, call, crossed>>

AutoClose(id) == id \in DOMAIN toasts /\ toasts[id].kind = "done" /\ CloseToast(id)

-----------------------------------------------------------------------------
(* Polling                                                                 *)

\* pickBackend: the first candidate that answers, once, when the page loads.
PickBackend ==
    /\ ~picked
    /\ picked' = TRUE
    /\ backendLive' \in BOOLEAN
    /\ UNCHANGED <<backend, painted, statePoll, call, cards, crossed>>

\* The part of refresh before its await.
StartRefresh(p) ==
    \/ backendLive /\ statePoll' = [statePoll EXCEPT ![p] = Asked] /\ UNCHANGED painted
    \/ ~backendLive /\ painted' = Offline /\ UNCHANGED statePoll

TickOnce(t) ==  \* mutant: setTimeout for setInterval
    /\ statePoll[t] = NotAsked
    /\ IF painted < 0 THEN StartRefresh(t) ELSE UNCHANGED <<statePoll, painted>>
    /\ UNCHANGED <<backend, picked, backendLive, call, cards, crossed>>

Tick(t) ==
    /\ statePoll[t] = NotAsked
    /\ StartRefresh(t)
    /\ UNCHANGED <<backend, picked, backendLive, call, cards, crossed>>

\* /api/state
State(p) ==
    /\ statePoll[p] = Asked
    /\ statePoll' = [statePoll EXCEPT ![p] = Answered(Snapshot)]
    /\ UNCHANGED <<backend, picked, backendLive, painted, call, cards, crossed>>

BootCardForgotten(s) ==  \* mutant: the card is not ended when the boot has
    LET new == s.booting /\ bootToast = None /\ workToast = None
    IN /\ new => FreeIds # {}
       /\ bootToast' = IF new THEN NextId ELSE bootToast
       /\ toasts' = IF new THEN PutUp(toasts, NextId, Spinner(BootCard)) ELSE toasts
       /\ UNCHANGED workToast

\* The card of a cold start, from one snapshot: made if there is none, then
\* ended if the boot has, then ended as a failure if one has been reported.
BootCardFrom(s) ==
    LET new == s.booting /\ bootToast = None /\ workToast = None
        id == IF new THEN NextId ELSE bootToast
        shown == IF new THEN PutUp(toasts, id, Spinner(BootCard)) ELSE toasts
        ended == id # None /\ (~s.booting \/ s.bootError)
    IN /\ new => FreeIds # {}
       /\ toasts' = IF ended THEN WithAnswer(shown, id, BootCard) ELSE shown
       /\ bootToast' = IF ended THEN None ELSE id
       /\ UNCHANGED workToast

\* The rest of refresh: paint whatever came, however late it is.
Refresh(p) ==
    /\ statePoll[p].pc = "answered"
    /\ statePoll' = [statePoll EXCEPT ![p] = NotAsked]
    /\ BootCardFrom(statePoll[p].state)
    /\ painted' = statePoll[p].state.version
    /\ UNCHANGED <<backend, picked, backendLive, call, crossed>>

RefreshFails(p) ==
    /\ Unreliable
    /\ statePoll[p] # NotAsked
    /\ statePoll' = [statePoll EXCEPT ![p] = NotAsked]
    /\ backendLive' = FALSE
    /\ painted' = Offline
    /\ UNCHANGED <<backend, picked, call, cards, crossed>>

-----------------------------------------------------------------------------
(* Clicks on Open, Match and Cover                                         *)

InFlight == {c \in Calls : call[c] = "sent"}

\* No button waits for the last answer but Open, and that one is enabled again
\* by the next poll that finds the backend idle: the user may click while a
\* click is under way.
Click(c) ==
    /\ painted >= 0
    /\ call[c] = "none"
    /\ FreeIds # {}
    /\ toasts' = PutUp(toasts, NextId, Spinner(c))
    /\ workToast' = NextId
    /\ call' = [call EXCEPT ![c] = "sent"]
    /\ crossed' = IF InFlight = {} THEN crossed ELSE crossed \union InFlight \union {c}
    /\ UNCHANGED <<backend, picked, backendLive, painted, statePoll, bootToast>>

\* After the handler's await: the card of workToast gets the answer.
Conclude(c) ==
    /\ toasts' = WithAnswer(toasts, workToast, c)
    /\ workToast' = None
    /\ call' = [call EXCEPT ![c] = "answered"]
    /\ StartRefresh(c)

AnswerOnBootCard(c) ==  \* mutant: bootToast for workToast
    /\ call[c] = "sent"
    /\ toasts' = WithAnswer(toasts, bootToast, c)
    /\ workToast' = None
    /\ call' = [call EXCEPT ![c] = "answered"]
    /\ StartRefresh(c)
    /\ UNCHANGED <<backend, picked, backendLive, bootToast, crossed>>

\* The backend did it, refused it, or could not be reached.
Answer(c) ==
    /\ call[c] = "sent"
    /\ Conclude(c)
    /\ UNCHANGED <<backend, picked, backendLive, bootToast, crossed>>

-----------------------------------------------------------------------------
(* The backend, as far as the page can tell                                *)

Book ==
    /\ version < MaxVersion
    /\ version' = version + 1
    /\ UNCHANGED <<booting, bootError, picked, backendLive, painted, statePoll, call, cards,
                   crossed>>

WalletFails ==
    /\ booting /\ ~bootError
    /\ bootError' = TRUE
    /\ UNCHANGED <<version, booting, picked, backendLive, painted, statePoll, call, cards,
                   crossed>>

BootDone ==
    /\ booting
    /\ booting' = FALSE
    /\ UNCHANGED <<version, bootError, picked, backendLive, painted, statePoll, call, cards,
                   crossed>>

-----------------------------------------------------------------------------

PageNext ==
    \/ PickBackend
    \/ \E t \in Timers : Tick(t)
    \/ \E p \in Polls : State(p) \/ Refresh(p) \/ RefreshFails(p)
    \/ \E c \in Calls : Click(c) \/ Answer(c)
    \/ \E id \in Ids : CloseToast(id)
    \/ Book \/ WalletFails \/ BootDone

\* Timers fire, and every request is answered or fails.  The boot need not end:
\* its awaits may hang (BackendBoot).
PageFairness ==
    /\ WF_pageVars(PickBackend)
    /\ \A t \in Timers : WF_pageVars(Tick(t))
    /\ \A p \in Polls : WF_pageVars(State(p)) /\ WF_pageVars(Refresh(p))
    /\ \A c \in Calls : WF_pageVars(Answer(c))
    /\ \A id \in Ids : WF_pageVars(AutoClose(id))

PageSpec == PageInit /\ [][PageNext]_pageVars /\ PageFairness

-----------------------------------------------------------------------------

Spinning(id) == id \in DOMAIN toasts /\ toasts[id].kind = "work"

\* Types, and the two globals never name a card that is gone (closeToast).
PageTypeOK ==
    /\ version \in 0..MaxVersion /\ booting \in BOOLEAN /\ bootError \in BOOLEAN
    /\ picked \in BOOLEAN /\ backendLive \in BOOLEAN
    /\ painted \in {Unpainted, Offline} \union 0..MaxVersion
    /\ statePoll \in [Polls -> {NotAsked, Asked} \union {Answered(s) : s \in Snapshots}]
    /\ call \in [Calls -> {"none", "sent", "answered"}]
    /\ DOMAIN toasts \subseteq Ids /\ \A id \in DOMAIN toasts : toasts[id] \in Toast
    /\ {workToast, bootToast} \subseteq DOMAIN toasts \union {None}
    /\ crossed \subseteq Calls

\* "The card goes up the moment you click and stays until the backend
\* answers" (index.html:664): a spinning card belongs to the boot, or to a click
\* that is still unanswered, and the page knows which card it is.  Of clicks
\* that overlap it forgets all but the last: theirs may spin for ever.
SpinningIsTracked ==
    \A id \in Ids : Spinning(id) =>
        IF toasts[id].for = BootCard
        THEN bootToast = id
        ELSE \/ workToast = id /\ call[toasts[id].for] = "sent"
             \/ toasts[id].for \in crossed

\* One global names the card that the next answer goes to, so that clicks that
\* overlap can get each other's answers.  Nothing else can: not the card of the
\* boot, and no click made once those have been answered (index.html:667-721).
CardsShowTheirOwn ==
    \A id \in DOMAIN toasts :
        \/ toasts[id].shows \in {NoAnswer, toasts[id].for}
        \/ {toasts[id].for, toasts[id].shows} \subseteq crossed

\* "One card for the whole cold start" (index.html:803).
OneBootCard == Cardinality({id \in DOMAIN toasts : toasts[id].for = BootCard}) <= 1

\* Polls overlap and may be painted out of order, but once the backend rests
\* the page comes to show its last state, or that it has lost it
\* (index.html:795-896, 969).
CatchesUp == <>[](IF backendLive THEN painted = version ELSE painted = Offline)

\* No card spins for ever while the page is in touch with the backend, but
\* those of clicks that overlapped, and the boot's while nothing ends the boot.
SpinningEnds ==
    \A id \in Ids :
        Spinning(id) ~> \/ ~Spinning(id) \/ ~backendLive \/ toasts[id].for \in crossed
                        \/ toasts[id].for = BootCard /\ booting /\ ~bootError

=============================================================================
