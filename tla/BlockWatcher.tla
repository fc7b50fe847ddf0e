---------------------------- MODULE BlockWatcher ---------------------------
(***************************************************************************)
(* How the demo page follows the heights of the chains the node merges     *)
(* (BlockWatcher.ts): by polling /block-heights, or by subscribing to the  *)
(* node's events.  App.tsx shows the height of the node's own blocks.      *)
(***************************************************************************)
EXTENDS Integers

CONSTANTS
    Chains,         \* protocols, Main among them
    Main,           \* the NTP protocol, also known as "__main__"
    Requests,       \* bound: polls, or events, under way at once
    MaxHeight       \* bound

ASSUME WatcherAssumption == Main \in Chains /\ MaxHeight \in Nat

VARIABLES
    polling,            \* USE_HTTP_POLLING
    height,             \* of each chain, as the node has synced it
    initialized,        \* initializationPromise
    poll,               \* what is under way from the node to the page
    latestBlock,
    mounted, watching,  \* App: the effect, and the height its loop waits for
    shown, isConnected

watcher == <<initialized, poll, latestBlock>>
app == <<mounted, watching, shown, isConnected>>
vars == <<polling, height, watcher, app>>

Zero == [c \in Chains |-> 0]
Idle == [pc |-> "idle"]
Sent == [pc |-> "sent"]
Failed == [pc |-> "failed"]
Told(seen) == [pc |-> "told", seen |-> seen]
Back(a) == a.pc \in {"told", "failed"}

Init ==
    /\ polling \in BOOLEAN
    /\ height = Zero
    /\ initialized = "none"
    /\ poll = [r \in Requests |-> Idle]
    /\ latestBlock = Zero
    /\ mounted = FALSE /\ watching = 0
    /\ shown = 0 /\ isConnected = FALSE

-----------------------------------------------------------------------------
(* The node                                                                *)

Synced(c) ==
    /\ height[c] < MaxHeight
    /\ height' = [height EXCEPT ![c] = @ + 1]
    /\ UNCHANGED <<polling, watcher, app>>

-----------------------------------------------------------------------------
(* BlockWatcher                                                            *)

LastAnswer(a) ==  \* mutant: the answer that comes last is believed
    IF a = Failed THEN latestBlock ELSE a.seen

\* What a poll or an event leaves in latestBlock; a failed one nothing.
Merged(a) ==
    IF a = Failed THEN latestBlock
    ELSE [c \in Chains |-> IF a.seen[c] > latestBlock[c] THEN a.seen[c] ELSE latestBlock[c]]

\* ensureInitialized, by whoever waits for a block first.
EnsureInitialized ==
    /\ initialized = "none" /\ initialized' = "pending"
    /\ IF polling
       THEN \E r \in Requests : poll' = [poll EXCEPT ![r] = Sent]
       ELSE UNCHANGED poll

\* The promise settles: with the first poll, whose failure rejects it, or with
\* the two subscriptions.  It is kept either way.
Initialized ==
    /\ initialized = "pending"
    /\ \/ /\ polling
          /\ \E r \in Requests :
                /\ Back(poll[r])
                /\ initialized' = IF poll[r] = Failed THEN "rejected" ELSE "done"
                /\ poll' = [poll EXCEPT ![r] = Idle]
                /\ latestBlock' = Merged(poll[r])
       \/ ~polling /\ initialized' \in {"done", "rejected"} /\ UNCHANGED <<poll, latestBlock>>
    /\ UNCHANGED <<polling, height, app>>

\* The interval, which a rejected promise never started, or the node telling a
\* subscriber, acknowledged or not.
Send(r) ==
    /\ poll[r] = Idle
    /\ \/ initialized = "done"
       \/ ~polling /\ initialized # "none"
    /\ poll' = [poll EXCEPT ![r] = Sent]
    /\ UNCHANGED <<polling, height, initialized, latestBlock, app>>

\* What the node says is what it has synced by then: of every chain to a poll,
\* of one chain in an event.  !res.ok says nothing.
Serve(r) ==
    /\ poll[r] = Sent
    /\ \E a \in {Failed, Told(Zero)} \union
                IF polling THEN {Told(height)}
                ELSE {Told([Zero EXCEPT ![c] = height[c]]) : c \in Chains} :
          poll' = [poll EXCEPT ![r] = a]
    /\ UNCHANGED <<polling, height, initialized, latestBlock, app>>

\* pollBlockHeights, and the handlers of the two subscriptions.
Receive(r) ==
    /\ Back(poll[r])
    /\ polling => initialized # "pending"
    /\ poll' = [poll EXCEPT ![r] = Idle]
    /\ latestBlock' = Merged(poll[r])
    /\ UNCHANGED <<polling, height, initialized, app>>

\* waitForBlock(c, b) returns.
Reached(c, b) == initialized = "done" /\ latestBlock[c] >= b

-----------------------------------------------------------------------------
(* App                                                                     *)

\* The effect; StrictMode mounts, unmounts and mounts again.
Mount ==
    /\ ~mounted /\ mounted' = TRUE
    /\ watching' = 0
    /\ \/ EnsureInitialized
       \/ initialized # "none" /\ UNCHANGED <<initialized, poll>>
    /\ UNCHANGED <<polling, height, latestBlock, shown, isConnected>>

Unmount ==
    /\ mounted /\ mounted' = FALSE
    /\ UNCHANGED <<polling, height, watcher, watching, shown, isConnected>>

WatchBeyond ==  \* mutant: the loop waits one block too far
    /\ mounted /\ Reached(Main, watching)
    /\ shown' = latestBlock[Main] /\ isConnected' = TRUE
    /\ watching' = latestBlock[Main] + 2
    /\ UNCHANGED <<polling, height, watcher, mounted>>

WatchNext ==  \* mutant: the header shows the block the loop waits for
    /\ mounted /\ Reached(Main, watching)
    /\ shown' = latestBlock[Main] + 1 /\ isConnected' = TRUE
    /\ watching' = latestBlock[Main] + 1
    /\ UNCHANGED <<polling, height, watcher, mounted>>

\* One turn of watchBlocks; the height reached may be past the next one.
WatchBlocks ==
    /\ mounted /\ Reached(Main, watching)
    /\ shown' = latestBlock[Main] /\ isConnected' = TRUE
    /\ watching' = latestBlock[Main] + 1
    /\ UNCHANGED <<polling, height, watcher, mounted>>

-----------------------------------------------------------------------------
Next ==
    \/ \E c \in Chains : Synced(c)
    \/ Initialized
    \/ \E r \in Requests : Send(r) \/ Serve(r) \/ Receive(r)
    \/ Mount \/ Unmount \/ WatchBlocks

\* What the node serves for ever is not lost for ever: it goes on making blocks
\* and the interval goes on polling.
Fairness ==
    /\ WF_vars(Initialized)
    /\ WF_vars(WatchBlocks)
    /\ \A r \in Requests :
          /\ WF_vars(Send(r)) /\ WF_vars(Serve(r)) /\ WF_vars(Receive(r))
          /\ SF_vars(Serve(r) /\ Back(poll'[r]) /\ poll'[r] # Failed
                                     /\ poll'[r].seen[Main] = height[Main])

Spec == Init /\ [][Next]_vars /\ Fairness

Heights == [Chains -> 0..MaxHeight]

TypeOK ==
    /\ polling \in BOOLEAN /\ height \in Heights
    /\ initialized \in {"none", "pending", "done", "rejected"}
    /\ poll \in [Requests -> {Idle, Sent, Failed} \union {Told(h) : h \in Heights}]
    /\ latestBlock \in Heights
    /\ mounted \in BOOLEAN /\ watching \in Nat
    /\ shown \in Nat /\ isConnected \in BOOLEAN

\* The page never claims a block the node has not synced.
ShownWasReached == shown <= latestBlock[Main] /\ latestBlock[Main] <= height[Main]

\* What the header shows never goes back, to a lower height or to "Connection
\* Error": polls that overlap, answers that are overtaken, events of both
\* subscriptions and a page mounted again included (pollBlockHeights, App).
HeightNeverFalls ==
    [][shown' >= shown /\ (isConnected => isConnected')]_<<shown, isConnected>>

\* A mounted page ends up showing the node's height, unless the watcher's first
\* attempt was refused: that rejection is kept, and nothing asks again.
HeightFollows ==
    <>[]mounted =>
        []<>(initialized = "rejected") \/ <>[](isConnected /\ shown = height[Main])
=============================================================================
