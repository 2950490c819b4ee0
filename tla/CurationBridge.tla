--------------------------- MODULE CurationBridge ---------------------------
(***************************************************************************)
(* spyro-bridges-wormhole: the bridge contract publishes curation signals  *)
(* through Wormhole on one chain; the relayer watches for them, fetches    *)
(* each signed VAA and submits it to the receiver contract on the other    *)
(* chain, which hands the signal to the curation contract there.           *)
(*                                                                         *)
(* The watcher starts one handler for each log it is shown and does not    *)
(* wait for it: handlers interleave wherever they await.  They all send    *)
(* from one wallet, which asks for its next nonce, awaits the answer and   *)
(* then broadcasts.  A failed handler logs the error and is not retried.   *)
(*                                                                         *)
(* A signal is its Wormhole sequence number, counted per emitter.          *)
(*                                                                         *)
(* As the code stands no signal gets through.  The watcher subscribes to   *)
(* the contract at sourceBridgeAddress and filters by the same address as  *)
(* sender, while the logs are the core contract's with the bridge as       *)
(* sender.  index.ts skips a VAA without a field `valid`, which parseVaa   *)
(* does not set, and publisher.ts throws when the emitter, a Buffer,       *)
(* differs from a string.  The receiver takes calls from its owner, and    *)
(* deployBridge.ts makes the governor that.  What subscription, checks and *)
(* receiver say are therefore constants: the code as it stands gives       *)
(* Subscribed and Sender one value, and Verdicts and Outcomes {FALSE}; the *)
(* others are the relayer with any of these repaired.  The names by which  *)
(* relayer and receiver call each other differ in places                   *)
(* (receiveAndExecuteVAA and receiveCuration, startWatcher and             *)
(* createWatcher); they are taken for the same functions.                  *)
(***************************************************************************)
EXTENDS Naturals, Sequences, FiniteSets

CONSTANTS
    Subscribed,  \* the contract whose logs the watcher subscribes to
    Sender,      \* the sender it filters them by
    Verdicts,    \* what the relayer's own checks may say of a VAA
    Outcomes,    \* what the receiver may make of a call: FALSE, it reverts
    MaxSignals,  \* bound: signals the bridge publishes
    MaxForeign,  \* bound: messages other contracts publish through Wormhole
    MaxRepeats,  \* bound: logs the source node shows a second time
    MaxFailures, \* bound: calls of the relayer that fail
    MaxLost,     \* bound: broadcast transactions the target chain's node loses
    MaxCrashes   \* bound: crashes of the relayer

ASSUME RelayerAssumption ==
    /\ {Subscribed, Sender} \subseteq {"core", "bridge"}
    /\ Verdicts \subseteq BOOLEAN /\ Outcomes \subseteq BOOLEAN
ASSUME BoundsAssumption ==
    /\ MaxSignals \in Nat /\ MaxForeign \in Nat /\ MaxRepeats \in Nat
    /\ MaxFailures \in Nat /\ MaxLost \in Nat /\ MaxCrashes \in Nat

VARIABLES
    sent,      \* sent[e], messages emitter e has published
    logs,      \* logs the source node still has to show the relayer
    up,        \* whether the relayer runs
    tasks,     \* the handlers started so far, in order
    mempool,   \* the wallet's transactions broadcast on the target chain, not mined
    mined,     \* how many of the wallet's transactions are mined
    relayed,   \* relayed[s], calls of relayCurationSignal for signal s
    shown,     \* history: shown[s], times the relayer was shown s's log
    raced,     \* history: handlers whose nonce another one used before they could
    repeats, failures, lost, crashes  \* bounded counters

source     == <<sent>>
target     == <<mempool, mined, relayed>>
counters   == <<repeats, failures, lost, crashes>>
bridgeVars == <<source, logs, up, tasks, target, shown, raced, counters>>

Signals  == 1 .. MaxSignals
Emitters == {"bridge", "other"}
Logs     == [emitter : Emitters, seq : Nat \ {0}]

\* A handler awaits the signed VAA, the wallet's nonce, the broadcast and the
\* receipt, and ends "done", "refused" by the node or "failed" otherwise.
Steps == {"fetching", "counting", "sending", "waiting", "done", "refused", "failed"}
Ended == {"done", "refused", "failed"}
Tasks == [seq : Nat \ {0}, step : Steps, nonce : Nat]
Txs   == [seq : Nat \ {0}, nonce : Nat, task : Nat \ {0}]

BridgeTypeOK ==
    /\ sent \in [Emitters -> Nat]
    /\ logs \in Seq(Logs)
    /\ up \in BOOLEAN
    /\ tasks \in Seq(Tasks)
    /\ mempool \subseteq Txs
    /\ mined \in Nat
    /\ relayed \in [Signals -> Nat]
    /\ shown \in [Signals -> Nat]
    /\ raced \subseteq 1 .. Len(tasks)
    /\ repeats \in Nat /\ failures \in Nat /\ lost \in Nat /\ crashes \in Nat

BridgeInit ==
    /\ sent = [e \in Emitters |-> 0]
    /\ logs = <<>>
    /\ up = FALSE
    /\ tasks = <<>>
    /\ mempool = {}
    /\ mined = 0
    /\ relayed = [s \in Signals |-> 0]
    /\ shown = [s \in Signals |-> 0]
    /\ raced = {}
    /\ repeats = 0 /\ failures = 0 /\ lost = 0 /\ crashes = 0

-----------------------------------------------------------------------------
\* Faults a change could bring in; they are no part of BridgeSpec: a watcher
\* without its filter, one that counts sequence numbers from 0, a wallet that
\* leaves pending transactions out of its count, a publisher that tries a
\* refused nonce again, and one that does not wait for the receipt.
FaultyMatches(log) == TRUE
FaultyHandler(log) == [seq |-> log.seq - 1, step |-> "fetching", nonce |-> 0]
FaultyNextNonce(n) == n = mined
FaultyRefused == "sending"
FaultyAccepted == "done"

\* The subscription: the core contract emits the logs, with the emitter of the
\* message as their sender.
Matches(log) == Subscribed = "core" /\ log.emitter = Sender

\* The handler that is called with a log.
Handler(log) == [seq |-> log.seq, step |-> "fetching", nonce |-> 0]

\* A nonce is used by a transaction that is mined or pending.
Used(n) == n < mined \/ \E tx \in mempool : tx.nonce = n

\* The wallet's count of its transactions, pending ones included, ends at the
\* first that is missing.
NextNonce(n) == ~ Used(n) /\ \A k \in mined .. n - 1 : Used(k)

\* Where a handler is after its transaction is broadcast, or refused.
Accepted == "waiting"
Refused == "refused"

Live(t) == t \in 1 .. Len(tasks) /\ tasks[t].step \notin Ended

Move(t, step) == [tasks EXCEPT ![t].step = step]

-----------------------------------------------------------------------------
(* The source chain and its node.                                          *)

\* sendCurationSignal, or a message of another contract.  A node shows a log
\* to those who are subscribed when it appears, and to nobody else.
Publish(e) ==
    /\ sent[e] < IF e = "bridge" THEN MaxSignals ELSE MaxForeign
    /\ sent' = [sent EXCEPT ![e] = @ + 1]
    /\ logs' = IF up THEN Append(logs, [emitter |-> e, seq |-> sent[e] + 1])
                     ELSE logs
    /\ UNCHANGED <<up, tasks, target, shown, raced, counters>>

\* A log is shown again, after a reorganisation or a reconnect.
Repeat(s) ==
    /\ repeats < MaxRepeats
    /\ up /\ shown[s] > 0
    /\ logs' = Append(logs, [emitter |-> "bridge", seq |-> s])
    /\ repeats' = repeats + 1
    /\ UNCHANGED <<source, up, tasks, target, shown, raced, failures, lost, crashes>>

-----------------------------------------------------------------------------
(* The relayer.                                                            *)

\* The subscription calls the handler, which starts to fetch the VAA.
Notice ==
    /\ logs # <<>>
    /\ logs' = Tail(logs)
    /\ LET log == Head(logs)
       IN  /\ tasks' = IF Matches(log) THEN Append(tasks, Handler(log)) ELSE tasks
           /\ shown' = IF log.emitter = "bridge"
                       THEN [shown EXCEPT ![log.seq] = @ + 1]
                       ELSE shown
    /\ UNCHANGED <<source, up, target, raced, counters>>

\* getSignedVAAWithRetry answers: the guardians have signed the message.  The
\* checks of the VAA run at once; the handler skips it or throws, or goes on.
Fetched(t) ==
    /\ Live(t) /\ tasks[t].step = "fetching"
    /\ tasks[t].seq <= sent["bridge"]
    /\ \E valid \in Verdicts :
          tasks' = Move(t, IF valid THEN "counting" ELSE "failed")
    /\ UNCHANGED <<source, logs, up, target, shown, raced, counters>>

\* publishVaa calls the receiver: the wallet learns its next nonce, unless the
\* node finds that the call would revert.
GetNonce(t) ==
    /\ Live(t) /\ tasks[t].step = "counting"
    /\ \/ /\ TRUE \in Outcomes
          /\ \E n \in mined .. mined + Cardinality(mempool) :
                /\ NextNonce(n)
                /\ tasks' = [tasks EXCEPT ![t] =
                       [seq |-> @.seq, step |-> "sending", nonce |-> n]]
       \/ /\ FALSE \in Outcomes
          /\ tasks' = Move(t, "failed")
    /\ UNCHANGED <<source, logs, up, target, shown, raced, counters>>

\* The other handlers that are about to broadcast with the nonce of this one.
Rivals(t) ==
    {u \in 1 .. Len(tasks) :
        u # t /\ tasks[u].step = "sending" /\ tasks[u].nonce = tasks[t].nonce}

\* The signed transaction reaches the node, which refuses a nonce in use.
Broadcast(t) ==
    /\ Live(t) /\ tasks[t].step = "sending"
    /\ \/ /\ ~ Used(tasks[t].nonce)
          /\ mempool' = mempool \cup
                 {[seq |-> tasks[t].seq, nonce |-> tasks[t].nonce, task |-> t]}
          /\ tasks' = Move(t, Accepted)
          /\ raced' = raced \cup Rivals(t)
       \/ /\ Used(tasks[t].nonce)
          /\ tasks' = Move(t, Refused)
          /\ UNCHANGED <<mempool, raced>>
    /\ UNCHANGED <<source, logs, up, mined, relayed, shown, counters>>

\* A call of the handler fails; it logs the error and ends.
Fail(t) ==
    /\ failures < MaxFailures
    /\ Live(t) /\ tasks[t].step # "fetching"
    /\ tasks' = Move(t, "failed")
    /\ failures' = failures + 1
    /\ UNCHANGED <<source, logs, up, target, shown, raced, repeats, lost, crashes>>

\* The process dies with its handlers; what it has broadcast stays.
Crash ==
    /\ up /\ crashes < MaxCrashes
    /\ up' = FALSE
    /\ logs' = <<>>
    /\ tasks' = [t \in DOMAIN tasks |->
           IF Live(t) THEN [tasks[t] EXCEPT !.step = "failed"] ELSE tasks[t]]
    /\ crashes' = crashes + 1
    /\ UNCHANGED <<source, target, shown, raced, repeats, failures, lost>>

\* The process starts, with no memory of what it has seen before.
Start ==
    /\ ~ up
    /\ up' = TRUE
    /\ UNCHANGED <<source, logs, tasks, target, shown, raced, counters>>

-----------------------------------------------------------------------------
(* The target chain.                                                       *)

\* The transaction of the wallet's lowest nonce is mined.  receiveCuration takes
\* calls from its owner, verifies the VAA and calls relayCurationSignal, or
\* reverts; it keeps no record of the VAAs it has seen.  The handler that waits
\* gets the receipt, and one that waits with a lost transaction of the same
\* nonce learns that it was replaced.
Mine(tx) ==
    /\ tx.nonce = mined
    /\ mempool' = mempool \ {tx}
    /\ mined' = mined + 1
    /\ \E ok \in Outcomes :
          /\ relayed' = IF ok THEN [relayed EXCEPT ![tx.seq] = @ + 1] ELSE relayed
          /\ tasks' = [t \in DOMAIN tasks |->
                 IF tasks[t].step = "waiting" /\ tasks[t].nonce = mined
                 THEN [tasks[t] EXCEPT !.step =
                          IF ok /\ t = tx.task THEN "done" ELSE "failed"]
                 ELSE tasks[t]]
    /\ UNCHANGED <<source, logs, up, shown, raced, counters>>

\* The node loses a transaction; those after it wait for its nonce.
Lose(tx) ==
    /\ lost < MaxLost
    /\ mempool' = mempool \ {tx}
    /\ lost' = lost + 1
    /\ UNCHANGED <<source, logs, up, tasks, mined, relayed, shown, raced,
                   repeats, failures, crashes>>

MaxTasks == MaxSignals + MaxForeign + MaxRepeats

BridgeNext ==
    \/ \E e \in Emitters : Publish(e)
    \/ \E s \in Signals : Repeat(s)
    \/ Notice
    \/ \E t \in 1 .. MaxTasks :
          Fetched(t) \/ GetNonce(t) \/ Broadcast(t) \/ Fail(t)
    \/ Crash \/ Start
    \/ \E tx \in mempool : Mine(tx) \/ Lose(tx)

BridgeSpec == BridgeInit /\ [][BridgeNext]_bridgeVars

\* Fairness: nodes answer, guardians sign what was published, handlers run on,
\* and what has no gap before it is mined.
FairSpec ==
    /\ BridgeSpec
    /\ WF_bridgeVars(Notice)
    /\ \A t \in 1 .. MaxTasks :
          WF_bridgeVars(Fetched(t)) /\ WF_bridgeVars(GetNonce(t)) /\ WF_bridgeVars(Broadcast(t))
    /\ WF_bridgeVars(\E tx \in mempool : Mine(tx))

-----------------------------------------------------------------------------
(* What the bridge keeps.                                                  *)

TasksOf(s) == {t \in 1 .. Len(tasks) : tasks[t].seq = s}
Unsent(s)  == {t \in TasksOf(s) : tasks[t].step \in {"fetching", "counting", "sending"}}
InFlight(s) == {tx \in mempool : tx.seq = s}

\* A signal reaches the curation contract at most once for each time its log
\* was shown: nothing else of the relayer, neither its failures nor its
\* restarts, makes it submit a signal again, so a log that is never repeated is
\* never relayed twice although the receiver would accept it.
RelayedOncePerLog ==
    \A s \in Signals :
        relayed[s] + Cardinality(InFlight(s)) + Cardinality(Unsent(s)) <= shown[s]

\* "VAA processed" is logged for signals that did reach the curation contract,
\* once for each time they did.
DoneMeansRelayed ==
    \A s \in Signals :
        Cardinality({t \in TasksOf(s) : tasks[t].step = "done"}) <= relayed[s]

\* The node refuses a handler's transaction only when another handler has
\* broadcast with the same nonce since this one asked for it: neither lost
\* transactions nor crashes make the wallet hand out a nonce that is in use.
RefusedByRace ==
    \A t \in 1 .. Len(tasks) : tasks[t].step = "refused" => t \in raced

\* A handler waits for a transaction that is lost, or behind a lost one.
Blocked(t) ==
    /\ tasks[t].step = "waiting"
    /\ \E n \in mined .. tasks[t].nonce : ~ Used(n)

\* Every handler that is started ends, but for those that wait for a lost nonce
\* which no later handler fills.
HandlersSettle ==
    \A t \in 1 .. MaxTasks :
        t <= Len(tasks) ~> [](t <= Len(tasks) /\ (tasks[t].step \in Ended \/ Blocked(t)))

-----------------------------------------------------------------------------
(* What the repository says and the code does not keep.                    *)

\* The relayer "watches Wormhole messages on source chain and submits them to
\* the WormholeReceiver on target chain" (relayer/src/index.ts:5-6): while it
\* runs, every signal is relayed in the end.
SignalsRelayed ==
    \A s \in Signals : up /\ (\E i \in 1 .. Len(logs) :
        logs[i] = [emitter |-> "bridge", seq |-> s]) ~> ~ up \/ relayed[s] > 0
=============================================================================
