------------------------------ MODULE Adapters ------------------------------
(***************************************************************************)
(* The mappings of spyro-adapter-tao and spyro-adapter-render: handlers    *)
(* that turn a network's events into Provider, Model and InferenceJob      *)
(* entities of one store.                                                  *)
(*                                                                         *)
(* A handler saves three entities, one store.set after the other.  Ids     *)
(* carry the network, except a job's, which is its transaction.  An        *)
(* entity field is either set when the entity is created or overwritten    *)
(* by every event; `value` stands for all that an event carries.           *)
(*                                                                         *)
(* External: the node that calls the handlers, one event of a network      *)
(* after the other.  No cursor is kept: after a crash, which may happen    *)
(* between two saves, or a lost connection it reads the network from the   *)
(* start block again, with the store as it is.                             *)
(***************************************************************************)
EXTENDS Naturals, Sequences

CONSTANTS
    Nodes,      \* node ids of the providers of a network
    Hashes,     \* model hashes
    TaoTxs,     \* transaction hashes of TAO
    RenderTxs,  \* transaction hashes of Render
    Values,     \* what an event carries
    MaxEvents,  \* bound: events of both networks
    MaxRestarts \* bound: times a network is read again from its start

ASSUME TxsAssumption == TaoTxs \cap RenderTxs = {}
ASSUME BoundsAssumption == MaxEvents \in Nat /\ MaxRestarts \in Nat

Networks == {"tao", "render"}
Txs == [tao |-> TaoTxs, render |-> RenderTxs]

VARIABLES
    log,       \* log[n]: the events of network n, in order
    handled,   \* handled[n]: events handled since the start was last read
    next,      \* next[n]: the entity the handler saves next
    providers, \* providers[<<n, node>>], or Absent
    models,    \* models[<<n, hash>>], or Absent
    jobs,      \* jobs[tx], or Absent
    restarts   \* history: how often a network was read again

store == <<providers, models, jobs>>
vars == <<log, handled, next, providers, models, jobs, restarts>>

Events(n) == [node : Nodes, hash : Hashes, tx : Txs[n], value : Values]
Absent == <<>>

Providers == [stake : Values \cup {Absent}, reputation : Values \cup {Absent}]
Models == [provider : Networks \X Nodes, version : Values]
Jobs == [model : Networks \X Hashes, value : Values]

TypeOK ==
    /\ \A n \in Networks :
          /\ log[n] \in Seq(Events(n))
          /\ handled[n] \in 0..Len(log[n])
          /\ next[n] \in {"provider", "model", "job"}
          /\ next[n] # "provider" => handled[n] < Len(log[n])
    /\ providers \in [Networks \X Nodes -> Providers \cup {Absent}]
    /\ models \in [Networks \X Hashes -> Models \cup {Absent}]
    /\ jobs \in [TaoTxs \cup RenderTxs -> Jobs \cup {Absent}]
    /\ restarts \in 0..MaxRestarts

Init ==
    /\ log = [n \in Networks |-> <<>>]
    /\ handled = [n \in Networks |-> 0]
    /\ next = [n \in Networks |-> "provider"]
    /\ providers = [id \in Networks \X Nodes |-> Absent]
    /\ models = [id \in Networks \X Hashes |-> Absent]
    /\ jobs = [tx \in TaoTxs \cup RenderTxs |-> Absent]
    /\ restarts = 0

-----------------------------------------------------------------------------
\* Faults a change to the mappings could bring in; they are no part of Spec.
FaultyServedModel(old, id, e) == [provider |-> id, version |-> e.value]
FaultyProvenModel(old, id, e) ==
    [provider |-> IF old = Absent THEN e.node ELSE old.provider, version |-> e.value]
FaultyOrder == [provider |-> "job", job |-> "model", model |-> "provider"]
-----------------------------------------------------------------------------
(* The entities a handler saves; `old` is what load returns.               *)

\* handleServe (TAO): a provider is created and never changed.
ServedProvider(old, e) ==
    IF old = Absent THEN [stake |-> Absent, reputation |-> Absent] ELSE old

ServedModel(old, id, e) ==
    [provider |-> IF old = Absent THEN id ELSE old.provider, version |-> e.value]

\* handleProof (Render): the stake is the first one reported.
ProvenProvider(old, e) ==
    [stake |-> IF old = Absent THEN e.value ELSE old.stake, reputation |-> e.value]

ProvenModel(old, id, e) ==
    [provider |-> IF old = Absent THEN id ELSE old.provider, version |-> e.value]

Order == [provider |-> "model", model |-> "job", job |-> "provider"]

Event(n) == log[n][handled[n] + 1]

\* The call of the handler goes on to the next save.
Handling(n, entity) ==
    /\ handled[n] < Len(log[n])
    /\ next[n] = entity
    /\ next' = [next EXCEPT ![n] = Order[entity]]
    /\ handled' = [handled EXCEPT ![n] = IF Order[entity] = "provider" THEN @ + 1 ELSE @]
    /\ UNCHANGED <<log, restarts>>

SaveProvider(n) ==
    LET e == Event(n)
        id == <<n, e.node>>
    IN  /\ Handling(n, "provider")
        /\ providers' = [providers EXCEPT ![id] =
               IF n = "tao" THEN ServedProvider(@, e) ELSE ProvenProvider(@, e)]
        /\ UNCHANGED <<models, jobs>>

SaveModel(n) ==
    LET e == Event(n)
        provider == <<n, e.node>>
    IN  /\ Handling(n, "model")
        /\ models' = [models EXCEPT ![<<n, e.hash>>] =
               IF n = "tao" THEN ServedModel(@, provider, e)
                            ELSE ProvenModel(@, provider, e)]
        /\ UNCHANGED <<providers, jobs>>

SaveJob(n) ==
    LET e == Event(n)
    IN  /\ Handling(n, "job")
        /\ jobs' = [jobs EXCEPT ![e.tx] = [model |-> <<n, e.hash>>, value |-> e.value]]
        /\ UNCHANGED <<providers, models>>

-----------------------------------------------------------------------------
(* The networks and the node.                                              *)

Emit(n, e) ==
    /\ Len(log["tao"]) + Len(log["render"]) < MaxEvents
    /\ log' = [log EXCEPT ![n] = Append(@, e)]
    /\ UNCHANGED <<handled, next, store, restarts>>

\* A crash loses the handler's progress, and what was saved stays.
Restart(n) ==
    /\ restarts < MaxRestarts
    /\ restarts' = restarts + 1
    /\ handled' = [handled EXCEPT ![n] = 0]
    /\ next' = [next EXCEPT ![n] = "provider"]
    /\ UNCHANGED <<log, store>>

Next ==
    \E n \in Networks :
        \/ SaveProvider(n) \/ SaveModel(n) \/ SaveJob(n)
        \/ \E e \in Events(n) : Emit(n, e)
        \/ Restart(n)

Spec == Init /\ [][Next]_vars

-----------------------------------------------------------------------------
(* What the mappings keep.                                                 *)

\* A stored job's model and a stored model's provider are in the store, in the
\* middle of a handler and after a crash there too.
ReferencesResolve ==
    /\ \A tx \in DOMAIN jobs : jobs[tx] # Absent => models[jobs[tx].model] # Absent
    /\ \A id \in DOMAIN models :
          models[id] # Absent => providers[models[id].provider] # Absent

\* The first and the last of the events with these numbers.
First(n, at) == log[n][CHOOSE k \in at : \A j \in at : k <= j]
Last(n, at) == log[n][CHOOSE k \in at : \A j \in at : k >= j]

\* Once a network has been read to its end, its entities are what its events
\* alone determine, whatever was handled before and how often: a model stays
\* with its first provider and has its last version, and a job is the last
\* event of its transaction.
ReplayConverges ==
    \A n \in Networks : handled[n] = Len(log[n]) =>
        \A k \in DOMAIN log[n] :
            LET e == log[n][k]
                ofNode == {j \in DOMAIN log[n] : log[n][j].node = e.node}
                ofModel == {j \in DOMAIN log[n] : log[n][j].hash = e.hash}
                ofTx == {j \in DOMAIN log[n] : log[n][j].tx = e.tx}
            IN  /\ providers[<<n, e.node>>] =
                       IF n = "tao" THEN [stake |-> Absent, reputation |-> Absent]
                       ELSE [stake |-> First(n, ofNode).value,
                             reputation |-> Last(n, ofNode).value]
                /\ models[<<n, e.hash>>] = [provider |-> <<n, First(n, ofModel).node>>,
                                            version |-> Last(n, ofModel).value]
                /\ jobs[e.tx] = [model |-> <<n, Last(n, ofTx).hash>>,
                                 value |-> Last(n, ofTx).value]
=============================================================================
