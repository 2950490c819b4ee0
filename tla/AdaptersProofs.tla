--------------------------- MODULE AdaptersProofs ---------------------------
(***************************************************************************)
(* Proofs, for all networks' events and however often they are replayed,   *)
(* that no entity of the adapters' store refers to one that is not there,  *)
(* and that a log read to its end leaves entities that only it determines. *)
(***************************************************************************)
EXTENDS Adapters, SequenceTheorems, TLAPS

\* One entry per network.
PerNetwork ==
    /\ log = [n \in Networks |-> log[n]]
    /\ handled = [n \in Networks |-> handled[n]]
    /\ next = [n \in Networks |-> next[n]]

\* In the middle of a handler, what it has saved is there.
Saved ==
    \A n \in Networks :
        /\ next[n] # "provider" => providers[<<n, Event(n).node>>] # Absent
        /\ next[n] = "job" => models[<<n, Event(n).hash>>] # Absent

IInv == TypeOK /\ PerNetwork /\ Saved /\ ReferencesResolve

\* Nothing is ever taken out of the store.
Kept ==
    /\ \A id \in Networks \X Nodes : providers[id] # Absent => providers'[id] # Absent
    /\ \A id \in Networks \X Hashes : models[id] # Absent => models'[id] # Absent

-----------------------------------------------------------------------------
\* An entity is not the absence of one.
LEMMA EntitiesArePresent ==
    /\ Absent \notin Providers
    /\ Absent \notin Models
    /\ Absent \notin Jobs
<1>1. DOMAIN Absent = {}
  BY DEF Absent
<1>2. \A p \in Providers : "stake" \in DOMAIN p
  BY DEF Providers
<1>3. \A m \in Models : "version" \in DOMAIN m
  BY DEF Models
<1>4. \A j \in Jobs : "value" \in DOMAIN j
  BY DEF Jobs
<1> QED
  BY <1>1, <1>2, <1>3, <1>4

\* The event that is handled is one of the network's.
LEMMA EventType ==
    ASSUME TypeOK, NEW n \in Networks, handled[n] < Len(log[n])
    PROVE  /\ Event(n) \in Events(n)
           /\ Event(n).node \in Nodes /\ Event(n).hash \in Hashes
           /\ Event(n).tx \in TaoTxs \cup RenderTxs /\ Event(n).value \in Values
<1>1. /\ log[n] \in Seq(Events(n)) /\ handled[n] \in 0..Len(log[n])
      /\ Len(log[n]) \in Nat
  BY DEF TypeOK
<1>2. handled[n] + 1 \in 1..Len(log[n])
  BY <1>1
<1>3. Event(n) \in Events(n)
  BY <1>1, <1>2, ElementOfSeq DEF Event
<1>4. Txs[n] \subseteq TaoTxs \cup RenderTxs
  BY DEF Networks, Txs
<1> QED
  BY <1>3, <1>4 DEF Events

\* The handler's progress keeps its type, whichever entity it saves.
LEMMA HandlingKeeps ==
    ASSUME IInv, NEW n \in Networks, NEW entity \in {"provider", "model", "job"},
           Handling(n, entity)
    PROVE  /\ PerNetwork'
           /\ UNCHANGED <<log, restarts>>
           /\ \A m \in Networks \ {n} : handled'[m] = handled[m] /\ next'[m] = next[m]
           /\ \A m \in Networks :
                 /\ handled'[m] \in 0..Len(log[m])
                 /\ next'[m] \in {"provider", "model", "job"}
                 /\ next'[m] # "provider" => handled'[m] < Len(log[m])
           /\ next'[n] = Order[entity]
           /\ next'[n] # "provider" => handled'[n] = handled[n]
<1>1. /\ log = [m \in Networks |-> log[m]]
      /\ handled = [m \in Networks |-> handled[m]]
      /\ next = [m \in Networks |-> next[m]]
      /\ \A m \in Networks :
            /\ Len(log[m]) \in Nat
            /\ handled[m] \in 0..Len(log[m])
            /\ next[m] \in {"provider", "model", "job"}
            /\ next[m] # "provider" => handled[m] < Len(log[m])
  BY DEF IInv, TypeOK, PerNetwork
<1>2. /\ handled[n] < Len(log[n])
      /\ next' = [next EXCEPT ![n] = Order[entity]]
      /\ handled' = [handled EXCEPT ![n] =
             IF Order[entity] = "provider" THEN @ + 1 ELSE @]
      /\ UNCHANGED <<log, restarts>>
  BY DEF Handling
<1>3. Order[entity] \in {"provider", "model", "job"}
  BY DEF Order
<1>4. PerNetwork'
  <2>1. log' = [m \in Networks |-> log'[m]]
    BY <1>1, <1>2
  <2>2. handled' = [m \in Networks |-> handled'[m]]
    BY <1>1, <1>2
  <2>3. next' = [m \in Networks |-> next'[m]]
    BY <1>1, <1>2
  <2> QED
    BY <2>1, <2>2, <2>3 DEF PerNetwork
<1>5. \A m \in Networks \ {n} : handled'[m] = handled[m] /\ next'[m] = next[m]
  BY <1>1, <1>2
<1>6. /\ next'[n] = Order[entity]
      /\ handled'[n] = IF Order[entity] = "provider" THEN handled[n] + 1 ELSE handled[n]
  BY <1>1, <1>2
<1>7. /\ handled'[n] \in 0..Len(log[n])
      /\ next'[n] \in {"provider", "model", "job"}
      /\ next'[n] # "provider" => handled'[n] < Len(log[n])
  BY <1>1, <1>2, <1>3, <1>6
<1> QED
  BY <1>1, <1>2, <1>4, <1>5, <1>6, <1>7

\* What a handler has saved is still there as long as nothing leaves the store
\* and the handler does not move on.
LEMMA SavedElsewhere ==
    ASSUME IInv, NEW n \in Networks, Kept, next'[n] = next[n],
           next[n] # "provider" => Event(n)' = Event(n)
    PROVE  /\ next'[n] # "provider" => providers'[<<n, Event(n)'.node>>] # Absent
           /\ next'[n] = "job" => models'[<<n, Event(n)'.hash>>] # Absent
<1>1. CASE next[n] # "provider"
  <2>1. Event(n).node \in Nodes /\ Event(n).hash \in Hashes
    BY <1>1, EventType DEF IInv, TypeOK
  <2> QED
    BY <1>1, <2>1 DEF IInv, Saved, Kept
<1>2. CASE next[n] = "provider"
  BY <1>2
<1> QED
  BY <1>1, <1>2

-----------------------------------------------------------------------------
(* The steps.                                                              *)

\* Saving a provider.
LEMMA SaveProviderKeeps ==
    ASSUME IInv, NEW n \in Networks, SaveProvider(n)
    PROVE  IInv'
<1> DEFINE e == Event(n)
           id == <<n, e.node>>
           new == IF n = "tao" THEN ServedProvider(providers[id], e)
                  ELSE ProvenProvider(providers[id], e)
<1>1. /\ Handling(n, "provider")
      /\ handled[n] < Len(log[n]) /\ next[n] = "provider"
      /\ providers' = [providers EXCEPT ![id] = new]
      /\ UNCHANGED <<models, jobs>>
  BY DEF SaveProvider, Handling
<1>2. /\ PerNetwork' /\ UNCHANGED <<log, restarts>>
      /\ \A m \in Networks \ {n} : handled'[m] = handled[m] /\ next'[m] = next[m]
      /\ \A m \in Networks :
            /\ handled'[m] \in 0..Len(log[m])
            /\ next'[m] \in {"provider", "model", "job"}
            /\ next'[m] # "provider" => handled'[m] < Len(log[m])
      /\ next'[n] = "model" /\ handled'[n] = handled[n]
  BY <1>1, HandlingKeeps DEF Order
<1>3. e.node \in Nodes /\ e.value \in Values /\ id \in Networks \X Nodes
  BY <1>1, EventType DEF IInv
<1>4. /\ providers \in [Networks \X Nodes -> Providers \cup {Absent}]
      /\ providers[id] \in Providers \cup {Absent}
  BY <1>3 DEF IInv, TypeOK
<1>5. new \in Providers
  <2>1. CASE providers[id] = Absent
    BY <1>3, <2>1 DEF ServedProvider, ProvenProvider, Providers
  <2>2. CASE providers[id] # Absent
    BY <1>3, <1>4, <2>2 DEF ServedProvider, ProvenProvider, Providers
  <2> QED
    BY <2>1, <2>2
<1> HIDE DEF new
<1>6. /\ providers' \in [Networks \X Nodes -> Providers \cup {Absent}]
      /\ providers'[id] # Absent
      /\ Kept
  BY <1>1, <1>3, <1>4, <1>5, EntitiesArePresent DEF Kept
<1>7. TypeOK'
  BY <1>1, <1>2, <1>6 DEF IInv, TypeOK
<1>8. \A m \in Networks \ {n} : Event(m)' = Event(m)
  BY <1>2 DEF Event
<1>9. Saved'
  <2> SUFFICES ASSUME NEW m \in Networks
               PROVE  /\ next'[m] # "provider"
                            => providers'[<<m, Event(m)'.node>>] # Absent
                      /\ next'[m] = "job"
                            => models'[<<m, Event(m)'.hash>>] # Absent
    BY DEF Saved
  <2>1. CASE m = n
    <3>1. Event(n)' = e
      BY <1>2 DEF Event
    <3> QED
      BY <1>2, <1>6, <2>1, <3>1
  <2>2. CASE m # n
    BY <1>2, <1>6, <1>8, <2>2, SavedElsewhere
  <2> QED
    BY <2>1, <2>2
<1>10. ReferencesResolve'
  <2>1. \A i \in Networks \X Hashes :
           models[i] # Absent => models[i].provider \in Networks \X Nodes
    BY DEF IInv, TypeOK, Models
  <2>2. DOMAIN models = Networks \X Hashes
    BY DEF IInv, TypeOK
  <2> QED
    BY <1>1, <1>6, <2>1, <2>2 DEF IInv, ReferencesResolve, Kept
<1> QED
  BY <1>2, <1>7, <1>9, <1>10 DEF IInv

\* Saving a model: its provider is the one just saved, or the one it had.
LEMMA SaveModelKeeps ==
    ASSUME IInv, NEW n \in Networks, SaveModel(n)
    PROVE  IInv'
<1> DEFINE e == Event(n)
           id == <<n, e.hash>>
           provider == <<n, e.node>>
           new == IF n = "tao" THEN ServedModel(models[id], provider, e)
                  ELSE ProvenModel(models[id], provider, e)
<1>1. /\ Handling(n, "model")
      /\ handled[n] < Len(log[n]) /\ next[n] = "model"
      /\ models' = [models EXCEPT ![id] = new]
      /\ UNCHANGED <<providers, jobs>>
  BY DEF SaveModel, Handling
<1>2. /\ PerNetwork' /\ UNCHANGED <<log, restarts>>
      /\ \A m \in Networks \ {n} : handled'[m] = handled[m] /\ next'[m] = next[m]
      /\ \A m \in Networks :
            /\ handled'[m] \in 0..Len(log[m])
            /\ next'[m] \in {"provider", "model", "job"}
            /\ next'[m] # "provider" => handled'[m] < Len(log[m])
      /\ next'[n] = "job" /\ handled'[n] = handled[n]
  BY <1>1, HandlingKeeps DEF Order
<1>3. /\ e.node \in Nodes /\ e.hash \in Hashes /\ e.value \in Values
      /\ id \in Networks \X Hashes /\ provider \in Networks \X Nodes
  BY <1>1, EventType DEF IInv
<1>4. /\ models \in [Networks \X Hashes -> Models \cup {Absent}]
      /\ models[id] \in Models \cup {Absent}
      /\ models[id] # Absent => providers[models[id].provider] # Absent
      /\ providers[provider] # Absent
  BY <1>1, <1>3 DEF IInv, TypeOK, ReferencesResolve, Saved
<1>5. new \in Models /\ providers[new.provider] # Absent
  <2>1. new = [provider |-> IF models[id] = Absent THEN provider ELSE models[id].provider,
               version |-> e.value]
    BY DEF ServedModel, ProvenModel
  <2>2. CASE models[id] = Absent
    BY <1>3, <1>4, <2>1, <2>2 DEF Models
  <2>3. CASE models[id] # Absent
    BY <1>3, <1>4, <2>1, <2>3 DEF Models
  <2> QED
    BY <2>2, <2>3
<1> HIDE DEF new
<1>6. /\ models' \in [Networks \X Hashes -> Models \cup {Absent}]
      /\ models'[id] = new /\ models'[id] # Absent
      /\ \A i \in (Networks \X Hashes) \ {id} : models'[i] = models[i]
      /\ Kept
  BY <1>1, <1>3, <1>4, <1>5, EntitiesArePresent DEF Kept
<1>7. TypeOK'
  BY <1>1, <1>2, <1>6 DEF IInv, TypeOK
<1>8. \A m \in Networks \ {n} : Event(m)' = Event(m)
  BY <1>2 DEF Event
<1>9. Saved'
  <2> SUFFICES ASSUME NEW m \in Networks
               PROVE  /\ next'[m] # "provider"
                            => providers'[<<m, Event(m)'.node>>] # Absent
                      /\ next'[m] = "job"
                            => models'[<<m, Event(m)'.hash>>] # Absent
    BY DEF Saved
  <2>1. CASE m = n
    <3>1. Event(n)' = e
      BY <1>2 DEF Event
    <3> QED
      BY <1>1, <1>4, <1>6, <2>1, <3>1
  <2>2. CASE m # n
    BY <1>2, <1>6, <1>8, <2>2, SavedElsewhere
  <2> QED
    BY <2>1, <2>2
<1>10. ReferencesResolve'
  <2>1. /\ DOMAIN models = Networks \X Hashes /\ DOMAIN models' = Networks \X Hashes
        /\ DOMAIN jobs = TaoTxs \cup RenderTxs
    BY <1>4, <1>6 DEF IInv, TypeOK
  <2>2. \A tx \in TaoTxs \cup RenderTxs :
           jobs[tx] # Absent => jobs[tx].model \in Networks \X Hashes
    BY DEF IInv, TypeOK, Jobs
  <2>3. \A tx \in DOMAIN jobs' : jobs'[tx] # Absent => models'[jobs'[tx].model] # Absent
    BY <1>1, <1>6, <2>1, <2>2 DEF IInv, ReferencesResolve, Kept
  <2>4. \A i \in DOMAIN models' :
           models'[i] # Absent => providers'[models'[i].provider] # Absent
    BY <1>1, <1>5, <1>6, <2>1 DEF IInv, ReferencesResolve
  <2> QED
    BY <2>3, <2>4 DEF ReferencesResolve
<1> QED
  BY <1>2, <1>7, <1>9, <1>10 DEF IInv

\* Saving a job, whose model the handler has just saved.
LEMMA SaveJobKeeps ==
    ASSUME IInv, NEW n \in Networks, SaveJob(n)
    PROVE  IInv'
<1> DEFINE e == Event(n)
           new == [model |-> <<n, e.hash>>, value |-> e.value]
<1>1. /\ Handling(n, "job")
      /\ handled[n] < Len(log[n]) /\ next[n] = "job"
      /\ jobs' = [jobs EXCEPT ![e.tx] = new]
      /\ UNCHANGED <<providers, models>>
  BY DEF SaveJob, Handling
<1>2. /\ PerNetwork' /\ UNCHANGED <<log, restarts>>
      /\ \A m \in Networks \ {n} : handled'[m] = handled[m] /\ next'[m] = next[m]
      /\ \A m \in Networks :
            /\ handled'[m] \in 0..Len(log[m])
            /\ next'[m] \in {"provider", "model", "job"}
            /\ next'[m] # "provider" => handled'[m] < Len(log[m])
      /\ next'[n] = "provider"
  BY <1>1, HandlingKeeps DEF Order
<1>3. /\ e.hash \in Hashes /\ e.value \in Values /\ e.tx \in TaoTxs \cup RenderTxs
  BY <1>1, EventType DEF IInv
<1>4. /\ jobs \in [TaoTxs \cup RenderTxs -> Jobs \cup {Absent}]
      /\ models[<<n, e.hash>>] # Absent
  BY <1>1 DEF IInv, TypeOK, Saved
<1>5. new \in Jobs /\ new.model = <<n, e.hash>>
  BY <1>3 DEF Jobs
<1> HIDE DEF new
<1>6. /\ jobs' \in [TaoTxs \cup RenderTxs -> Jobs \cup {Absent}]
      /\ jobs'[e.tx] = new
      /\ \A tx \in (TaoTxs \cup RenderTxs) \ {e.tx} : jobs'[tx] = jobs[tx]
  BY <1>1, <1>3, <1>4, <1>5
<1>7. Kept
  BY <1>1 DEF Kept
<1>8. TypeOK'
  BY <1>1, <1>2, <1>6 DEF IInv, TypeOK
<1>9. Saved'
  <2> SUFFICES ASSUME NEW m \in Networks
               PROVE  /\ next'[m] # "provider"
                            => providers'[<<m, Event(m)'.node>>] # Absent
                      /\ next'[m] = "job"
                            => models'[<<m, Event(m)'.hash>>] # Absent
    BY DEF Saved
  <2>1. CASE m = n
    BY <1>2, <2>1
  <2>2. CASE m # n
    <3>1. Event(m)' = Event(m)
      BY <1>2, <2>2 DEF Event
    <3> QED
      BY <1>2, <1>7, <2>2, <3>1, SavedElsewhere
  <2> QED
    BY <2>1, <2>2
<1>10. ReferencesResolve'
  <2>1. DOMAIN jobs = TaoTxs \cup RenderTxs /\ DOMAIN jobs' = TaoTxs \cup RenderTxs
    BY <1>4, <1>6
  <2> QED
    BY <1>1, <1>4, <1>5, <1>6, <2>1 DEF IInv, ReferencesResolve
<1> QED
  BY <1>2, <1>8, <1>9, <1>10 DEF IInv

\* A new event changes no event before it.
LEMMA EmitKeeps ==
    ASSUME IInv, NEW n \in Networks, NEW e \in Events(n), Emit(n, e)
    PROVE  IInv'
<1>1. /\ log = [m \in Networks |-> log[m]]
      /\ log' = [log EXCEPT ![n] = Append(log[n], e)]
      /\ UNCHANGED <<handled, next, providers, models, jobs, restarts>>
  BY DEF IInv, PerNetwork, Emit, store
<1>2. /\ log[n] \in Seq(Events(n))
      /\ Append(log[n], e) \in Seq(Events(n))
      /\ Len(Append(log[n], e)) = Len(log[n]) + 1
      /\ \A k \in 1..Len(log[n]) : Append(log[n], e)[k] = log[n][k]
      /\ Len(log[n]) \in Nat
  BY AppendProperties DEF IInv, TypeOK
<1>3. log'[n] = Append(log[n], e) /\ \A m \in Networks \ {n} : log'[m] = log[m]
  BY <1>1
<1>4. /\ \A m \in Networks : log'[m] \in Seq(Events(m))
      /\ \A m \in Networks : handled'[m] \in 0..Len(log'[m])
      /\ \A m \in Networks : next'[m] # "provider" => handled'[m] < Len(log'[m])
  <2> SUFFICES ASSUME NEW m \in Networks
               PROVE  /\ log'[m] \in Seq(Events(m))
                      /\ handled'[m] \in 0..Len(log'[m])
                      /\ next'[m] # "provider" => handled'[m] < Len(log'[m])
    OBVIOUS
  <2>1. /\ log[m] \in Seq(Events(m)) /\ handled[m] \in 0..Len(log[m])
        /\ next[m] # "provider" => handled[m] < Len(log[m])
    BY DEF IInv, TypeOK
  <2>2. CASE m = n
    BY <1>1, <1>2, <1>3, <2>1, <2>2
  <2>3. CASE m # n
    BY <1>1, <1>3, <2>1, <2>3
  <2> QED
    BY <2>2, <2>3
<1>5. TypeOK'
  BY <1>1, <1>4 DEF IInv, TypeOK
<1>6. PerNetwork'
  <2>1. log' = [m \in Networks |-> log'[m]]
    BY <1>1
  <2> QED
    BY <1>1, <2>1 DEF IInv, PerNetwork
<1>7. Kept
  BY <1>1 DEF Kept
<1>8. Saved'
  <2> SUFFICES ASSUME NEW m \in Networks
               PROVE  /\ next'[m] # "provider"
                            => providers'[<<m, Event(m)'.node>>] # Absent
                      /\ next'[m] = "job"
                            => models'[<<m, Event(m)'.hash>>] # Absent
    BY DEF Saved
  <2>1. next[m] # "provider" => Event(m)' = Event(m)
    <3> SUFFICES ASSUME next[m] # "provider" PROVE Event(m)' = Event(m)
      OBVIOUS
    <3>1. /\ handled[m] \in 0..Len(log[m]) /\ handled[m] < Len(log[m])
          /\ Len(log[m]) \in Nat /\ handled'[m] = handled[m]
      BY <1>1 DEF IInv, TypeOK
    <3>2. handled[m] + 1 \in 1..Len(log[m])
      BY <3>1
    <3>3. log'[m][handled[m] + 1] = log[m][handled[m] + 1]
      BY <1>2, <1>3, <3>2
    <3> QED
      BY <3>1, <3>3 DEF Event
  <2> QED
    BY <1>1, <1>7, <2>1, SavedElsewhere
<1>9. ReferencesResolve'
  BY <1>1 DEF IInv, ReferencesResolve
<1> QED
  BY <1>5, <1>6, <1>8, <1>9 DEF IInv

\* A network that is read again starts between two handlers.
LEMMA RestartKeeps ==
    ASSUME IInv, NEW n \in Networks, Restart(n)
    PROVE  IInv'
<1>1. /\ handled = [m \in Networks |-> handled[m]]
      /\ next = [m \in Networks |-> next[m]]
      /\ handled' = [handled EXCEPT ![n] = 0]
      /\ next' = [next EXCEPT ![n] = "provider"]
      /\ restarts < MaxRestarts /\ restarts' = restarts + 1
      /\ UNCHANGED <<log, providers, models, jobs>>
  BY DEF IInv, PerNetwork, Restart, store
<1>2. /\ handled'[n] = 0 /\ next'[n] = "provider"
      /\ \A m \in Networks \ {n} : handled'[m] = handled[m] /\ next'[m] = next[m]
  BY <1>1
<1>3. TypeOK'
  <2>1. restarts' \in 0..MaxRestarts
    BY <1>1, BoundsAssumption DEF IInv, TypeOK
  <2>2. \A m \in Networks :
           /\ log'[m] \in Seq(Events(m))
           /\ handled'[m] \in 0..Len(log'[m])
           /\ next'[m] \in {"provider", "model", "job"}
           /\ next'[m] # "provider" => handled'[m] < Len(log'[m])
    <3> SUFFICES ASSUME NEW m \in Networks
                 PROVE  /\ log'[m] \in Seq(Events(m))
                        /\ handled'[m] \in 0..Len(log'[m])
                        /\ next'[m] \in {"provider", "model", "job"}
                        /\ next'[m] # "provider" => handled'[m] < Len(log'[m])
      OBVIOUS
    <3>1. /\ log'[m] = log[m] /\ log[m] \in Seq(Events(m)) /\ Len(log[m]) \in Nat
          /\ handled[m] \in 0..Len(log[m])
          /\ next[m] \in {"provider", "model", "job"}
          /\ next[m] # "provider" => handled[m] < Len(log[m])
      BY <1>1 DEF IInv, TypeOK
    <3>2. CASE m = n
      <4>1. handled'[m] = 0 /\ next'[m] = "provider"
        BY <1>2, <3>2
      <4> QED
        BY <3>1, <4>1
    <3>3. CASE m # n
      <4>1. handled'[m] = handled[m] /\ next'[m] = next[m]
        BY <1>2, <3>3
      <4> QED
        BY <3>1, <4>1
    <3> QED
      BY <3>2, <3>3
  <2> QED
    BY <1>1, <2>1, <2>2 DEF IInv, TypeOK
<1>4. PerNetwork'
  <2>1. handled' = [m \in Networks |-> handled'[m]]
    BY <1>1
  <2>2. next' = [m \in Networks |-> next'[m]]
    BY <1>1
  <2> QED
    BY <1>1, <2>1, <2>2 DEF IInv, PerNetwork
<1>5. Kept
  BY <1>1 DEF Kept
<1>6. Saved'
  <2> SUFFICES ASSUME NEW m \in Networks
               PROVE  /\ next'[m] # "provider"
                            => providers'[<<m, Event(m)'.node>>] # Absent
                      /\ next'[m] = "job"
                            => models'[<<m, Event(m)'.hash>>] # Absent
    BY DEF Saved
  <2>1. CASE m = n
    BY <1>2, <2>1
  <2>2. CASE m # n
    <3>1. Event(m)' = Event(m)
      BY <1>1, <1>2, <2>2 DEF Event
    <3> QED
      BY <1>2, <1>5, <2>2, <3>1, SavedElsewhere
  <2> QED
    BY <2>1, <2>2
<1>7. ReferencesResolve'
  BY <1>1 DEF IInv, ReferencesResolve
<1> QED
  BY <1>3, <1>4, <1>6, <1>7 DEF IInv

\* Every step keeps the invariant.
LEMMA NextKeeps ==
    ASSUME IInv, [Next]_vars
    PROVE  IInv'
<1>1. CASE UNCHANGED vars
  BY <1>1 DEF vars, IInv, TypeOK, PerNetwork, Saved, Event, ReferencesResolve
<1>2. CASE Next
  <2> PICK n \in Networks : \/ SaveProvider(n) \/ SaveModel(n) \/ SaveJob(n)
                            \/ \E e \in Events(n) : Emit(n, e)
                            \/ Restart(n)
    BY <1>2 DEF Next
  <2> QED
    BY SaveProviderKeeps, SaveModelKeeps, SaveJobKeeps, EmitKeeps, RestartKeeps
<1> QED
  BY <1>1, <1>2

\* The invariant holds of the empty store.
LEMMA InitIInv == Init => IInv
<1> SUFFICES ASSUME Init PROVE IInv
  OBVIOUS
<1>1. \A n \in Networks : /\ log[n] = <<>> /\ handled[n] = 0 /\ next[n] = "provider"
                          /\ log[n] \in Seq(Events(n)) /\ Len(log[n]) = 0
  BY DEF Init
<1>2. TypeOK
  BY <1>1, BoundsAssumption DEF Init, TypeOK
<1>3. PerNetwork
  BY DEF Init, PerNetwork
<1>4. Saved
  BY <1>1 DEF Saved
<1>5. ReferencesResolve
  BY DEF Init, ReferencesResolve
<1> QED
  BY <1>2, <1>3, <1>4, <1>5 DEF IInv

-----------------------------------------------------------------------------
(* The theorems.                                                           *)

\* The inductive invariant holds of every reachable state.
THEOREM Inductive == Spec => []IInv
<1>1. IInv /\ [Next]_vars => IInv'
  BY NextKeeps
<1> QED
  BY <1>1, InitIInv, PTL DEF Spec

\* Every variable keeps its type.
THEOREM TypeCorrect == Spec => []TypeOK
<1>1. IInv => TypeOK
  BY DEF IInv
<1> QED
  BY <1>1, Inductive, PTL

\* No job refers to a model that is not stored, and no model to a provider that
\* is not, at any moment of any number of replays.
THEOREM ReferencesAlwaysResolve == Spec => []ReferencesResolve
<1>1. IInv => ReferencesResolve
  BY DEF IInv
<1> QED
  BY <1>1, Inductive, PTL

-----------------------------------------------------------------------------
(* Replays.                                                                *)

Least(S, k) == k \in S /\ \A j \in S : k <= j
Greatest(S, k) == k \in S /\ \A j \in S : j <= k

\* The events of a node, a model and a transaction among the first h.
NodeAt(n, x, h) == {j \in 1..h : log[n][j].node = x}
HashAt(n, x, h) == {j \in 1..h : log[n][j].hash = x}
TxAt(n, x, h) == {j \in 1..h : log[n][j].tx = x}

\* The events whose provider, and whose model, is saved since the last restart.
ProviderSaves(n) == IF next[n] = "provider" THEN handled[n] ELSE handled[n] + 1
ModelSaves(n) == IF next[n] = "job" THEN handled[n] + 1 ELSE handled[n]

\* A provider that is there has the first stake reported, however it got there.
StakesFirst(n) ==
    \A x \in Nodes : providers[<<n, x>>] # Absent =>
        IF n = "tao" THEN providers[<<n, x>>] = [stake |-> Absent, reputation |-> Absent]
        ELSE \E k \in DOMAIN log[n] : /\ Least(NodeAt(n, x, Len(log[n])), k)
                                      /\ providers[<<n, x>>].stake = log[n][k].value

\* After h events, their providers are there with the last reputation of them.
ReputationsLast(n, h) ==
    \A x \in Nodes : NodeAt(n, x, h) # {} =>
        /\ providers[<<n, x>>] # Absent
        /\ n # "tao" => \E k \in 1..h : /\ Greatest(NodeAt(n, x, h), k)
                                        /\ providers[<<n, x>>].reputation = log[n][k].value

\* A model that is there has its first provider.
ModelsFirst(n) ==
    \A x \in Hashes : models[<<n, x>>] # Absent =>
        \E k \in DOMAIN log[n] : /\ Least(HashAt(n, x, Len(log[n])), k)
                                 /\ models[<<n, x>>].provider = <<n, log[n][k].node>>

\* After h events, their models are there with their last version.
VersionsLast(n, h) ==
    \A x \in Hashes : HashAt(n, x, h) # {} =>
        /\ models[<<n, x>>] # Absent
        /\ \E k \in 1..h : /\ Greatest(HashAt(n, x, h), k)
                           /\ models[<<n, x>>].version = log[n][k].value

\* After h events, their jobs are the last event of each transaction.
JobsLast(n, h) ==
    \A x \in Txs[n] : TxAt(n, x, h) # {} =>
        \E k \in 1..h :
            /\ Greatest(TxAt(n, x, h), k)
            /\ jobs[x] = [model |-> <<n, log[n][k].hash>>, value |-> log[n][k].value]

\* What the handler of a network has to show for the events since the last
\* restart, and what earlier replays left.
Replayed(n) ==
    /\ StakesFirst(n)
    /\ ReputationsLast(n, ProviderSaves(n))
    /\ ModelsFirst(n)
    /\ VersionsLast(n, ModelSaves(n))
    /\ JobsLast(n, handled[n])

Converging == \A n \in Networks : Replayed(n)

\* A network none of whose entities or events change stays where it is.
LEMMA ReplayedElsewhere ==
    ASSUME NEW n, Replayed(n),
           log'[n] = log[n], handled'[n] = handled[n], next'[n] = next[n],
           \A x \in Nodes : providers'[<<n, x>>] = providers[<<n, x>>],
           \A x \in Hashes : models'[<<n, x>>] = models[<<n, x>>],
           \A x \in Txs[n] : jobs'[x] = jobs[x]
    PROVE  Replayed(n)'
<1>1. \A x, h : /\ NodeAt(n, x, h)' = NodeAt(n, x, h)
                /\ HashAt(n, x, h)' = HashAt(n, x, h)
                /\ TxAt(n, x, h)' = TxAt(n, x, h)
  BY DEF NodeAt, HashAt, TxAt
<1>2. StakesFirst(n)'
  BY <1>1 DEF Replayed, StakesFirst
<1>3. ModelsFirst(n)'
  BY <1>1 DEF Replayed, ModelsFirst
<1>4. PICK p, m, h : p = ProviderSaves(n) /\ m = ModelSaves(n) /\ h = handled[n]
  OBVIOUS
<1>5. ProviderSaves(n)' = p /\ ModelSaves(n)' = m /\ handled'[n] = h
  BY <1>4 DEF ProviderSaves, ModelSaves
<1>6. ReputationsLast(n, p)'
  BY <1>1, <1>4 DEF Replayed, ReputationsLast
<1>7. VersionsLast(n, m)'
  BY <1>1, <1>4 DEF Replayed, VersionsLast
<1>8. JobsLast(n, h)'
  BY <1>1, <1>4 DEF Replayed, JobsLast
<1> QED
  BY <1>2, <1>3, <1>5, <1>6, <1>7, <1>8 DEF Replayed

\* Saving the provider of the next event.
LEMMA ProviderReplayed ==
    ASSUME IInv, NEW n \in Networks, Replayed(n), SaveProvider(n)
    PROVE  Replayed(n)'
<1>1. PICK h, e : h = handled[n] /\ e = Event(n)
  OBVIOUS
<1>2. /\ h \in Nat /\ Len(log[n]) \in Nat /\ h < Len(log[n]) /\ next[n] = "provider"
      /\ e = log[n][h + 1] /\ e.node \in Nodes
      /\ DOMAIN log[n] = 1..Len(log[n])
  BY <1>1, EventType DEF IInv, TypeOK, SaveProvider, Handling, Event
<1>3. /\ log' = log /\ models' = models /\ jobs' = jobs
      /\ next'[n] = "model" /\ handled'[n] = h
  <2>1. Handling(n, "provider") /\ models' = models /\ jobs' = jobs
    BY DEF SaveProvider
  <2>2. next'[n] = Order["provider"] /\ log' = log /\ (next'[n] # "provider" => handled'[n] = handled[n])
    BY <2>1, HandlingKeeps
  <2> QED
    BY <1>1, <2>1, <2>2 DEF Order
<1>4. /\ providers'[<<n, e.node>>] =
             IF n = "tao" THEN ServedProvider(providers[<<n, e.node>>], e)
             ELSE ProvenProvider(providers[<<n, e.node>>], e)
      /\ \A x \in Nodes : x # e.node => providers'[<<n, x>>] = providers[<<n, x>>]
  BY <1>1, <1>2 DEF IInv, TypeOK, SaveProvider
<1>5. /\ \A x, g : /\ NodeAt(n, x, g)' = NodeAt(n, x, g)
                   /\ HashAt(n, x, g)' = HashAt(n, x, g)
                   /\ TxAt(n, x, g)' = TxAt(n, x, g)
  BY <1>3 DEF NodeAt, HashAt, TxAt
<1>6. StakesFirst(n) /\ ReputationsLast(n, h) /\ ModelsFirst(n) /\ VersionsLast(n, h) /\ JobsLast(n, h)
  BY <1>1, <1>2 DEF Replayed, ProviderSaves, ModelSaves
<1>7. ProviderSaves(n)' = h + 1 /\ ModelSaves(n)' = h /\ handled'[n] = h
  BY <1>3 DEF ProviderSaves, ModelSaves
<1>8. StakesFirst(n)'
  <2> SUFFICES ASSUME NEW x \in Nodes, providers'[<<n, x>>] # Absent
               PROVE  IF n = "tao"
                      THEN providers'[<<n, x>>] = [stake |-> Absent, reputation |-> Absent]
                      ELSE \E k \in DOMAIN log[n] :
                               /\ Least(NodeAt(n, x, Len(log[n])), k)
                               /\ providers'[<<n, x>>].stake = log[n][k].value
    BY <1>3, <1>5 DEF StakesFirst
  <2>1. CASE x # e.node
    BY <1>4, <1>6, <2>1 DEF StakesFirst
  <2>2. CASE x = e.node /\ providers[<<n, x>>] # Absent
    BY <1>4, <1>6, <2>2 DEF StakesFirst, ServedProvider, ProvenProvider
  <2>3. CASE x = e.node /\ providers[<<n, x>>] = Absent
    <3>1. NodeAt(n, x, h) = {}
      BY <1>6, <2>3 DEF ReputationsLast
    <3>2. h + 1 \in NodeAt(n, x, Len(log[n]))
      BY <1>2, <2>3 DEF NodeAt
    <3>3. \A j \in NodeAt(n, x, Len(log[n])) : h + 1 <= j
      BY <1>2, <3>1 DEF NodeAt
    <3>4. Least(NodeAt(n, x, Len(log[n])), h + 1)
      BY <3>2, <3>3 DEF Least
    <3>5. h + 1 \in DOMAIN log[n]
      BY <1>2
    <3> QED
      BY <1>2, <1>4, <2>3, <3>4, <3>5 DEF ServedProvider, ProvenProvider
  <2> QED
    BY <2>1, <2>2, <2>3
<1>9. ReputationsLast(n, h + 1)'
  <2> SUFFICES ASSUME NEW x \in Nodes, NodeAt(n, x, h + 1) # {}
               PROVE  /\ providers'[<<n, x>>] # Absent
                      /\ n # "tao" => \E k \in 1..h + 1 :
                             /\ Greatest(NodeAt(n, x, h + 1), k)
                             /\ providers'[<<n, x>>].reputation = log[n][k].value
    BY <1>3, <1>5 DEF ReputationsLast
  <2>1. CASE x # e.node
    <3>1. NodeAt(n, x, h + 1) = NodeAt(n, x, h)
      BY <1>2, <2>1 DEF NodeAt
    <3>2. 1..h \subseteq 1..h + 1
      BY <1>2
    <3> QED
      BY <1>4, <1>6, <2>1, <3>1, <3>2 DEF ReputationsLast
  <2>2. CASE x = e.node
    <3>1. Greatest(NodeAt(n, x, h + 1), h + 1) /\ h + 1 \in 1..h + 1
      BY <1>2, <2>2 DEF NodeAt, Greatest
    <3>2. providers'[<<n, x>>] # Absent
      <4>1. providers[<<n, x>>] = Absent =>
                "stake" \in DOMAIN providers'[<<n, x>>]
        BY <1>4, <2>2 DEF ServedProvider, ProvenProvider
      <4>2. n # "tao" => "stake" \in DOMAIN providers'[<<n, x>>]
        BY <1>4, <2>2 DEF ProvenProvider
      <4>3. "stake" \notin DOMAIN Absent
        BY DEF Absent
      <4> QED
        BY <1>4, <2>2, <4>1, <4>2, <4>3 DEF ServedProvider
    <3>3. n # "tao" => providers'[<<n, x>>].reputation = log[n][h + 1].value
      BY <1>2, <1>4, <2>2 DEF ProvenProvider
    <3> QED
      BY <3>1, <3>2, <3>3
  <2> QED
    BY <2>1, <2>2
<1>10. ModelsFirst(n)'
  BY <1>3, <1>5, <1>6 DEF ModelsFirst
<1>11. VersionsLast(n, h)'
  BY <1>3, <1>5, <1>6 DEF VersionsLast
<1>12. JobsLast(n, h)'
  BY <1>3, <1>5, <1>6 DEF JobsLast
<1> QED
  BY <1>7, <1>8, <1>9, <1>10, <1>11, <1>12 DEF Replayed

\* Saving the model of the next event.
LEMMA ModelReplayed ==
    ASSUME IInv, NEW n \in Networks, Replayed(n), SaveModel(n)
    PROVE  Replayed(n)'
<1>1. PICK h, e : h = handled[n] /\ e = Event(n)
  OBVIOUS
<1>2. /\ h \in Nat /\ Len(log[n]) \in Nat /\ h < Len(log[n]) /\ next[n] = "model"
      /\ e = log[n][h + 1] /\ e.hash \in Hashes
      /\ DOMAIN log[n] = 1..Len(log[n])
  BY <1>1, EventType DEF IInv, TypeOK, SaveModel, Handling, Event
<1>3. /\ log' = log /\ providers' = providers /\ jobs' = jobs
      /\ next'[n] = "job" /\ handled'[n] = h
  <2>1. Handling(n, "model") /\ providers' = providers /\ jobs' = jobs
    BY DEF SaveModel
  <2>2. next'[n] = Order["model"] /\ log' = log /\ (next'[n] # "provider" => handled'[n] = handled[n])
    BY <2>1, HandlingKeeps
  <2> QED
    BY <1>1, <2>1, <2>2 DEF Order
<1>4. /\ models'[<<n, e.hash>>] =
             [provider |-> IF models[<<n, e.hash>>] = Absent THEN <<n, e.node>>
                           ELSE models[<<n, e.hash>>].provider,
              version |-> e.value]
      /\ \A x \in Hashes : x # e.hash => models'[<<n, x>>] = models[<<n, x>>]
  BY <1>1, <1>2 DEF IInv, TypeOK, SaveModel, ServedModel, ProvenModel
<1>5. /\ \A x, g : /\ NodeAt(n, x, g)' = NodeAt(n, x, g)
                   /\ HashAt(n, x, g)' = HashAt(n, x, g)
                   /\ TxAt(n, x, g)' = TxAt(n, x, g)
  BY <1>3 DEF NodeAt, HashAt, TxAt
<1>6. StakesFirst(n) /\ ReputationsLast(n, h + 1) /\ ModelsFirst(n) /\ VersionsLast(n, h) /\ JobsLast(n, h)
  BY <1>1, <1>2 DEF Replayed, ProviderSaves, ModelSaves
<1>7. ProviderSaves(n)' = h + 1 /\ ModelSaves(n)' = h + 1 /\ handled'[n] = h
  BY <1>3 DEF ProviderSaves, ModelSaves
<1>8. ModelsFirst(n)'
  <2> SUFFICES ASSUME NEW x \in Hashes, models'[<<n, x>>] # Absent
               PROVE  \E k \in DOMAIN log[n] :
                          /\ Least(HashAt(n, x, Len(log[n])), k)
                          /\ models'[<<n, x>>].provider = <<n, log[n][k].node>>
    BY <1>3, <1>5 DEF ModelsFirst
  <2>1. CASE x # e.hash
    BY <1>4, <1>6, <2>1 DEF ModelsFirst
  <2>2. CASE x = e.hash /\ models[<<n, x>>] # Absent
    <3>1. models'[<<n, x>>].provider = models[<<n, x>>].provider
      BY <1>4, <2>2
    <3> QED
      BY <1>6, <2>2, <3>1 DEF ModelsFirst
  <2>3. CASE x = e.hash /\ models[<<n, x>>] = Absent
    <3>1. HashAt(n, x, h) = {}
      BY <1>6, <2>3 DEF VersionsLast
    <3>2. h + 1 \in HashAt(n, x, Len(log[n]))
      BY <1>2, <2>3 DEF HashAt
    <3>3. \A j \in HashAt(n, x, Len(log[n])) : h + 1 <= j
      BY <1>2, <3>1 DEF HashAt
    <3>4. Least(HashAt(n, x, Len(log[n])), h + 1)
      BY <3>2, <3>3 DEF Least
    <3>5. h + 1 \in DOMAIN log[n]
      BY <1>2
    <3> QED
      BY <1>2, <1>4, <2>3, <3>4, <3>5
  <2> QED
    BY <2>1, <2>2, <2>3
<1>9. VersionsLast(n, h + 1)'
  <2> SUFFICES ASSUME NEW x \in Hashes, HashAt(n, x, h + 1) # {}
               PROVE  /\ models'[<<n, x>>] # Absent
                      /\ \E k \in 1..h + 1 :
                             /\ Greatest(HashAt(n, x, h + 1), k)
                             /\ models'[<<n, x>>].version = log[n][k].value
    BY <1>3, <1>5 DEF VersionsLast
  <2>1. CASE x # e.hash
    <3>1. HashAt(n, x, h + 1) = HashAt(n, x, h)
      BY <1>2, <2>1 DEF HashAt
    <3>2. 1..h \subseteq 1..h + 1
      BY <1>2
    <3> QED
      BY <1>4, <1>6, <2>1, <3>1, <3>2 DEF VersionsLast
  <2>2. CASE x = e.hash
    <3>1. Greatest(HashAt(n, x, h + 1), h + 1) /\ h + 1 \in 1..h + 1
      BY <1>2, <2>2 DEF HashAt, Greatest
    <3>2. models'[<<n, x>>] # Absent
      <4>1. "version" \in DOMAIN models'[<<n, x>>]
        BY <1>4, <2>2
      <4>2. "version" \notin DOMAIN Absent
        BY DEF Absent
      <4> QED
        BY <4>1, <4>2
    <3>3. models'[<<n, x>>].version = log[n][h + 1].value
      BY <1>2, <1>4, <2>2
    <3> QED
      BY <3>1, <3>2, <3>3
  <2> QED
    BY <2>1, <2>2
<1>10. StakesFirst(n)'
  BY <1>3, <1>5, <1>6 DEF StakesFirst
<1>11. ReputationsLast(n, h + 1)'
  BY <1>3, <1>5, <1>6 DEF ReputationsLast
<1>12. JobsLast(n, h)'
  BY <1>3, <1>5, <1>6 DEF JobsLast
<1> QED
  BY <1>7, <1>8, <1>9, <1>10, <1>11, <1>12 DEF Replayed

\* Saving the job of the next event, which is then handled.
LEMMA JobReplayed ==
    ASSUME IInv, NEW n \in Networks, Replayed(n), SaveJob(n)
    PROVE  Replayed(n)'
<1>1. PICK h, e : h = handled[n] /\ e = Event(n)
  OBVIOUS
<1>2. /\ h \in Nat /\ Len(log[n]) \in Nat /\ h < Len(log[n]) /\ next[n] = "job"
      /\ e = log[n][h + 1] /\ e \in Events(n)
  BY <1>1, EventType DEF IInv, TypeOK, SaveJob, Handling, Event
<1>3. /\ log' = log /\ providers' = providers /\ models' = models
      /\ next'[n] = "provider" /\ handled'[n] = h + 1
  <2>1. Handling(n, "job") /\ providers' = providers /\ models' = models
    BY DEF SaveJob
  <2>2. next'[n] = Order["job"] /\ log' = log
    BY <2>1, HandlingKeeps
  <2>3. /\ handled' = [handled EXCEPT ![n] =
                            IF Order["job"] = "provider" THEN @ + 1 ELSE @]
        /\ handled = [m \in Networks |-> handled[m]]
    BY <2>1 DEF Handling, IInv, PerNetwork
  <2>4. Order["job"] = "provider"
    BY DEF Order
  <2>5. handled'[n] = handled[n] + 1
    BY <2>3, <2>4
  <2> QED
    BY <1>1, <2>1, <2>2, <2>4, <2>5
<1>4. Txs[n] \subseteq TaoTxs \cup RenderTxs
  BY DEF Txs, Networks
<1>5. /\ e.tx \in Txs[n]
      /\ jobs'[e.tx] = [model |-> <<n, e.hash>>, value |-> e.value]
      /\ \A x \in Txs[n] : x # e.tx => jobs'[x] = jobs[x]
  BY <1>1, <1>2, <1>4 DEF IInv, TypeOK, SaveJob, Events
<1>6. /\ \A x, g : /\ NodeAt(n, x, g)' = NodeAt(n, x, g)
                   /\ HashAt(n, x, g)' = HashAt(n, x, g)
                   /\ TxAt(n, x, g)' = TxAt(n, x, g)
  BY <1>3 DEF NodeAt, HashAt, TxAt
<1>7. /\ StakesFirst(n) /\ ReputationsLast(n, h + 1) /\ ModelsFirst(n)
      /\ VersionsLast(n, h + 1) /\ JobsLast(n, h)
  BY <1>1, <1>2 DEF Replayed, ProviderSaves, ModelSaves
<1>8. ProviderSaves(n)' = h + 1 /\ ModelSaves(n)' = h + 1 /\ handled'[n] = h + 1
  BY <1>3 DEF ProviderSaves, ModelSaves
<1>9. JobsLast(n, h + 1)'
  <2> SUFFICES ASSUME NEW x \in Txs[n], TxAt(n, x, h + 1) # {}
               PROVE  \E k \in 1..h + 1 :
                          /\ Greatest(TxAt(n, x, h + 1), k)
                          /\ jobs'[x] = [model |-> <<n, log[n][k].hash>>,
                                         value |-> log[n][k].value]
    BY <1>3, <1>6 DEF JobsLast
  <2>1. CASE x # e.tx
    <3>1. TxAt(n, x, h + 1) = TxAt(n, x, h)
      BY <1>2, <2>1 DEF TxAt
    <3>2. 1..h \subseteq 1..h + 1
      BY <1>2
    <3> QED
      BY <1>5, <1>7, <2>1, <3>1, <3>2 DEF JobsLast
  <2>2. CASE x = e.tx
    <3>1. Greatest(TxAt(n, x, h + 1), h + 1) /\ h + 1 \in 1..h + 1
      BY <1>2, <2>2 DEF TxAt, Greatest
    <3> QED
      BY <1>2, <1>5, <2>2, <3>1
  <2> QED
    BY <2>1, <2>2
<1>10. StakesFirst(n)'
  BY <1>3, <1>6, <1>7 DEF StakesFirst
<1>11. ReputationsLast(n, h + 1)'
  BY <1>3, <1>6, <1>7 DEF ReputationsLast
<1>12. ModelsFirst(n)'
  BY <1>3, <1>6, <1>7 DEF ModelsFirst
<1>13. VersionsLast(n, h + 1)'
  BY <1>3, <1>6, <1>7 DEF VersionsLast
<1> QED
  BY <1>8, <1>9, <1>10, <1>11, <1>12, <1>13 DEF Replayed

\* A new event comes after all that was handled.
LEMMA EmitReplayed ==
    ASSUME IInv, NEW n \in Networks, Replayed(n), NEW e \in Events(n), Emit(n, e)
    PROVE  Replayed(n)'
<1>1. PICK l, p, m, h : l = Len(log[n]) /\ p = ProviderSaves(n) /\ m = ModelSaves(n) /\ h = handled[n]
  OBVIOUS
<1>2. /\ log'[n] = Append(log[n], e)
      /\ UNCHANGED <<handled, next, providers, models, jobs>>
  BY DEF IInv, PerNetwork, Emit, store
<1>3. /\ l \in Nat /\ DOMAIN log[n] = 1..l
      /\ Len(log'[n]) = l + 1 /\ DOMAIN log'[n] = 1..l + 1
      /\ \A k \in 1..l : log'[n][k] = log[n][k]
  BY <1>1, <1>2, AppendProperties DEF IInv, TypeOK
<1>4. p \in 0..l /\ m \in 0..l /\ h \in 0..l
  BY <1>1, <1>3 DEF ProviderSaves, ModelSaves, IInv, TypeOK
<1>5. ASSUME NEW g \in 0..l, NEW x
      PROVE  /\ NodeAt(n, x, g)' = NodeAt(n, x, g) /\ HashAt(n, x, g)' = HashAt(n, x, g)
             /\ TxAt(n, x, g)' = TxAt(n, x, g) /\ \A k \in 1..g : log'[n][k] = log[n][k]
  <2>1. \A k \in 1..g : k \in 1..l
    BY <1>3
  <2> QED
    BY <1>3, <2>1 DEF NodeAt, HashAt, TxAt
<1>6. ASSUME NEW x, NEW k \in 1..l, Least(NodeAt(n, x, l), k)
      PROVE  k \in 1..l + 1 /\ Least(NodeAt(n, x, l + 1)', k)
  BY <1>3, <1>6 DEF Least, NodeAt
<1>7. ASSUME NEW x, NEW k \in 1..l, Least(HashAt(n, x, l), k)
      PROVE  k \in 1..l + 1 /\ Least(HashAt(n, x, l + 1)', k)
  BY <1>3, <1>7 DEF Least, HashAt
<1>8. ProviderSaves(n)' = p /\ ModelSaves(n)' = m /\ handled'[n] = h
  BY <1>1, <1>2 DEF ProviderSaves, ModelSaves
<1>9. StakesFirst(n)'
  <2> SUFFICES ASSUME NEW x \in Nodes, providers'[<<n, x>>] # Absent
               PROVE  IF n = "tao"
                      THEN providers'[<<n, x>>] = [stake |-> Absent, reputation |-> Absent]
                      ELSE \E k \in 1..l + 1 :
                               /\ Least(NodeAt(n, x, l + 1)', k)
                               /\ providers'[<<n, x>>].stake = log'[n][k].value
    BY <1>3 DEF StakesFirst
  <2>1. CASE n = "tao"
    BY <1>2, <2>1 DEF Replayed, StakesFirst
  <2>2. CASE n # "tao"
    <3>1. PICK k \in 1..l : /\ Least(NodeAt(n, x, l), k)
                            /\ providers[<<n, x>>].stake = log[n][k].value
      BY <1>1, <1>2, <1>3, <2>2 DEF Replayed, StakesFirst
    <3> QED
      BY <1>2, <1>3, <1>6, <2>2, <3>1
  <2> QED
    BY <2>1, <2>2
<1>10. ModelsFirst(n)'
  <2> SUFFICES ASSUME NEW x \in Hashes, models'[<<n, x>>] # Absent
               PROVE  \E k \in 1..l + 1 :
                          /\ Least(HashAt(n, x, l + 1)', k)
                          /\ models'[<<n, x>>].provider = <<n, log'[n][k].node>>
    BY <1>3 DEF ModelsFirst
  <2>1. PICK k \in 1..l : /\ Least(HashAt(n, x, l), k)
                          /\ models[<<n, x>>].provider = <<n, log[n][k].node>>
    BY <1>1, <1>2, <1>3 DEF Replayed, ModelsFirst
  <2> QED
    BY <1>2, <1>3, <1>7, <2>1
<1>11. ReputationsLast(n, p)'
  BY <1>1, <1>2, <1>4, <1>5 DEF Replayed, ReputationsLast
<1>12. VersionsLast(n, m)'
  BY <1>1, <1>2, <1>4, <1>5 DEF Replayed, VersionsLast
<1>13. JobsLast(n, h)'
  <2> SUFFICES ASSUME NEW x \in Txs[n], TxAt(n, x, h)' # {}
               PROVE  \E k \in 1..h :
                          /\ Greatest(TxAt(n, x, h)', k)
                          /\ jobs'[x] = [model |-> <<n, log'[n][k].hash>>,
                                        value |-> log'[n][k].value]
    BY DEF JobsLast
  <2>1. TxAt(n, x, h)' = TxAt(n, x, h) /\ \A k \in 1..h : log'[n][k] = log[n][k]
    BY <1>4, <1>5
  <2>2. PICK k \in 1..h :
            /\ Greatest(TxAt(n, x, h), k)
            /\ jobs[x] = [model |-> <<n, log[n][k].hash>>, value |-> log[n][k].value]
    BY <1>1, <2>1 DEF Replayed, JobsLast
  <2> QED
    BY <1>2, <2>1, <2>2
<1> QED
  BY <1>8, <1>9, <1>10, <1>11, <1>12, <1>13 DEF Replayed

\* A network that is read again has nothing to show yet, and keeps what is first.
LEMMA RestartReplayed ==
    ASSUME IInv, NEW n \in Networks, Replayed(n), Restart(n)
    PROVE  Replayed(n)'
<1>1. /\ handled'[n] = 0 /\ next'[n] = "provider"
      /\ UNCHANGED <<log, providers, models, jobs>>
  BY DEF IInv, PerNetwork, Restart, store
<1>2. ProviderSaves(n)' = 0 /\ ModelSaves(n)' = 0
  BY <1>1 DEF ProviderSaves, ModelSaves
<1>3. \A x : NodeAt(n, x, 0)' = {} /\ HashAt(n, x, 0)' = {} /\ TxAt(n, x, 0)' = {}
  BY DEF NodeAt, HashAt, TxAt
<1>4. ReputationsLast(n, 0)' /\ VersionsLast(n, 0)' /\ JobsLast(n, 0)'
  BY <1>3 DEF ReputationsLast, VersionsLast, JobsLast
<1>5. StakesFirst(n)' /\ ModelsFirst(n)'
  BY <1>1 DEF Replayed, StakesFirst, ModelsFirst, NodeAt, HashAt
<1> QED
  BY <1>1, <1>2, <1>4, <1>5 DEF Replayed

\* A step of one network leaves the other's entities alone.
LEMMA OthersKept ==
    ASSUME IInv, NEW n \in Networks, NEW m \in Networks, m # n,
           \/ SaveProvider(n) \/ SaveModel(n) \/ SaveJob(n)
           \/ \E e \in Events(n) : Emit(n, e)
           \/ Restart(n)
    PROVE  /\ log'[m] = log[m] /\ handled'[m] = handled[m] /\ next'[m] = next[m]
           /\ \A x \in Nodes : providers'[<<m, x>>] = providers[<<m, x>>]
           /\ \A x \in Hashes : models'[<<m, x>>] = models[<<m, x>>]
           /\ \A x \in Txs[m] : jobs'[x] = jobs[x]
<1>1. /\ log = [k \in Networks |-> log[k]]
      /\ handled = [k \in Networks |-> handled[k]]
      /\ next = [k \in Networks |-> next[k]]
  BY DEF IInv, PerNetwork
<1>2. /\ DOMAIN providers = Networks \X Nodes
      /\ DOMAIN models = Networks \X Hashes
      /\ DOMAIN jobs = TaoTxs \cup RenderTxs
  BY DEF IInv, TypeOK
<1>3. \A entity : Handling(n, entity) =>
          log' = log /\ handled'[m] = handled[m] /\ next'[m] = next[m]
  BY <1>1 DEF Handling
<1>4. CASE SaveProvider(n)
  <2>1. \A x \in Nodes : <<m, x>> # <<n, Event(n).node>> /\ <<m, x>> \in DOMAIN providers
    BY <1>2
  <2>2. /\ Handling(n, "provider") /\ models' = models /\ jobs' = jobs
        /\ \A id \in DOMAIN providers : id # <<n, Event(n).node>> => providers'[id] = providers[id]
    BY <1>4 DEF SaveProvider
  <2> QED
    BY <1>3, <2>1, <2>2
<1>5. CASE SaveModel(n)
  <2>1. \A x \in Hashes : <<m, x>> # <<n, Event(n).hash>> /\ <<m, x>> \in DOMAIN models
    BY <1>2
  <2>2. /\ Handling(n, "model") /\ providers' = providers /\ jobs' = jobs
        /\ \A id \in DOMAIN models : id # <<n, Event(n).hash>> => models'[id] = models[id]
    BY <1>5 DEF SaveModel
  <2> QED
    BY <1>3, <2>1, <2>2
<1>6. CASE SaveJob(n)
  <2>1. handled[n] < Len(log[n])
    BY <1>6 DEF SaveJob, Handling
  <2>2. Event(n).tx \in Txs[n]
    BY <2>1, EventType DEF IInv, Events
  <2>3. Txs[n] \cap Txs[m] = {} /\ Txs[m] \subseteq DOMAIN jobs
    BY <1>2, TxsAssumption DEF Networks, Txs
  <2>4. /\ Handling(n, "job") /\ providers' = providers /\ models' = models
        /\ \A x \in DOMAIN jobs : x # Event(n).tx => jobs'[x] = jobs[x]
    BY <1>6 DEF SaveJob
  <2> QED
    BY <1>3, <2>2, <2>3, <2>4
<1>7. CASE (\E e \in Events(n) : Emit(n, e)) \/ Restart(n)
  BY <1>1, <1>7 DEF Emit, Restart, store
<1> QED
  BY <1>4, <1>5, <1>6, <1>7

\* Every step keeps what replays have to show.
LEMMA ConvergingStep ==
    IInv /\ Converging /\ [Next]_vars => Converging'
<1> SUFFICES ASSUME IInv, Converging, [Next]_vars, NEW m \in Networks PROVE Replayed(m)'
  BY DEF Converging
<1>1. Replayed(m)
  BY DEF Converging
<1>2. CASE UNCHANGED vars
  BY <1>1, <1>2, ReplayedElsewhere DEF vars
<1>3. CASE Next
  <2>1. PICK n \in Networks : \/ SaveProvider(n) \/ SaveModel(n) \/ SaveJob(n)
                              \/ \E e \in Events(n) : Emit(n, e)
                              \/ Restart(n)
    BY <1>3 DEF Next
  <2>2. CASE m = n
    BY <1>1, <2>1, <2>2, ProviderReplayed, ModelReplayed, JobReplayed, EmitReplayed, RestartReplayed
  <2>3. CASE m # n
    BY <1>1, <2>1, <2>3, OthersKept, ReplayedElsewhere
  <2> QED
    BY <2>2, <2>3
<1> QED
  BY <1>2, <1>3

\* Nothing was handled at first.
LEMMA ConvergingInit ==
    Init => Converging
<1> SUFFICES ASSUME Init, NEW n \in Networks PROVE Replayed(n)
  BY DEF Converging
<1>1. /\ handled[n] = 0 /\ next[n] = "provider"
      /\ \A x \in Nodes : providers[<<n, x>>] = Absent
      /\ \A x \in Hashes : models[<<n, x>>] = Absent
  BY DEF Init
<1>2. ProviderSaves(n) = 0 /\ ModelSaves(n) = 0
  BY <1>1 DEF ProviderSaves, ModelSaves
<1>3. \A x : NodeAt(n, x, 0) = {} /\ HashAt(n, x, 0) = {} /\ TxAt(n, x, 0) = {}
  BY DEF NodeAt, HashAt, TxAt
<1> QED
  BY <1>1, <1>2, <1>3
     DEF Replayed, StakesFirst, ReputationsLast, ModelsFirst, VersionsLast, JobsLast

\* The least and the greatest of a set of naturals are the ones chosen.
LEMMA Chosen ==
    ASSUME NEW S, S \subseteq Nat, NEW k
    PROVE  /\ Least(S, k) => k = CHOOSE i \in S : \A j \in S : i <= j
           /\ Greatest(S, k) => k = CHOOSE i \in S : \A j \in S : i >= j
<1>1. ASSUME Least(S, k) PROVE k = CHOOSE i \in S : \A j \in S : i <= j
  <2>1. \E i \in S : \A j \in S : i <= j
    BY <1>1 DEF Least
  <2>2. PICK c : c = CHOOSE i \in S : \A j \in S : i <= j
    OBVIOUS
  <2>3. c \in S /\ \A j \in S : c <= j
    BY <2>1, <2>2
  <2> QED
    BY <1>1, <2>2, <2>3 DEF Least
<1>2. ASSUME Greatest(S, k) PROVE k = CHOOSE i \in S : \A j \in S : i >= j
  <2>1. \E i \in S : \A j \in S : i >= j
    BY <1>2 DEF Greatest
  <2>2. PICK c : c = CHOOSE i \in S : \A j \in S : i >= j
    OBVIOUS
  <2>3. c \in S /\ \A j \in S : c >= j
    BY <2>1, <2>2
  <2> QED
    BY <1>2, <2>2, <2>3 DEF Greatest
<1> QED
  BY <1>1, <1>2

\* A network that was read to its end shows what its events determine.
LEMMA EndsConverged ==
    IInv /\ Converging => ReplayConverges
<1> SUFFICES ASSUME IInv, Converging, NEW n \in Networks, handled[n] = Len(log[n]),
                    NEW i \in DOMAIN log[n]
             PROVE  LET e == log[n][i]
                        ofNode == {j \in DOMAIN log[n] : log[n][j].node = e.node}
                        ofModel == {j \in DOMAIN log[n] : log[n][j].hash = e.hash}
                        ofTx == {j \in DOMAIN log[n] : log[n][j].tx = e.tx}
                    IN  /\ providers[<<n, e.node>>] =
                               IF n = "tao" THEN [stake |-> Absent, reputation |-> Absent]
                               ELSE [stake |-> First(n, ofNode).value,
                                     reputation |-> Last(n, ofNode).value]
                        /\ models[<<n, e.hash>>] = [provider |-> <<n, First(n, ofModel).node>>,
                                                    version |-> Last(n, ofModel).value]
                        /\ jobs[e.tx] = [model |-> <<n, Last(n, ofTx).hash>>,
                                         value |-> Last(n, ofTx).value]
  BY DEF ReplayConverges
<1> DEFINE e == log[n][i]
           ofNode == {j \in DOMAIN log[n] : log[n][j].node = e.node}
           ofModel == {j \in DOMAIN log[n] : log[n][j].hash = e.hash}
           ofTx == {j \in DOMAIN log[n] : log[n][j].tx = e.tx}
<1> HIDE DEF e, ofNode, ofModel, ofTx
<1>1. PICK l : l = Len(log[n])
  OBVIOUS
<1>2. /\ l \in Nat /\ DOMAIN log[n] = 1..l /\ handled[n] = l /\ i \in 1..l
      /\ next[n] = "provider" /\ e \in Events(n)
  BY <1>1, ElementOfSeq DEF IInv, TypeOK, e
<1>3. e.node \in Nodes /\ e.hash \in Hashes /\ e.tx \in Txs[n]
  BY <1>2 DEF Events
<1>4. /\ StakesFirst(n) /\ ReputationsLast(n, l) /\ ModelsFirst(n)
      /\ VersionsLast(n, l) /\ JobsLast(n, l)
  BY <1>2 DEF Converging, Replayed, ProviderSaves, ModelSaves
<1>5. /\ ofNode = NodeAt(n, e.node, l) /\ ofModel = HashAt(n, e.hash, l)
      /\ ofTx = TxAt(n, e.tx, l)
      /\ ofNode \subseteq Nat /\ i \in ofNode /\ ofModel \subseteq Nat /\ i \in ofModel
      /\ ofTx \subseteq Nat /\ i \in ofTx
  BY <1>2 DEF NodeAt, HashAt, TxAt, e, ofNode, ofModel, ofTx
<1>6. ASSUME NEW S, S \subseteq Nat, NEW k
      PROVE  /\ Least(S, k) => First(n, S) = log[n][k]
             /\ Greatest(S, k) => Last(n, S) = log[n][k]
  BY <1>6, Chosen DEF First, Last
<1>7. providers[<<n, e.node>>] =
          IF n = "tao" THEN [stake |-> Absent, reputation |-> Absent]
          ELSE [stake |-> First(n, ofNode).value, reputation |-> Last(n, ofNode).value]
  <2>1. providers[<<n, e.node>>] # Absent /\ <<n, e.node>> \in Networks \X Nodes
    BY <1>3, <1>4, <1>5 DEF ReputationsLast
  <2>2. CASE n = "tao"
    BY <1>3, <1>4, <2>1, <2>2 DEF StakesFirst
  <2>3. CASE n # "tao"
    <3>1. PICK k : /\ Least(ofNode, k)
                   /\ providers[<<n, e.node>>].stake = log[n][k].value
      BY <1>1, <1>3, <1>4, <1>5, <2>1, <2>3 DEF StakesFirst
    <3>2. PICK g : /\ Greatest(ofNode, g)
                   /\ providers[<<n, e.node>>].reputation = log[n][g].value
      BY <1>3, <1>4, <1>5, <2>3 DEF ReputationsLast
    <3>3. providers[<<n, e.node>>] \in Providers
      BY <2>1 DEF IInv, TypeOK
    <3>4. providers[<<n, e.node>>] = [stake |-> log[n][k].value, reputation |-> log[n][g].value]
      BY <3>1, <3>2, <3>3 DEF Providers
    <3> QED
      BY <1>5, <1>6, <2>3, <3>1, <3>2, <3>4
  <2> QED
    BY <2>2, <2>3
<1>8. models[<<n, e.hash>>] = [provider |-> <<n, First(n, ofModel).node>>,
                                version |-> Last(n, ofModel).value]
  <2>1. models[<<n, e.hash>>] # Absent /\ <<n, e.hash>> \in Networks \X Hashes
    BY <1>3, <1>4, <1>5 DEF VersionsLast
  <2>2. PICK k : /\ Least(ofModel, k)
                 /\ models[<<n, e.hash>>].provider = <<n, log[n][k].node>>
    BY <1>1, <1>3, <1>4, <1>5, <2>1 DEF ModelsFirst
  <2>3. PICK g : /\ Greatest(ofModel, g)
                 /\ models[<<n, e.hash>>].version = log[n][g].value
    BY <1>3, <1>4, <1>5 DEF VersionsLast
  <2>4. models[<<n, e.hash>>] \in Models
    BY <2>1 DEF IInv, TypeOK
  <2>5. models[<<n, e.hash>>] = [provider |-> <<n, log[n][k].node>>, version |-> log[n][g].value]
    BY <2>2, <2>3, <2>4 DEF Models
  <2> QED
    BY <1>5, <1>6, <2>2, <2>3, <2>5
<1>9. jobs[e.tx] = [model |-> <<n, Last(n, ofTx).hash>>, value |-> Last(n, ofTx).value]
  <2>1. PICK g : /\ Greatest(ofTx, g)
                 /\ jobs[e.tx] = [model |-> <<n, log[n][g].hash>>, value |-> log[n][g].value]
    BY <1>3, <1>4, <1>5 DEF JobsLast
  <2> QED
    BY <1>5, <1>6, <2>1
<1> QED
  BY <1>7, <1>8, <1>9 DEF e, ofNode, ofModel, ofTx

\* Once a network has been read to its end, its entities are what its events
\* alone determine, after any number of crashes and replays and wherever the
\* other network's handler is.
THEOREM ReplayAlwaysConverges == Spec => []ReplayConverges
<1>1. IInv /\ Converging /\ [Next]_vars => Converging'
  BY ConvergingStep
<1>2. IInv /\ Converging => ReplayConverges
  BY EndsConverged
<1> QED
  BY <1>1, <1>2, ConvergingInit, Inductive, PTL DEF Spec
=============================================================================
