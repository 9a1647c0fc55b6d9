--------------------------- MODULE ClusterProofs ----------------------------
(***************************************************************************)
(* Theorems about the cluster, for any number of slots, failures and       *)
(* connections, and any addresses: slots and processes, the owners of      *)
(* sockets, and how connections are spread.                                *)
(***************************************************************************)
EXTENDS Cluster, FiniteSetTheorems, SequenceTheorems, TLAPS

-----------------------------------------------------------------------------
\* The inductive invariant.

\* Processes are numbered as they are forked, and each leaves one exit event.
Forked ==
    /\ forks = 0 \/ forks >= N
    /\ \A i \in Slots : slot[i] <= forks
    /\ \A w \in Ids : w > forks => proc[w] = "none"
    /\ \A w \in doomed : w <= forks
    /\ \A w \in Ids, clean \in BOOLEAN :
          <<w, clean>> \in exitEvents => proc[w] = Ended(clean) /\ <<w, ~ clean>> \notin exitEvents

\* Workers that the master will have to respawn.
Falling ==
    {w \in Ids : <<w, FALSE>> \in exitEvents \/ (w \in doomed /\ Alive(w))}

Respawns == IF forks = 0 THEN 0 ELSE forks - N

\* Failures pay for respawns, those that have been and those to come.
Paid == Cardinality(Falling) + Respawns <= failures

\* The selection names a slot unless a respawn has changed it.
Selected ==
    nextWorkerId # -1 =>
        listen.perfMonitor /\ (forks > N \/ \E i \in Slots : slot[i] = nextWorkerId)

\* Without monitoring and round robin the address alone gives the index.
Hashed ==
    ~ listen.perfMonitor /\ ~ listen.roundRobin =>
        \A c \in Conns : given[c] # -1 => given[c] = Fingerprint[c] % N

\* Connections given so far by slot: the slots up to workerIndex are one ahead.
Given(i) == {c \in Conns : given[c] = i}

Ahead(m) ==
    \A i \in Slots : Cardinality(Given(i)) = IF i <= workerIndex THEN m + 1 ELSE m

Rotates == ~ listen.perfMonitor /\ listen.roundRobin => \E m \in Nat : Ahead(m)

\* A connection that was given an index is no longer new.
Fresh == \A c \in Conns : fate[c] = "new" => given[c] = -1

IInv ==
    /\ TypeOK /\ Forked /\ Paid /\ Selected /\ Hashed /\ Rotates /\ Fresh
    /\ OneSlotEach /\ StrandedByRespawn /\ OneOwner

-----------------------------------------------------------------------------
\* Facts the steps share.

\* The remainder counts up and starts again.
LEMMA NextIndexIs ==
  ASSUME NEW k \in -1 .. N - 1
  PROVE  (k + 1) % N = IF k = N - 1 THEN 0 ELSE k + 1
<1>1. k + 1 \in 0 .. N
  BY ClusterAssumption
<1> QED
  BY ClusterAssumption

LEMMA RemainderIs ==
  ASSUME NEW k \in Nat
  PROVE  k % N \in 0 .. N - 1
BY ClusterAssumption

\* The shares of the slots change only when a connection is given one.
LEMMA SharesKept ==
  ASSUME IInv, UNCHANGED <<listen, workerIndex, given>>
  PROVE  Rotates'
<1>1. \A m : Ahead(m) => Ahead(m)'
  BY DEF Ahead, Given
<1> QED
  BY <1>1 DEF IInv, Rotates

LEMMA FallingFinite ==
  IsFiniteSet(Falling) /\ Cardinality(Falling) \in Nat
<1>1. IsFiniteSet(Ids)
  BY FS_Interval, ClusterAssumption DEF Ids
<1>2. IsFiniteSet(Falling)
  BY <1>1, FS_Subset DEF Falling
<1> QED
  BY <1>2, FS_CardinalityType

\* A worker that begins to fall, or has been respawned.
LEMMA OneMoreFalls ==
  ASSUME NEW w, w \notin Falling, Falling' = Falling \cup {w}
  PROVE  Cardinality(Falling') = Cardinality(Falling) + 1
BY FS_AddElement, FallingFinite

LEMMA OneLessFalls ==
  ASSUME NEW w, w \in Falling, Falling' = Falling \ {w}
  PROVE  Cardinality(Falling') = Cardinality(Falling) - 1
BY FS_RemoveElement, FallingFinite

-----------------------------------------------------------------------------
\* One lemma for each step, in it one step for each part of the invariant.

LEMMA NothingForked ==
  ASSUME IInv, forks = 0
  PROVE  exitEvents = {} /\ doomed = {}
<1>1. ASSUME NEW w \in Ids, NEW clean \in BOOLEAN, <<w, clean>> \in exitEvents
      PROVE  FALSE
  <2>1. proc[w] \in {"died", "exited"}
    BY <1>1 DEF IInv, Forked, Ended
  <2>2. proc[w] = "none"
    BY DEF IInv, Forked, Ids
  <2> QED
    BY <2>1, <2>2
<1>2. \A w \in Ids : w \notin doomed
  BY DEF IInv, Forked, Ids
<1> QED
  BY <1>1, <1>2 DEF IInv, TypeOK

LEMMA ListenKeeps ==
  ASSUME IInv, Listen
  PROVE  IInv'
<1> USE ClusterAssumption DEF IInv, Listen, masterVars, routeVars, eventVars, workerVars, connVars
<1>1. TypeOK'
  <2>1. inbox' \in [Ids -> Seq({"bootstrap"} \cup Conns)]
    BY DEF TypeOK
  <2> QED
    BY DEF TypeOK
<1>2. Forked'
  BY DEF Forked
<1>3. Paid'
  BY DEF Paid, Falling, Respawns, Alive
<1>4. Selected'
  BY DEF Selected
<1>5. Hashed'
  BY DEF Hashed
<1>6. Rotates'
  BY SharesKept
<1>7. Fresh'
  BY DEF Fresh
<1>8. OneSlotEach'
  BY DEF OneSlotEach, Alive
<1>9. StrandedByRespawn'
  BY DEF StrandedByRespawn
<1>10. OneOwner'
  BY DEF OneOwner
<1> QED
  BY <1>1, <1>2, <1>3, <1>4, <1>5, <1>6, <1>7, <1>8, <1>9, <1>10

LEMMA InitKeeps ==
  ASSUME IInv, InitWorkers
  PROVE  IInv'
<1> USE ClusterAssumption DEF IInv, InitWorkers, masterVars, routeVars, eventVars, workerVars, connVars
<1>1. TypeOK'
  <2>1. slot' \in [Slots -> 0 .. N + MaxFailures]
    BY DEF Slots
  <2>2. workers' \in SUBSET Ids /\ forks' \in 0 .. N + MaxFailures
    BY DEF Ids
  <2>3. proc' \in [Ids -> {"none", "starting", "online", "died", "exited"}]
    OBVIOUS
  <2> QED
    BY <2>1, <2>2 DEF TypeOK
<1>2. Forked'
  <2>1. exitEvents = {} /\ doomed = {}
    BY NothingForked
  <2> QED
    BY <2>1 DEF Forked, Slots, Ids
<1>3. Paid'
  <2>1. exitEvents = {} /\ doomed = {}
    BY NothingForked
  <2>2. Falling' = {}
    BY <2>1 DEF Falling
  <2>3. Cardinality(Falling') = 0
    BY <2>2, FS_EmptySet
  <2> QED
    BY <2>3 DEF TypeOK, Paid, Respawns
<1>4. Selected'
  BY DEF TypeOK, Selected, Forked, Ids
<1>5. Hashed'
  BY DEF Hashed
<1>6. Rotates'
  BY SharesKept
<1>7. Fresh'
  BY DEF Fresh
<1>8. OneSlotEach'
  <2>1. exitEvents = {}
    BY NothingForked
  <2>2. \A w \in Ids : Alive(w)' => w - 1 \in Slots /\ slot'[w - 1] = w
    BY DEF Alive, Slots, Ids
  <2>3. \A i, j \in Slots : slot'[i] = slot'[j] => i = j
    BY DEF Slots
  <2> QED
    BY <2>1, <2>2, <2>3 DEF OneSlotEach
<1>9. StrandedByRespawn'
  BY DEF StrandedByRespawn
<1>10. OneOwner'
  BY DEF OneOwner
<1> QED
  BY <1>1, <1>2, <1>3, <1>4, <1>5, <1>6, <1>7, <1>8, <1>9, <1>10

LEMMA SelectKeeps ==
  ASSUME IInv, SelectFaster
  PROVE  IInv'
<1> USE ClusterAssumption DEF IInv, SelectFaster, masterVars, routeVars, eventVars, workerVars, connVars
<1>1. TypeOK'
  <2>1. nextWorkerId' \in {-1} \cup Ids
    BY DEF TypeOK, Filled, Ids
  <2> QED
    BY <2>1 DEF TypeOK
<1>2. Forked'
  BY DEF Forked
<1>3. Paid'
  BY DEF Paid, Falling, Respawns, Alive
<1>4. Selected'
  BY DEF Selected
<1>5. Hashed'
  BY DEF Hashed
<1>6. Rotates'
  BY SharesKept
<1>7. Fresh'
  BY DEF Fresh
<1>8. OneSlotEach'
  BY DEF OneSlotEach, Alive
<1>9. StrandedByRespawn'
  BY DEF StrandedByRespawn
<1>10. OneOwner'
  BY DEF OneOwner
<1> QED
  BY <1>1, <1>2, <1>3, <1>4, <1>5, <1>6, <1>7, <1>8, <1>9, <1>10

LEMMA OnlineKeeps ==
  ASSUME IInv, NEW w \in Ids, HandleOnline(w)
  PROVE  IInv'
<1> USE ClusterAssumption DEF IInv, HandleOnline, masterVars, routeVars, eventVars, workerVars, connVars
<1>1. TypeOK'
  <2>1. inbox' \in [Ids -> Seq({"bootstrap"} \cup Conns)]
    <3>1. \A v \in Ids : Append(inbox[v], "bootstrap") \in Seq({"bootstrap"} \cup Conns)
      BY DEF TypeOK
    <3> QED
      BY <3>1
  <2> QED
    BY DEF TypeOK
<1>2. Forked'
  BY DEF Forked
<1>3. Paid'
  BY DEF Paid, Falling, Respawns, Alive
<1>4. Selected'
  BY DEF Selected
<1>5. Hashed'
  BY DEF Hashed
<1>6. Rotates'
  BY SharesKept
<1>7. Fresh'
  BY DEF Fresh
<1>8. OneSlotEach'
  BY DEF OneSlotEach, Alive
<1>9. StrandedByRespawn'
  BY DEF StrandedByRespawn
<1>10. OneOwner'
  <2> SUFFICES ASSUME NEW v \in Ids, NEW i \in DOMAIN inbox'[v], inbox'[v][i] \in Conns
               PROVE  /\ fate[inbox'[v][i]] = "sent" /\ target[inbox'[v][i]] = v
                      /\ \A j \in DOMAIN inbox'[v] : inbox'[v][j] = inbox'[v][i] => j = i
    BY DEF OneOwner
  <2>1. CASE inbox'[v] = inbox[v]
    BY DEF OneOwner
  <2>2. CASE inbox'[v] = Append(inbox[v], "bootstrap")
    <3>1. inbox[v] \in Seq({"bootstrap"} \cup Conns)
      BY DEF TypeOK
    <3>2. /\ i \in DOMAIN inbox[v] /\ inbox'[v][i] = inbox[v][i]
          /\ \A j \in DOMAIN inbox'[v] :
                inbox'[v][j] \in Conns => j \in DOMAIN inbox[v] /\ inbox'[v][j] = inbox[v][j]
      OBVIOUS
    <3> QED
      BY DEF OneOwner
  <2> QED
    BY <2>1, <2>2
<1> QED
  BY <1>1, <1>2, <1>3, <1>4, <1>5, <1>6, <1>7, <1>8, <1>9, <1>10

\* The event of a clean exit.
LEMMA CleanHandledKeeps ==
  ASSUME IInv, NEW w \in Ids, HandleExit(w, TRUE)
  PROVE  IInv'
<1> USE ClusterAssumption DEF IInv, HandleExit, masterVars, routeVars, eventVars, workerVars, connVars
<1>1. TypeOK'
  <2>1. inbox' \in [Ids -> Seq({"bootstrap"} \cup Conns)]
    BY DEF TypeOK
  <2> QED
    BY DEF TypeOK
<1>2. Forked'
  <2>1. \A u \in Ids, c \in BOOLEAN : <<u, c>> \in exitEvents' => <<u, c>> \in exitEvents
    OBVIOUS
  <2> QED
    BY DEF Forked
<1>3. Paid'
  <2>1. Falling' = Falling
    BY DEF Falling, Alive
  <2> QED
    BY <2>1 DEF Paid, Respawns
<1>4. Selected'
  BY DEF Selected
<1>5. Hashed'
  BY DEF Hashed
<1>6. Rotates'
  BY SharesKept
<1>7. Fresh'
  BY DEF Fresh
<1>8. OneSlotEach'
  BY DEF OneSlotEach, Alive
<1>9. StrandedByRespawn'
  BY DEF StrandedByRespawn
<1>10. OneOwner'
  BY DEF OneOwner
<1> QED
  BY <1>1, <1>2, <1>3, <1>4, <1>5, <1>6, <1>7, <1>8, <1>9, <1>10

\* The event of another: what the master finds and does.
Respawning(w) ==
    /\ <<w, FALSE>> \in exitEvents
    /\ w \in Falling /\ proc[w] \in {"died", "exited"} /\ w <= forks
    /\ forks >= N /\ forks + 1 \in Ids /\ proc[forks + 1] = "none"
    /\ forks + 1 \notin doomed
    /\ \A clean \in BOOLEAN : <<forks + 1, clean>> \notin exitEvents
    /\ exitEvents' = exitEvents \ {<<w, FALSE>>}
    /\ forks' = forks + 1
    /\ slot' = Respawned(w, forks + 1)
    /\ workers' = (workers \ {w}) \cup {forks + 1}
    /\ proc' = [proc EXCEPT ![forks + 1] = "starting"]
    /\ UNCHANGED <<listen, listening, routeVars, onlineEvents, boot, doomed, failures,
                   inbox, connVars>>

\* There was a failure to pay for the respawn.
LEMMA RespawnAffordable ==
  ASSUME IInv, NEW w \in Ids, HandleExit(w, FALSE)
  PROVE  Respawning(w)
<1> USE ClusterAssumption
<1>1. w \in Falling /\ proc[w] \in {"died", "exited"}
  BY DEF HandleExit, Falling, IInv, Forked, Ended
<1>2. w <= forks /\ forks >= N
  <2>1. w \in Nat /\ w >= 1 /\ forks \in Nat /\ N \in Nat
    BY DEF IInv, TypeOK, Ids
  <2>2. (forks = 0 \/ forks >= N) /\ ~ (w > forks)
    BY <1>1 DEF IInv, Forked
  <2> QED
    BY <2>1, <2>2
<1>3. Cardinality(Falling) # 0
  BY <1>1, FallingFinite, FS_EmptySet
<1>4. forks + 1 \in Ids
  <2>1. forks - N + 1 <= failures
    BY <1>3, FallingFinite DEF IInv, Paid, Respawns, TypeOK
  <2> QED
    BY <2>1 DEF IInv, TypeOK, Ids
<1>5. proc[forks + 1] = "none" /\ forks + 1 \notin doomed
  BY <1>4 DEF IInv, TypeOK, Forked
<1>6. \A clean \in BOOLEAN : <<forks + 1, clean>> \notin exitEvents
  BY <1>4, <1>5 DEF IInv, Forked, Ended
<1> QED
  BY <1>1, <1>2, <1>4, <1>5, <1>6 DEF HandleExit, Respawning

LEMMA RespawnKeeps ==
  ASSUME IInv, NEW w \in Ids, HandleExit(w, FALSE)
  PROVE  IInv'
<1> USE ClusterAssumption DEF IInv, masterVars, routeVars, eventVars, workerVars, connVars
<1>0. Respawning(w)
  BY RespawnAffordable
<1> USE <1>0 DEF Respawning
<1>1. TypeOK'
  <2>1. forks' \in 0 .. N + MaxFailures /\ workers' \in SUBSET Ids
    BY DEF TypeOK, Ids
  <2>2. slot' \in [Slots -> 0 .. N + MaxFailures]
    BY DEF TypeOK, Ids, Respawned
  <2>3. proc' \in [Ids -> {"none", "starting", "online", "died", "exited"}]
    BY DEF TypeOK
  <2> QED
    BY <2>1, <2>2 DEF TypeOK
<1>2. Forked'
  <2>1. forks' >= N /\ forks' = forks + 1
    BY DEF TypeOK
  <2>2. \A i \in Slots : slot'[i] <= forks'
    BY DEF TypeOK, Forked, Respawned
  <2>3. \A u \in Ids : u > forks' => proc'[u] = "none"
    BY DEF TypeOK, Forked, Ids
  <2>4. \A u \in doomed' : u <= forks'
    BY DEF TypeOK, Forked, Ids
  <2>5. \A u \in Ids, clean \in BOOLEAN :
           <<u, clean>> \in exitEvents' => proc'[u] = Ended(clean) /\ <<u, ~ clean>> \notin exitEvents'
    BY DEF TypeOK, Forked
  <2> QED
    BY <2>1, <2>2, <2>3, <2>4, <2>5 DEF Forked
<1>3. Paid'
  <2>1. Falling' = Falling \ {w}
    BY DEF TypeOK, Falling, Alive
  <2>2. Cardinality(Falling') = Cardinality(Falling) - 1
    BY <2>1, OneLessFalls
  <2>3. Respawns' = Respawns + 1
    BY DEF Respawns, TypeOK
  <2>4. Respawns \in Int
    BY DEF Respawns, TypeOK
  <2> QED
    BY <2>2, <2>3, <2>4, FallingFinite DEF Paid
<1>4. Selected'
  <2>1. forks' > N
    BY DEF TypeOK
  <2> QED
    BY <2>1 DEF Selected
<1>5. Hashed'
  BY DEF Hashed
<1>6. Rotates'
  BY SharesKept
<1>7. Fresh'
  BY DEF Fresh
<1>8. OneSlotEach'
  <2> DEFINE v == forks + 1
  <2>1. \A i \in Slots : slot[i] # v
    BY DEF TypeOK, Forked
  <2>2. \A i, j \in Slots : slot'[i] = slot'[j] /\ slot'[i] # 0 => i = j
    BY <2>1 DEF OneSlotEach, Respawned, Ids
  <2>3. PICK k \in Slots : slot[k] = w
    BY DEF OneSlotEach
  <2>4. slot'[k] = v
    BY <2>3 DEF Respawned
  <2>5. ASSUME NEW u \in Ids \ {v},
               Alive(u)' \/ \E clean \in BOOLEAN : <<u, clean>> \in exitEvents'
        PROVE  \E i \in Slots : slot'[i] = u
    <3>1. u # w
      <4>1. \A clean \in BOOLEAN : <<w, clean>> \notin exitEvents'
        BY DEF Forked
      <4> QED
        BY <2>5, <4>1 DEF Alive, TypeOK
    <3>2. \E i \in Slots : slot[i] = u
      BY <2>5 DEF Alive, TypeOK, OneSlotEach
    <3> QED
      BY <3>1, <3>2 DEF Respawned
  <2> QED
    BY <2>2, <2>4, <2>5 DEF OneSlotEach
<1>9. StrandedByRespawn'
  BY DEF TypeOK, StrandedByRespawn
<1>10. OneOwner'
  BY DEF OneOwner
<1> QED
  BY <1>1, <1>2, <1>3, <1>4, <1>5, <1>6, <1>7, <1>8, <1>9, <1>10

LEMMA ComeOnlineKeeps ==
  ASSUME IInv, NEW w \in Ids, ComeOnline(w)
  PROVE  IInv'
<1> USE ClusterAssumption DEF IInv, ComeOnline, masterVars, routeVars, eventVars, workerVars, connVars
<1>1. TypeOK'
  <2>1. inbox' \in [Ids -> Seq({"bootstrap"} \cup Conns)]
    BY DEF TypeOK
  <2> QED
    BY DEF TypeOK
<1>2. Forked'
  BY DEF Forked, Ended
<1>3. Paid'
  BY DEF TypeOK, Paid, Falling, Respawns, Alive
<1>4. Selected'
  BY DEF Selected
<1>5. Hashed'
  BY DEF Hashed
<1>6. Rotates'
  BY SharesKept
<1>7. Fresh'
  BY DEF Fresh
<1>8. OneSlotEach'
  BY DEF OneSlotEach, Alive
<1>9. StrandedByRespawn'
  BY DEF StrandedByRespawn
<1>10. OneOwner'
  BY DEF OneOwner
<1> QED
  BY <1>1, <1>2, <1>3, <1>4, <1>5, <1>6, <1>7, <1>8, <1>9, <1>10

LEMMA BootstrapKeeps ==
  ASSUME IInv, NEW w \in Ids, ReceiveBootstrap(w)
  PROVE  IInv'
<1> USE ClusterAssumption DEF IInv, ReceiveBootstrap, ClusterStarted, masterVars, routeVars, eventVars, workerVars, connVars
<1>1. TypeOK'
  <2>1. Tail(inbox[w]) \in Seq({"bootstrap"} \cup Conns)
    BY DEF TypeOK
  <2>2. inbox' \in [Ids -> Seq({"bootstrap"} \cup Conns)]
    BY DEF TypeOK
  <2> QED
    BY <2>2 DEF TypeOK
<1>2. Forked'
  BY DEF Forked
<1>3. Paid'
  BY DEF Paid, Falling, Respawns, Alive
<1>4. Selected'
  BY DEF Selected
<1>5. Hashed'
  BY DEF Hashed
<1>6. Rotates'
  BY SharesKept
<1>7. Fresh'
  BY DEF Fresh
<1>8. OneSlotEach'
  BY DEF OneSlotEach, Alive
<1>9. StrandedByRespawn'
  BY DEF StrandedByRespawn
<1>10. OneOwner'
  <2>1. /\ inbox \in [Ids -> Seq({"bootstrap"} \cup Conns)] /\ inbox[w] # <<>>
        /\ inbox' = [inbox EXCEPT ![w] = Tail(@)]
        /\ fate' = fate /\ target' = target
    BY DEF TypeOK
  <2>2. \A v \in Ids \ {w} : inbox'[v] = inbox[v]
    BY <2>1
  <2>3. \A i \in DOMAIN inbox'[w] : i + 1 \in DOMAIN inbox[w] /\ inbox'[w][i] = inbox[w][i + 1]
    BY <2>1
  <2>4. ASSUME NEW v \in Ids, NEW i \in DOMAIN inbox'[v], inbox'[v][i] \in Conns
        PROVE  LET c == inbox'[v][i] IN
               /\ fate[c] = "sent" /\ target[c] = v
               /\ \A j \in DOMAIN inbox'[v] : inbox'[v][j] = c => j = i
    <3>1. CASE v = w
      <4>1. \A j \in DOMAIN inbox'[w] : j \in Nat
        BY <2>1
      <4> QED
        BY <2>3, <2>4, <3>1, <4>1 DEF OneOwner
    <3>2. CASE v # w
      BY <2>2, <2>4, <3>2 DEF OneOwner
    <3> QED
      BY <3>1, <3>2
  <2> QED
    BY <2>1, <2>4 DEF OneOwner
<1> QED
  BY <1>1, <1>2, <1>3, <1>4, <1>5, <1>6, <1>7, <1>8, <1>9, <1>10

LEMMA BootDoneKeeps ==
  ASSUME IInv, NEW w \in Ids, BootDone(w)
  PROVE  IInv'
<1> USE ClusterAssumption DEF IInv, BootDone, masterVars, routeVars, eventVars, workerVars, connVars
<1>1. TypeOK'
  <2>1. inbox' \in [Ids -> Seq({"bootstrap"} \cup Conns)]
    BY DEF TypeOK
  <2> QED
    BY DEF TypeOK
<1>2. Forked'
  BY DEF Forked
<1>3. Paid'
  BY DEF Paid, Falling, Respawns, Alive
<1>4. Selected'
  BY DEF Selected
<1>5. Hashed'
  BY DEF Hashed
<1>6. Rotates'
  BY SharesKept
<1>7. Fresh'
  BY DEF Fresh
<1>8. OneSlotEach'
  BY DEF OneSlotEach, Alive
<1>9. StrandedByRespawn'
  BY DEF StrandedByRespawn
<1>10. OneOwner'
  BY DEF OneOwner
<1> QED
  BY <1>1, <1>2, <1>3, <1>4, <1>5, <1>6, <1>7, <1>8, <1>9, <1>10

LEMMA StutterKeeps ==
  ASSUME IInv, UNCHANGED vars
  PROVE  IInv'
<1> USE ClusterAssumption DEF IInv, vars, masterVars, routeVars, eventVars, workerVars, connVars
<1>1. TypeOK'
  <2>1. inbox' \in [Ids -> Seq({"bootstrap"} \cup Conns)]
    BY DEF TypeOK
  <2> QED
    BY DEF TypeOK
<1>2. Forked'
  BY DEF Forked
<1>3. Paid'
  BY DEF Paid, Falling, Respawns, Alive
<1>4. Selected'
  BY DEF Selected
<1>5. Hashed'
  BY DEF Hashed
<1>6. Rotates'
  BY SharesKept
<1>7. Fresh'
  BY DEF Fresh
<1>8. OneSlotEach'
  BY DEF OneSlotEach, Alive
<1>9. StrandedByRespawn'
  BY DEF StrandedByRespawn
<1>10. OneOwner'
  BY DEF OneOwner
<1> QED
  BY <1>1, <1>2, <1>3, <1>4, <1>5, <1>6, <1>7, <1>8, <1>9, <1>10

LEMMA UncaughtErrorKeeps ==
  ASSUME IInv, NEW w \in Ids, UncaughtError(w)
  PROVE  IInv'
<1> USE ClusterAssumption DEF IInv, UncaughtError, masterVars, routeVars, eventVars, workerVars, connVars
<1>1. TypeOK'
  <2>1. inbox' \in [Ids -> Seq({"bootstrap"} \cup Conns)]
    BY DEF TypeOK
  <2> QED
    BY DEF TypeOK, Fates
<1>2. Forked'
  <2>1. w <= forks
    BY DEF TypeOK, Forked, Ids
  <2> QED
    BY <2>1 DEF Forked
<1>3. Paid'
  <2>1. w \notin Falling
    BY DEF Falling, Forked, Ended
  <2>2. Falling' = Falling \cup {w}
    BY DEF Falling, Alive
  <2>3. Cardinality(Falling') = Cardinality(Falling) + 1
    BY <2>1, <2>2, OneMoreFalls
  <2>4. Respawns' = Respawns /\ Respawns \in Int
    BY DEF Respawns, TypeOK
  <2> QED
    BY <2>3, <2>4, FallingFinite DEF Paid, TypeOK
<1>4. Selected'
  BY DEF Selected
<1>5. Hashed'
  BY DEF Hashed
<1>6. Rotates'
  BY SharesKept
<1>7. Fresh'
  BY DEF Fresh
<1>8. OneSlotEach'
  BY DEF OneSlotEach, Alive
<1>9. StrandedByRespawn'
  BY DEF StrandedByRespawn
<1>10. OneOwner'
  BY DEF OneOwner
<1> QED
  BY <1>1, <1>2, <1>3, <1>4, <1>5, <1>6, <1>7, <1>8, <1>9, <1>10

LEMMA BootFailsKeeps ==
  ASSUME IInv, NEW w \in Ids, BootFails(w)
  PROVE  IInv'
<1> USE ClusterAssumption DEF IInv, BootFails, masterVars, routeVars, eventVars, workerVars, connVars
<1>1. TypeOK'
  <2>1. inbox' \in [Ids -> Seq({"bootstrap"} \cup Conns)]
    BY DEF TypeOK
  <2> QED
    BY DEF TypeOK
<1>2. Forked'
  <2>1. w <= forks
    BY DEF TypeOK, Forked, Ids
  <2> QED
    BY <2>1 DEF Forked
<1>3. Paid'
  <2>1. CASE w \in doomed
    <3>1. Falling' = Falling
      BY <2>1 DEF Falling, Alive
    <3>2. Respawns' = Respawns
      BY DEF Respawns
    <3> QED
      BY <2>1, <3>1, <3>2 DEF Paid
  <2>2. CASE w \notin doomed
    <3>1. w \notin Falling
      BY <2>2 DEF Falling, Forked, Ended
    <3>2. Falling' = Falling \cup {w}
      BY DEF Falling, Alive
    <3>3. Cardinality(Falling') = Cardinality(Falling) + 1
      BY <3>1, <3>2, OneMoreFalls
    <3>4. Respawns' = Respawns /\ Respawns \in Int
      BY DEF Respawns, TypeOK
    <3> QED
      BY <3>3, <3>4, FallingFinite, <2>2 DEF Paid, TypeOK
  <2> QED
    BY <2>1, <2>2
<1>4. Selected'
  BY DEF Selected
<1>5. Hashed'
  BY DEF Hashed
<1>6. Rotates'
  BY SharesKept
<1>7. Fresh'
  BY DEF Fresh
<1>8. OneSlotEach'
  BY DEF OneSlotEach, Alive
<1>9. StrandedByRespawn'
  BY DEF StrandedByRespawn
<1>10. OneOwner'
  BY DEF OneOwner
<1> QED
  BY <1>1, <1>2, <1>3, <1>4, <1>5, <1>6, <1>7, <1>8, <1>9, <1>10

\* The death of a process, but for what it costs.
LEMMA DieKeeps ==
  ASSUME IInv, NEW w \in Ids, NEW clean \in BOOLEAN, Die(w, clean), failures' \in 0 .. MaxFailures
  PROVE  /\ TypeOK' /\ Forked' /\ Selected' /\ Hashed' /\ Rotates' /\ Fresh'
         /\ OneSlotEach' /\ StrandedByRespawn' /\ OneOwner'
<1> USE ClusterAssumption DEF IInv, Die, Alive, masterVars, routeVars
<1>1. TypeOK'
  <2>1. inbox' \in [Ids -> Seq({"bootstrap"} \cup Conns)]
    BY DEF TypeOK
  <2>2. exitEvents' \in SUBSET (Ids \X BOOLEAN)
    <3>1. <<w, clean>> \in Ids \X BOOLEAN
      OBVIOUS
    <3> QED
      BY DEF TypeOK
  <2>3. fate' \in [Conns -> Fates]
    BY DEF TypeOK, Fates
  <2> QED
    BY <2>3 DEF TypeOK, Ended
<1>2. Forked'
  <2>1. w <= forks
    <3>1. ~ (w > forks)
      BY DEF Forked
    <3> QED
      BY <3>1 DEF TypeOK, Ids
  <2>2. \A u \in Ids, c \in BOOLEAN :
           <<u, c>> \in exitEvents' => proc'[u] = Ended(c) /\ <<u, ~ c>> \notin exitEvents'
    BY DEF TypeOK, Forked, Ended
  <2>3. \A u \in Ids : u > forks => proc'[u] = "none"
    BY DEF Forked
  <2> QED
    BY <2>2 DEF Forked
<1>3. Selected'
  BY DEF Selected
<1>4. Hashed'
  BY DEF Hashed
<1>5. Rotates'
  BY SharesKept
<1>6. Fresh'
  BY DEF Fresh
<1>7. OneSlotEach'
  <2>1. \A i \in Slots : slot'[i] = slot[i]
    OBVIOUS
  <2>2. \A u \in Ids : Alive(u)' => Alive(u)
    OBVIOUS
  <2>3. \A u \in Ids, c \in BOOLEAN :
           <<u, c>> \in exitEvents' => <<u, c>> \in exitEvents \/ u = w
    OBVIOUS
  <2>4. \A i, j \in Slots : slot'[i] = slot'[j] /\ slot'[i] # 0 => i = j
    BY DEF OneSlotEach
  <2>5. ASSUME NEW u \in Ids, Alive(u)' \/ (\E c \in BOOLEAN : <<u, c>> \in exitEvents')
        PROVE  \E i \in Slots : slot'[i] = u
    <3>1. Alive(u) \/ (\E c \in BOOLEAN : <<u, c>> \in exitEvents)
      BY <2>2, <2>3, <2>5
    <3> QED
      BY <3>1 DEF OneSlotEach
  <2> QED
    BY <2>4, <2>5 DEF OneSlotEach
<1>8. StrandedByRespawn'
  <2>1. \A c \in Conns : fate'[c] = "stranded" => fate[c] = "stranded"
    OBVIOUS
  <2> QED
    BY DEF StrandedByRespawn
<1>9. OneOwner'
  <2> SUFFICES ASSUME NEW v \in Ids, NEW i \in DOMAIN inbox'[v], inbox'[v][i] \in Conns
               PROVE  /\ fate'[inbox'[v][i]] = "sent" /\ target'[inbox'[v][i]] = v
                      /\ \A j \in DOMAIN inbox'[v] : inbox'[v][j] = inbox'[v][i] => j = i
    BY DEF OneOwner
  <2> DEFINE c == inbox[v][i]
  <2>1. v # w /\ inbox'[v] = inbox[v]
    BY DEF TypeOK
  <2>2. /\ fate[c] = "sent" /\ target[c] = v
        /\ \A j \in DOMAIN inbox[v] : inbox[v][j] = c => j = i
    BY DEF OneOwner
  <2>3. fate'[c] = "sent"
    BY <2>1, <2>2
  <2> QED
    BY <2>1, <2>2
<1> QED
  BY <1>1, <1>2, <1>3, <1>4, <1>5, <1>6, <1>7, <1>8, <1>9

LEMMA CrashKeeps ==
  ASSUME IInv, NEW w \in Ids, Crash(w)
  PROVE  IInv'
<1> USE DEF IInv, Crash
<1>1. failures' \in 0 .. MaxFailures
  BY ClusterAssumption DEF TypeOK
<1>2. Paid'
  <2>1. w \notin Falling
    BY DEF Die, Falling, Forked, Alive, Ended
  <2>2. Falling' = Falling \cup {w}
    BY DEF Die, TypeOK, Falling, Alive
  <2>3. Cardinality(Falling') = Cardinality(Falling) + 1
    BY <2>1, <2>2, OneMoreFalls
  <2>4. Respawns' = Respawns /\ Respawns \in Int
    BY ClusterAssumption DEF Die, masterVars, Respawns, TypeOK
  <2> QED
    BY <2>3, <2>4, FallingFinite DEF Paid, TypeOK
<1> QED
  BY <1>1, <1>2, DieKeeps

LEMMA DoomedExitKeeps ==
  ASSUME IInv, NEW w \in Ids, DoomedExit(w)
  PROVE  IInv'
<1> USE DEF IInv, DoomedExit
<1>1. failures' \in 0 .. MaxFailures
  BY DEF TypeOK
<1>2. Paid'
  <2>1. Falling' = Falling
    BY DEF Die, TypeOK, Falling, Alive
  <2>2. Respawns' = Respawns
    BY DEF Die, masterVars, Respawns
  <2> QED
    BY <2>1, <2>2 DEF Paid
<1> QED
  BY <1>1, <1>2, DieKeeps

LEMMA CleanExitKeeps ==
  ASSUME IInv, NEW w \in Ids, CleanExit(w)
  PROVE  IInv'
<1> USE DEF IInv, CleanExit
<1>1. failures' \in 0 .. MaxFailures
  BY ClusterAssumption DEF TypeOK
<1>2. Paid'
  <2>1. Respawns' = Respawns /\ Respawns \in Int /\ failures \in Nat
    BY ClusterAssumption DEF Die, masterVars, Respawns, TypeOK
  <2>2. CASE w \in doomed
    <3>1. w \in Falling /\ Falling' = Falling \ {w}
      BY <2>2 DEF Die, TypeOK, Falling, Alive, Forked, Ended
    <3>2. Cardinality(Falling') = Cardinality(Falling) - 1
      BY <3>1, OneLessFalls
    <3> QED
      BY <2>1, <3>2, FallingFinite DEF Paid
  <2>3. CASE w \notin doomed
    <3>1. Falling' = Falling
      BY <2>3 DEF Die, TypeOK, Falling, Alive
    <3> QED
      BY <2>1, <3>1, FallingFinite DEF Paid
  <2> QED
    BY <2>2, <2>3
<1> QED
  BY <1>1, <1>2, DieKeeps

LEMMA ConnectionKeeps ==
  ASSUME IInv, NEW w \in Ids, ReceiveConnection(w)
  PROVE  IInv'
<1> USE ClusterAssumption DEF IInv, ReceiveConnection, masterVars, routeVars, eventVars, workerVars, connVars
<1>1. TypeOK'
  <2>1. Tail(inbox[w]) \in Seq({"bootstrap"} \cup Conns)
    BY DEF TypeOK
  <2>2. inbox' \in [Ids -> Seq({"bootstrap"} \cup Conns)]
    BY DEF TypeOK
  <2> QED
    BY <2>2 DEF TypeOK, Fates
<1>2. Forked'
  BY DEF Forked
<1>3. Paid'
  BY DEF Paid, Falling, Respawns, Alive
<1>4. Selected'
  BY DEF Selected
<1>5. Hashed'
  BY DEF Hashed
<1>6. Rotates'
  BY SharesKept
<1>7. Fresh'
  BY DEF Fresh
<1>8. OneSlotEach'
  BY DEF OneSlotEach, Alive
<1>9. StrandedByRespawn'
  BY DEF StrandedByRespawn
<1>10. OneOwner'
  <2> SUFFICES ASSUME NEW v \in Ids, NEW i \in DOMAIN inbox'[v], inbox'[v][i] \in Conns
               PROVE  /\ fate'[inbox'[v][i]] = "sent" /\ target'[inbox'[v][i]] = v
                      /\ \A j \in DOMAIN inbox'[v] : inbox'[v][j] = inbox'[v][i] => j = i
    BY DEF OneOwner
  <2> DEFINE c == Head(inbox[w])
  <2>1. inbox[w] \in Seq({"bootstrap"} \cup Conns) /\ inbox[w] # <<>>
    BY DEF TypeOK
  <2>2. 1 \in DOMAIN inbox[w] /\ inbox[w][1] = c /\ c \in Conns
    BY <2>1
  <2>3. /\ target[c] = w
        /\ \A j \in DOMAIN inbox[w] : inbox[w][j] = c => j = 1
    BY <2>2 DEF OneOwner
  <2>4. \A d \in Conns : d # c => fate'[d] = fate[d]
    OBVIOUS
  <2>5. CASE v # w
    <3>1. inbox'[v] = inbox[v]
      BY <2>5
    <3>2. /\ fate[inbox[v][i]] = "sent" /\ target[inbox[v][i]] = v
          /\ \A j \in DOMAIN inbox[v] : inbox[v][j] = inbox[v][i] => j = i
      BY <3>1 DEF OneOwner
    <3> QED
      BY <2>3, <2>5, <3>2
  <2>6. CASE v = w
    <3>1. inbox'[w] = Tail(inbox[w])
      BY DEF TypeOK
    <3>2. \A j \in DOMAIN inbox'[w] :
             j \in Nat /\ j # 0 /\ j + 1 \in DOMAIN inbox[w] /\ inbox'[w][j] = inbox[w][j + 1]
      <4>1. /\ Tail(inbox[w]) \in Seq({"bootstrap"} \cup Conns)
            /\ Len(Tail(inbox[w])) = Len(inbox[w]) - 1
            /\ \A j \in 1 .. Len(Tail(inbox[w])) : Tail(inbox[w])[j] = inbox[w][j + 1]
        BY <2>1
      <4>2. DOMAIN Tail(inbox[w]) = 1 .. Len(inbox[w]) - 1 /\ DOMAIN inbox[w] = 1 .. Len(inbox[w])
        OBVIOUS
      <4>3. Len(inbox[w]) \in Nat
        OBVIOUS
      <4>4. DOMAIN inbox'[w] = 1 .. Len(Tail(inbox[w]))
        BY <3>1, <4>1, <4>2
      <4>5. \A j \in 1 .. Len(inbox[w]) - 1 : j \in Nat /\ j # 0 /\ j + 1 \in 1 .. Len(inbox[w])
        OBVIOUS
      <4> QED
        BY <3>1, <4>1, <4>2, <4>5
    <3>3. inbox'[w][i] # c
      BY <2>3, <2>6, <3>2
    <3>4. /\ fate[inbox'[w][i]] = "sent" /\ target[inbox'[w][i]] = w
          /\ \A j \in DOMAIN inbox'[w] : inbox'[w][j] = inbox'[w][i] => j + 1 = i + 1
      BY <2>6, <3>2 DEF OneOwner
    <3>5. fate'[inbox'[w][i]] = "sent"
      BY <2>6, <3>3, <3>4
    <3>6. \A j \in DOMAIN inbox'[w] : inbox'[w][j] = inbox'[w][i] => j = i
      BY <2>6, <3>2, <3>4
    <3> QED
      BY <2>6, <3>4, <3>5, <3>6
  <2> QED
    BY <2>5, <2>6
<1> QED
  BY <1>1, <1>2, <1>3, <1>4, <1>5, <1>6, <1>7, <1>8, <1>9, <1>10

\* What becomes of the connection.
LEMMA Destinies ==
  ASSUME IInv, NEW c \in Conns, Accept(c)
  PROVE  /\ \E f \in Fates : fate' = [fate EXCEPT ![c] = f]
         /\ \/ UNCHANGED <<inbox, target>>
            \/ \E k \in Slots : SendConnection(c, slot[k])
<1>1. CASE workerIndex' \in 0 .. ActiveLength - 1 /\ SendConnection(c, slot[workerIndex'])
  <2>1. workerIndex' \in Slots
    BY <1>1 DEF ActiveLength, Slots
  <2> QED
    BY <1>1, <2>1 DEF SendConnection, Fates
<1>2. CASE UNCHANGED <<inbox, target>>
  BY <1>2 DEF Accept, SendConnection, Fates
<1> QED
  BY <1>1, <1>2 DEF Accept

\* The index a connection is given.
LEMMA IndexGiven ==
  ASSUME IInv, NEW c \in Conns, Accept(c)
  PROVE  /\ workerIndex' \in -1 .. N - 1
         /\ workerIndex' = -1 => listen.perfMonitor /\ forks > N
         /\ ~ listen.perfMonitor =>
               workerIndex' = IF listen.roundRobin THEN (workerIndex + 1) % N
                              ELSE Fingerprint[c] % N
<1> USE ClusterAssumption DEF IInv
<1>1. workerIndex' = NextIndex(c)
  BY DEF Accept
<1>2. CASE nextWorkerId = -1
  <2>1. (workerIndex + 1) % N \in 0 .. N - 1 /\ Fingerprint[c] % N \in 0 .. N - 1
    <3>1. workerIndex \in -1 .. N - 1 /\ Fingerprint[c] \in Nat
      BY DEF TypeOK
    <3>2. (workerIndex + 1) % N \in 0 .. N - 1
      BY <3>1
    <3> QED
      BY <3>1
  <2> QED
    BY <1>1, <1>2, <2>1 DEF NextIndex
<1>3. CASE nextWorkerId # -1
  <2>1. listen.perfMonitor
    BY <1>3 DEF Selected
  <2>2. workerIndex' = FindIndex(nextWorkerId)
    BY <1>1, <1>3 DEF NextIndex, TypeOK, Ids
  <2>3. CASE \E i \in Slots : slot[i] = nextWorkerId
    <3>1. FindIndex(nextWorkerId) \in Slots
      BY <2>3 DEF FindIndex
    <3> QED
      BY <2>1, <2>2, <3>1 DEF Slots
  <2>4. CASE ~ \E i \in Slots : slot[i] = nextWorkerId
    <3>1. FindIndex(nextWorkerId) = -1
      BY <2>4 DEF FindIndex
    <3>2. forks > N
      BY <1>3, <2>4 DEF Selected
    <3> QED
      BY <2>1, <2>2, <3>1, <3>2
  <2> QED
    BY <2>3, <2>4
<1> QED
  BY <1>2, <1>3

LEMMA AcceptKeeps ==
  ASSUME IInv, NEW c \in Conns, Accept(c)
  PROVE  IInv'
<1> USE ClusterAssumption DEF IInv, Accept, masterVars, routeVars, eventVars, workerVars, connVars
<1>1. TypeOK'
  <2>1. workerIndex' \in -1 .. N - 1
    BY IndexGiven
  <2>2. given' \in [Conns -> -1 .. N - 1]
    BY <2>1 DEF TypeOK
  <2>3. fate' \in [Conns -> Fates]
    BY Destinies DEF TypeOK
  <2>4. CASE UNCHANGED <<inbox, target>>
    BY <2>1, <2>3, <2>4 DEF TypeOK
  <2>5. ASSUME NEW k \in Slots, SendConnection(c, slot[k])
        PROVE  TypeOK'
    <3>1. slot[k] \in 0 .. N + MaxFailures
      BY DEF TypeOK
    <3>2. target' \in [Conns -> 0 .. N + MaxFailures]
      BY <2>5 DEF SendConnection, TypeOK
    <3>3. \A v \in Ids : Append(inbox[v], c) \in Seq({"bootstrap"} \cup Conns)
      BY DEF TypeOK
    <3>4. inbox' \in [Ids -> Seq({"bootstrap"} \cup Conns)]
      <4>1. \/ inbox' = inbox
            \/ inbox' = [inbox EXCEPT ![slot[k]] = Append(inbox[slot[k]], c)]
        BY <2>5 DEF SendConnection
      <4>2. CASE slot[k] \in Ids
        BY <3>3, <4>1, <4>2 DEF TypeOK
      <4>3. CASE slot[k] \notin Ids
        BY <4>1, <4>3 DEF TypeOK
      <4> QED
        BY <4>2, <4>3
    <3> QED
      BY <2>1, <2>3, <3>2, <3>4 DEF TypeOK
  <2> QED
    BY <2>4, <2>5, Destinies
<1>2. Forked'
  BY DEF Forked
<1>3. Paid'
  BY DEF Paid, Falling, Respawns, Alive
<1>4. Selected'
  BY DEF Selected
<1>5. Hashed'
  <2>1. ASSUME ~ listen.perfMonitor, ~ listen.roundRobin
        PROVE  workerIndex' = Fingerprint[c] % N
    BY <2>1, IndexGiven
  <2> QED
    BY <2>1 DEF Hashed
<1>6. Rotates'
  <2> SUFFICES ASSUME ~ listen.perfMonitor, listen.roundRobin
               PROVE  \E m \in Nat : Ahead(m)'
    BY DEF Rotates
  <2>1. PICK m \in Nat : Ahead(m)
    BY DEF Rotates
  <2>2. workerIndex' = IF workerIndex = N - 1 THEN 0 ELSE workerIndex + 1
    BY IndexGiven, NextIndexIs DEF TypeOK
  <2>3. \A i \in Slots :
           Cardinality(Given(i)') = IF i = workerIndex' THEN Cardinality(Given(i)) + 1
                                    ELSE Cardinality(Given(i))
    <3>1. TAKE i \in Slots
    <3>2. IsFiniteSet(Given(i)) /\ c \notin Given(i)
      BY FS_Subset DEF Given, Fresh, Slots
    <3>3. Given(i)' = IF i = workerIndex' THEN Given(i) \cup {c} ELSE Given(i)
      <4>1. \A d \in Conns : given'[d] = IF d = c THEN workerIndex' ELSE given[d]
        BY DEF TypeOK
      <4>2. given[c] # i
        BY <3>2 DEF Given
      <4> QED
        BY <4>1, <4>2 DEF Given
    <3> QED
      BY <3>2, <3>3, FS_AddElement
  <2>4. CASE workerIndex = N - 1
    <3>1. Ahead(m + 1)'
      BY <2>1, <2>2, <2>3, <2>4 DEF Ahead, Slots
    <3> QED
      BY <3>1
  <2>5. CASE workerIndex # N - 1
    <3>1. workerIndex' = workerIndex + 1 /\ workerIndex \in Int
      BY <2>2, <2>5 DEF TypeOK
    <3>2. ASSUME NEW i \in Slots
          PROVE  Cardinality(Given(i)') = IF i <= workerIndex' THEN m + 1 ELSE m
      <4>1. i \in Int /\ Cardinality(Given(i)) = IF i <= workerIndex THEN m + 1 ELSE m
        BY <2>1 DEF Ahead, Slots
      <4>2. i <= workerIndex + 1 <=> i <= workerIndex \/ i = workerIndex + 1
        BY <3>1, <4>1
      <4>3. CASE i = workerIndex + 1
        BY <2>3, <3>1, <4>1
      <4>4. CASE i # workerIndex + 1
        BY <2>3, <3>1, <4>1
      <4> QED
        BY <4>3, <4>4
    <3>3. Ahead(m)'
      BY <3>2 DEF Ahead
    <3> QED
      BY <3>3
  <2> QED
    BY <2>4, <2>5
<1>7. Fresh'
  <2>1. fate'[c] # "new" /\ \A d \in Conns : d # c => fate'[d] = fate[d] /\ given'[d] = given[d]
    BY DEF TypeOK, SendConnection
  <2> QED
    BY <2>1 DEF Fresh
<1>8. OneSlotEach'
  BY DEF OneSlotEach, Alive
<1>9. StrandedByRespawn'
  <2>1. workerIndex' = -1 => listen.perfMonitor /\ forks > N
    BY IndexGiven
  <2>2. \A d \in Conns : fate'[d] = "stranded" => fate[d] = "stranded" \/ workerIndex' = -1
    BY DEF TypeOK, SendConnection
  <2> QED
    BY <2>1, <2>2 DEF StrandedByRespawn
<1>10. OneOwner'
  <2> SUFFICES ASSUME NEW v \in Ids, NEW i \in DOMAIN inbox'[v], inbox'[v][i] \in Conns
               PROVE  /\ fate'[inbox'[v][i]] = "sent" /\ target'[inbox'[v][i]] = v
                      /\ \A j \in DOMAIN inbox'[v] : inbox'[v][j] = inbox'[v][i] => j = i
    BY DEF OneOwner
  <2>1. \A u \in Ids : \A j \in DOMAIN inbox[u] : inbox[u][j] # c
    BY DEF OneOwner
  <2>2. \A d \in Conns : d # c => fate'[d] = fate[d] /\ target'[d] = target[d]
    BY DEF TypeOK, SendConnection
  <2>3. CASE inbox'[v] = inbox[v]
    <3>1. /\ fate[inbox[v][i]] = "sent" /\ target[inbox[v][i]] = v
          /\ \A j \in DOMAIN inbox[v] : inbox[v][j] = inbox[v][i] => j = i
      BY <2>3 DEF OneOwner
    <3> QED
      BY <2>2, <2>3, <3>1
  <2>4. CASE inbox'[v] # inbox[v]
    <3>1. inbox'[v] = Append(inbox[v], c) /\ fate'[c] = "sent" /\ target'[c] = v
      <4>1. PICK k \in Slots : SendConnection(c, slot[k])
        BY <2>4, Destinies
      <4>2. Alive(slot[k]) /\ slot[k] = v
        BY <2>4, <4>1 DEF SendConnection, TypeOK
      <4> QED
        BY <4>1, <4>2 DEF SendConnection, TypeOK
    <3>2. inbox[v] \in Seq({"bootstrap"} \cup Conns)
      BY DEF TypeOK
    <3>3. \A j \in DOMAIN inbox'[v] :
             \/ j \in DOMAIN inbox[v] /\ inbox'[v][j] = inbox[v][j]
             \/ j = Len(inbox[v]) + 1 /\ inbox'[v][j] = c
      BY <3>1
    <3>4. CASE i \in DOMAIN inbox[v] /\ inbox'[v][i] = inbox[v][i]
      <4>1. /\ fate[inbox[v][i]] = "sent" /\ target[inbox[v][i]] = v
            /\ \A j \in DOMAIN inbox[v] : inbox[v][j] = inbox[v][i] => j = i
        BY <3>4 DEF OneOwner
      <4> QED
        BY <2>2, <3>3, <3>4, <4>1
    <3>5. CASE i = Len(inbox[v]) + 1 /\ inbox'[v][i] = c
      BY <2>1, <3>1, <3>5
    <3> QED
      BY <3>3, <3>4, <3>5
  <2> QED
    BY <2>3, <2>4
<1> QED
  BY <1>1, <1>2, <1>3, <1>4, <1>5, <1>6, <1>7, <1>8, <1>9, <1>10

-----------------------------------------------------------------------------
LEMMA InitIInv == Init => IInv
<1> SUFFICES ASSUME Init PROVE IInv
  OBVIOUS
<1> USE ClusterAssumption DEF Init
<1>1. TypeOK
  <2>1. inbox \in [Ids -> Seq({"bootstrap"} \cup Conns)]
    <3>1. <<>> \in Seq({"bootstrap"} \cup Conns)
      OBVIOUS
    <3> QED
      OBVIOUS
  <2>2. /\ slot \in [Slots -> 0 .. N + MaxFailures] /\ forks \in 0 .. N + MaxFailures
        /\ workerIndex \in -1 .. N - 1 /\ nextWorkerId \in {-1} \cup Ids
        /\ given \in [Conns -> -1 .. N - 1] /\ target \in [Conns -> 0 .. N + MaxFailures]
    OBVIOUS
  <2>3. /\ proc \in [Ids -> {"none", "starting", "online", "died", "exited"}]
        /\ boot \in [Ids -> {"idle", "booting", "failed", "serving"}]
        /\ fate \in [Conns -> Fates]
    BY DEF Fates
  <2>4. listen \in Configs /\ listening \in BOOLEAN
    OBVIOUS
  <2>5. failures \in 0 .. MaxFailures
    OBVIOUS
  <2>6. /\ workers \in SUBSET Ids /\ onlineEvents \in SUBSET Ids /\ doomed \in SUBSET Ids
        /\ exitEvents \in SUBSET (Ids \X BOOLEAN)
    OBVIOUS
  <2> HIDE DEF Init
  <2> QED
    BY <2>1, <2>2, <2>3, <2>4, <2>5, <2>6 DEF TypeOK
<1>2. Forked
  BY DEF Forked
<1>3. Paid
  <2>1. Falling = {}
    BY DEF Falling
  <2> QED
    BY <2>1, FS_EmptySet DEF Paid, Respawns
<1>4. Selected /\ Hashed /\ Fresh
  BY DEF Selected, Hashed, Fresh
<1>5. Rotates
  <2>1. ASSUME NEW i \in Slots PROVE Cardinality(Given(i)) = 0
    <3>1. Given(i) = {}
      BY DEF Given, Slots
    <3> QED
      BY <3>1, FS_EmptySet
  <2>2. Ahead(0)
    BY <2>1 DEF Ahead, Slots
  <2> QED
    BY <2>2 DEF Rotates
<1>6. OneSlotEach /\ StrandedByRespawn
  BY DEF OneSlotEach, StrandedByRespawn, Alive
<1>7. OneOwner
  BY DEF OneOwner
<1> QED
  BY <1>1, <1>2, <1>3, <1>4, <1>5, <1>6, <1>7 DEF IInv

LEMMA NextIInv == IInv /\ [Next]_vars => IInv'
<1> SUFFICES ASSUME IInv, [Next]_vars PROVE IInv'
  OBVIOUS
<1>1. CASE Listen \/ InitWorkers \/ SelectFaster \/ \E c \in Conns : Accept(c)
  BY <1>1, ListenKeeps, InitKeeps, SelectKeeps, AcceptKeeps
<1>2. CASE \E w \in Ids : HandleOnline(w)
  BY <1>2, OnlineKeeps
<1>3. ASSUME NEW w \in Ids, NEW clean \in BOOLEAN, HandleExit(w, clean) PROVE IInv'
  <2>1. CASE clean = TRUE
    BY <1>3, <2>1, CleanHandledKeeps
  <2>2. CASE clean = FALSE
    BY <1>3, <2>2, RespawnKeeps
  <2> QED
    BY <2>1, <2>2
<1>4. ASSUME NEW w \in Ids, WorkerStep(w) PROVE IInv'
  BY <1>4, ComeOnlineKeeps, BootstrapKeeps, ConnectionKeeps, BootDoneKeeps,
     BootFailsKeeps, UncaughtErrorKeeps, CrashKeeps, DoomedExitKeeps, CleanExitKeeps
     DEF WorkerStep
<1>5. CASE UNCHANGED vars
  BY <1>5, StutterKeeps
<1> QED
  BY <1>1, <1>2, <1>3, <1>4, <1>5 DEF Next, MasterStep

LEMMA Inductive == Spec => []IInv
BY InitIInv, NextIInv, PTL DEF Spec

-----------------------------------------------------------------------------
(***************************************************************************)
(* Every variable keeps to its range: no index is beyond the last slot,    *)
(* and there are ids for all the respawns that the failures call for.      *)
(***************************************************************************)
THEOREM TypeCorrect == Spec => []TypeOK
<1>1. IInv => TypeOK
  BY DEF IInv
<1> QED
  BY <1>1, Inductive, PTL

(***************************************************************************)
(* Running workers and slots are one to one.                               *)
(***************************************************************************)
THEOREM SlotsAreWorkers == Spec => []OneSlotEach
<1>1. IInv => OneSlotEach
  BY DEF IInv
<1> QED
  BY <1>1, Inductive, PTL

(***************************************************************************)
(* Nothing but a respawn strands a connection.                             *)
(***************************************************************************)
THEOREM RespawnStrands == Spec => []StrandedByRespawn
<1>1. IInv => StrandedByRespawn
  BY DEF IInv
<1> QED
  BY <1>1, Inductive, PTL

(***************************************************************************)
(* No socket is handed to two processes, nor twice to one.                 *)
(***************************************************************************)
THEOREM SocketsHaveOneOwner == Spec => []OneOwner
<1>1. IInv => OneOwner
  BY DEF IInv
<1> QED
  BY <1>1, Inductive, PTL

(***************************************************************************)
(* Connections of one address go to one slot.                              *)
(***************************************************************************)
THEOREM AddressesStick == Spec => []Sticky
<1>1. IInv => Sticky
  BY DEF IInv, Hashed, Sticky
<1> QED
  BY <1>1, Inductive, PTL

(***************************************************************************)
(* Round robin is even.                                                    *)
(***************************************************************************)
THEOREM RoundRobinIsEven == Spec => []Balanced
<1>1. ASSUME IInv PROVE Balanced
  <2> SUFFICES ASSUME ~ listen.perfMonitor, listen.roundRobin,
                      NEW i \in Slots, NEW j \in Slots
               PROVE  Cardinality(Given(i)) <= Cardinality(Given(j)) + 1
    BY DEF Balanced, Given
  <2>1. PICK m \in Nat : Ahead(m)
    BY <1>1 DEF IInv, Rotates
  <2>2. Cardinality(Given(i)) \in {m, m + 1} /\ Cardinality(Given(j)) \in {m, m + 1}
    BY <2>1 DEF Ahead
  <2> QED
    BY <2>2
<1> QED
  BY <1>1, Inductive, PTL

(***************************************************************************)
(* No worker bootstraps twice, whatever bootstrap messages it is sent.     *)
(***************************************************************************)
THEOREM WorkersBootOnce == Spec => BootedOnce
<1> DEFINE Once ==
      \A w \in Ids :
        /\ boot[w] \in {"failed", "serving"} => boot'[w] = boot[w]
        /\ boot'[w] # boot[w] => boot[w] = "idle" \/ boot'[w] # "booting"
<1>1. IInv /\ [Next]_vars => [Once]_vars
  <2> SUFFICES ASSUME IInv, Next PROVE Once
    OBVIOUS
  <2>1. boot \in [Ids -> {"idle", "booting", "failed", "serving"}]
    BY DEF IInv, TypeOK
  <2>2. CASE UNCHANGED boot
    BY <2>2
  <2>3. ASSUME NEW w \in Ids, ReceiveBootstrap(w) \/ BootDone(w) \/ BootFails(w)
        PROVE  Once
    BY <2>1, <2>3 DEF ReceiveBootstrap, ClusterStarted, BootDone, BootFails
  <2>4. MasterStep => UNCHANGED boot
    BY DEF MasterStep, Listen, InitWorkers, SelectFaster, Accept, HandleOnline,
       HandleExit, workerVars
  <2>5. ASSUME NEW w \in Ids, WorkerStep(w)
        PROVE  UNCHANGED boot \/ ReceiveBootstrap(w) \/ BootDone(w) \/ BootFails(w)
    BY <2>5 DEF WorkerStep, ComeOnline, ReceiveConnection, UncaughtError, Crash,
       DoomedExit, CleanExit, Die, workerVars
  <2> QED
    BY <2>3, <2>4, <2>5 DEF Next
<1> QED
  BY <1>1, Inductive, PTL DEF Spec, BootedOnce

=============================================================================
