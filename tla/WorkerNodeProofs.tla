-------------------------- MODULE WorkerNodeProofs --------------------------
(***************************************************************************)
(* Theorems of WorkerNode, for every set of sandboxes and of ports, every  *)
(* size of the pool and of the addresses.                                  *)
(***************************************************************************)
EXTENDS WorkerNode, SequenceTheorems, WellFoundedInduction, TLAPS

----------------------------------------------------------------------------
(* The pool of networks *)

Config == Network \cup {Nil}
Elements(p) == {p[i] : i \in DOMAIN p}
NoneTwice(p) == \A i, j \in DOMAIN p : i # j /\ p[i] = p[j] => p[i] = Nil

\* The pool is a multiple of PoolUnit, and not empty.
LEMMA PoolSize == MaxNetworkPoolSize \in Nat \ {0} /\ Byte * Byte \in Nat
  BY PoolAssumption DEF MaxNetworkPoolSize

\* A set of numbers that is not empty has a least one.
LEMMA Least == ASSUME NEW S \in SUBSET Nat, S # {} PROVE \E v \in S : \A w \in S : v <= w
<1>1. PICK v \in S : \A w \in S : <<w, v>> \notin OpToRel(<, Nat)
  BY WFMin, NatLessThanWellFounded
<1>2. \A w \in S : ~(w < v)
  BY <1>1 DEF OpToRel
<1> QED BY <1>2

\* The next address is one that was not used before.
LEMMA NextAddress ==
  ASSUME counter \in 0 .. Byte * Byte, ~RunOutOfAddresses
  PROVE  createVETHPair \in Network /\ createVETHPair >= counter
         /\ createVETHPair + 1 \in 0 .. Byte * Byte
<1> DEFINE S == GenerateSingleIP(counter)
<1>1. S \in SUBSET Nat /\ \A v \in S : v \in counter .. Byte * Byte - 1
  BY PoolSize DEF GenerateSingleIP
<1>2. S # {}
  BY DEF RunOutOfAddresses
<1>3. createVETHPair \in S
  <2>1. \E v \in S : \A w \in S : v <= w
    BY <1>1, <1>2, Least
  <2> QED BY <2>1 DEF createVETHPair
<1>4. createVETHPair \in counter .. Byte * Byte - 1
  BY <1>1, <1>3
<1> HIDE DEF S
<1> QED BY <1>4, PoolSize DEF Network

\* What is put into the pool is what is then in it besides.
LEMMA Appended ==
  ASSUME NEW p \in Seq(Config), NEW v \in Config
  PROVE  /\ Append(p, v) \in Seq(Config) /\ Len(Append(p, v)) = Len(p) + 1
         /\ Elements(Append(p, v)) = Elements(p) \cup {v}
         /\ NoneTwice(p) /\ (v \in Elements(p) => v = Nil) => NoneTwice(Append(p, v))
<1> DEFINE q == Append(p, v)
<1>1. /\ q \in Seq(Config) /\ Len(q) = Len(p) + 1
      /\ \A i \in 1 .. Len(p) : q[i] = p[i]
      /\ q[Len(p) + 1] = v
  BY AppendProperties
<1>2. Len(p) \in Nat /\ DOMAIN p = 1 .. Len(p) /\ DOMAIN q = 1 .. (Len(p) + 1)
  BY <1>1
<1> HIDE DEF q
<1>3. Elements(q) = Elements(p) \cup {v}
  BY <1>1, <1>2 DEF Elements
<1>4. NoneTwice(p) /\ (v \in Elements(p) => v = Nil) => NoneTwice(q)
  BY <1>1, <1>2 DEF NoneTwice, Elements
<1> QED BY <1>1, <1>3, <1>4 DEF q

\* What is taken from the pool is not in it any more.
LEMMA Taken ==
  ASSUME NEW p \in Seq(Config), p # <<>>
  PROVE  /\ Head(p) \in Config /\ Tail(p) \in Seq(Config) /\ Len(Tail(p)) = Len(p) - 1
         /\ Elements(p) = Elements(Tail(p)) \cup {Head(p)}
         /\ NoneTwice(p) => NoneTwice(Tail(p)) /\ (Head(p) \in Elements(Tail(p)) => Head(p) = Nil)
<1> DEFINE q == Tail(p)
<1>1. /\ Head(p) \in Config /\ q \in Seq(Config) /\ Len(q) = Len(p) - 1
      /\ \A i \in 1 .. Len(q) : q[i] = p[i + 1]
  BY HeadTailProperties
<1>2. Len(p) \in Nat /\ Len(p) # 0 /\ DOMAIN p = 1 .. Len(p) /\ DOMAIN q = 1 .. (Len(p) - 1) /\ Head(p) = p[1]
  BY <1>1
<1> HIDE DEF q
<1>3. \A i \in DOMAIN q : i + 1 \in DOMAIN p /\ i + 1 # 1 /\ q[i] = p[i + 1]
  BY <1>1, <1>2
<1>4. \A i \in DOMAIN p : i = 1 \/ (i - 1 \in DOMAIN q /\ q[i - 1] = p[i])
  BY <1>1, <1>2
<1>5. Elements(p) = Elements(q) \cup {Head(p)}
  <2>1. 1 \in DOMAIN p
    BY <1>2
  <2> QED BY <1>2, <1>3, <1>4, <2>1 DEF Elements
<1>6. ASSUME NoneTwice(p) PROVE NoneTwice(q)
  <2> SUFFICES ASSUME NEW i \in DOMAIN q, NEW j \in DOMAIN q, i # j, q[i] = q[j] PROVE q[i] = Nil
    BY DEF NoneTwice
  <2>1. i + 1 # j + 1
    BY <1>2
  <2> QED BY <2>1, <1>3, <1>6 DEF NoneTwice
<1>7. ASSUME NoneTwice(p), Head(p) \in Elements(q) PROVE Head(p) = Nil
  <2>1. PICK i \in DOMAIN q : q[i] = Head(p)
    BY <1>7 DEF Elements
  <2> QED BY <2>1, <1>2, <1>3, <1>7 DEF NoneTwice
<1> QED BY <1>1, <1>5, <1>6, <1>7 DEF q

\* The pool of PoolTypeOK as a sequence.
LEMMA PoolIsSequence ==
  ASSUME NEW p
  PROVE  p \in UNION {[1 .. n -> Config] : n \in 0 .. MaxNetworkPoolSize}
           <=> p \in Seq(Config) /\ Len(p) <= MaxNetworkPoolSize
<1>1. ASSUME NEW n \in 0 .. MaxNetworkPoolSize, p \in [1 .. n -> Config]
      PROVE  p \in Seq(Config) /\ Len(p) <= MaxNetworkPoolSize
  BY <1>1, PoolSize
<1>2. ASSUME p \in Seq(Config), Len(p) <= MaxNetworkPoolSize
      PROVE  Len(p) \in 0 .. MaxNetworkPoolSize /\ p \in [1 .. Len(p) -> Config]
  BY <1>2, PoolSize
<1> QED BY <1>1, <1>2

LEMMA PoolTypes ==
  PoolTypeOK <=> /\ pool \in Seq(Config) /\ Len(pool) <= MaxNetworkPoolSize
                 /\ counter \in 0 .. Byte * Byte /\ namespaces \in SUBSET Network
                 /\ populating \in BOOLEAN /\ populateWanted \in BOOLEAN
  BY PoolIsSequence DEF PoolTypeOK, Config

LEMMA PoolTypesNext ==
  PoolTypeOK' <=> /\ pool' \in Seq(Config) /\ Len(pool') <= MaxNetworkPoolSize
                  /\ counter' \in 0 .. Byte * Byte /\ namespaces' \in SUBSET Network
                  /\ populating' \in BOOLEAN /\ populateWanted' \in BOOLEAN
  BY PoolIsSequence DEF PoolTypeOK, Config

\* In the pool is nothing twice, and nothing that will be made later.
PoolIsSound == NoneTwice(pool) /\ \A v \in Free : v < counter

\* A network that is made, or not.
LEMMA CreateStep ==
  ASSUME PoolTypeOK, NEW config, ~RunOutOfAddresses, createNetwork(config)
  PROVE  /\ counter' \in 0 .. Byte * Byte /\ counter <= counter' /\ namespaces' \in SUBSET Network
         /\ \/ config = Nil /\ namespaces' = namespaces
            \/ /\ config \in Network /\ counter <= config /\ config < counter'
               /\ namespaces' = namespaces \cup {config}
<1>1. counter \in 0 .. Byte * Byte /\ namespaces \in SUBSET Network
  BY PoolTypes
<1>2. createVETHPair \in Network /\ createVETHPair >= counter /\ createVETHPair + 1 \in 0 .. Byte * Byte
  BY <1>1, NextAddress
<1>3. Network \subseteq Nat /\ counter \in Nat
  BY <1>1, PoolSize DEF Network
<1>4. CASE config = createVETHPair /\ counter' = config + 1 /\ namespaces' = namespaces \cup {config}
  BY <1>1, <1>2, <1>3, <1>4
<1>5. CASE config = Nil /\ counter' \in {counter, createVETHPair + 1} /\ UNCHANGED namespaces
  BY <1>1, <1>2, <1>3, <1>5
<1> QED BY <1>4, <1>5 DEF createNetwork

LEMMA PopulateTypes ==
  ASSUME PoolTypeOK, populate \/ populateStarts PROVE PoolTypeOK'
<1>1. CASE populateStarts
  BY <1>1, PoolTypes, PoolTypesNext DEF populateStarts
<1>2. CASE populate /\ Len(pool) < MaxNetworkPoolSize
  <2>1. PICK config \in Config : createNetwork(config) /\ pool' = Append(pool, config)
    BY <1>2 DEF populate, Config
  <2>2. pool \in Seq(Config)
    BY PoolTypes
  <2>3. pool' \in Seq(Config) /\ Len(pool') = Len(pool) + 1
    BY <2>1, <2>2, Appended
  <2>4. Len(pool') <= MaxNetworkPoolSize
    BY <2>2, <2>3, <1>2, PoolSize
  <2>5. counter' \in 0 .. Byte * Byte /\ namespaces' \in SUBSET Network
    BY <1>2, <2>1, CreateStep DEF populate
  <2> QED BY <1>2, <2>3, <2>4, <2>5, PoolTypes, PoolTypesNext DEF populate
<1>3. CASE populate /\ ~(Len(pool) < MaxNetworkPoolSize)
  BY <1>3, PoolTypes, PoolTypesNext DEF populate
<1> QED BY <1>1, <1>2, <1>3

LEMMA GetTypes ==
  ASSUME PoolTypeOK, NEW config \in Config, GetOneConfig(config) PROVE PoolTypeOK'
<1>1. pool \in Seq(Config) /\ Len(pool) <= MaxNetworkPoolSize /\ Len(pool) \in Nat
  BY PoolTypes
<1>2. CASE pool = <<>>
  BY <1>1, <1>2, CreateStep, PoolTypes, PoolTypesNext DEF GetOneConfig
<1>3. CASE pool # <<>>
  <2>1. pool' = Tail(pool) /\ UNCHANGED <<counter, namespaces, populating>> /\ populateWanted' \in BOOLEAN
    BY <1>3 DEF GetOneConfig
  <2>2. pool' \in Seq(Config) /\ Len(pool') = Len(pool) - 1
    BY <1>1, <1>3, <2>1, Taken
  <2>3. Len(pool') <= MaxNetworkPoolSize
    BY <1>1, <2>2, PoolSize
  <2> QED BY <2>1, <2>2, <2>3, PoolTypes, PoolTypesNext
<1> QED BY <1>2, <1>3

LEMMA GiveUpTypes ==
  ASSUME PoolTypeOK, NEW config \in Network, GiveUpNetwork(config) PROVE PoolTypeOK'
<1>1. pool \in Seq(Config) /\ config \in Config
  BY PoolTypes DEF Config
<1>2. CASE Len(pool) < MaxNetworkPoolSize
  <2>1. pool' = Append(pool, config) /\ UNCHANGED <<counter, namespaces, populating, populateWanted>>
    BY <1>2 DEF GiveUpNetwork
  <2>2. pool' \in Seq(Config) /\ Len(pool') = Len(pool) + 1
    BY <1>1, <2>1, Appended
  <2>3. Len(pool') <= MaxNetworkPoolSize
    BY <1>1, <1>2, <2>2, PoolSize
  <2> QED BY <2>1, <2>2, <2>3, PoolTypes, PoolTypesNext
<1>3. CASE ~(Len(pool) < MaxNetworkPoolSize)
  BY <1>3, PoolTypes, PoolTypesNext DEF GiveUpNetwork
<1> QED BY <1>2, <1>3

\* Filling the pool puts new networks into it and into the kernel.
LEMMA PopulateStep ==
  ASSUME PoolTypeOK, PoolIsSound, populate \/ populateStarts
  PROVE  /\ PoolIsSound' /\ counter <= counter'
         /\ Free \subseteq Free' /\ namespaces' = namespaces \cup (Free' \ Free)
         /\ \A v \in Free' \ Free : counter <= v
<1>1. counter \in Nat /\ counter \in 0 .. Byte * Byte
  BY PoolTypes, PoolSize
<1>2. CASE UNCHANGED <<pool, counter, namespaces>>
  <2>1. Free' = Free /\ namespaces' = namespaces
    BY <1>2 DEF Free
  <2>2. counter <= counter' /\ PoolIsSound'
    BY <1>1, <1>2 DEF PoolIsSound, Free
  <2> QED BY <2>1, <2>2
<1>3. CASE populate /\ Len(pool) < MaxNetworkPoolSize
  <2>1. PICK config \in Config : createNetwork(config) /\ pool' = Append(pool, config)
    BY <1>3 DEF populate, Config
  <2>2. pool \in Seq(Config)
    BY PoolTypes
  <2>3. /\ Elements(pool') = Elements(pool) \cup {config}
        /\ NoneTwice(pool) /\ (config \in Elements(pool) => config = Nil) => NoneTwice(pool')
    BY <2>1, <2>2, Appended
  <2>4. /\ counter' \in 0 .. Byte * Byte /\ counter <= counter'
        /\ \/ config = Nil /\ namespaces' = namespaces
           \/ /\ config \in Network /\ counter <= config /\ config < counter'
              /\ namespaces' = namespaces \cup {config}
    BY <1>3, <2>1, CreateStep DEF populate
  <2>5. Free = Elements(pool) \ {Nil} /\ Free' = Elements(pool') \ {Nil}
    BY DEF Free, Elements
  <2>6. Free \subseteq Nat /\ counter' \in Nat /\ Network \subseteq Nat /\ Nil \notin Network
    BY <2>2, <2>4, PoolSize, PoolAssumption DEF Free, Config, Network
  <2>7. CASE config = Nil /\ namespaces' = namespaces
    <3>1. Free' = Free /\ namespaces' = namespaces
      BY <2>3, <2>5, <2>7
    <3>2. NoneTwice(pool')
      BY <2>3, <2>7 DEF PoolIsSound
    <3>3. \A v \in Free' : v < counter'
      BY <1>1, <2>4, <2>6, <3>1 DEF PoolIsSound
    <3> QED BY <2>4, <3>1, <3>2, <3>3 DEF PoolIsSound
  <2>8. CASE /\ config \in Network /\ counter <= config /\ config < counter'
             /\ namespaces' = namespaces \cup {config}
    <3>1. Free' = Free \cup {config} /\ config # Nil
      BY <2>3, <2>5, <2>6, <2>8
    <3>2. config \notin Elements(pool)
      <4>1. config \notin Free
        BY <1>1, <2>6, <2>8 DEF PoolIsSound
      <4> QED BY <4>1, <2>5, <3>1
    <3>3. NoneTwice(pool')
      BY <2>3, <3>2 DEF PoolIsSound
    <3>4. \A v \in Free' : v < counter'
      BY <1>1, <2>4, <2>6, <2>8, <3>1 DEF PoolIsSound
    <3>5. config \notin Free
      BY <2>5, <3>2
    <3>6. Free' \ Free = {config}
      BY <3>1, <3>5
    <3>7. PoolIsSound'
      BY <3>3, <3>4 DEF PoolIsSound
    <3> QED BY <2>4, <2>8, <3>1, <3>6, <3>7
  <2> QED BY <2>4, <2>7, <2>8
<1> QED BY <1>2, <1>3 DEF populate, populateStarts

\* A network that is got was in the pool, or is new; it is not in the pool.
LEMMA GetStep ==
  ASSUME PoolTypeOK, PoolIsSound, NEW config \in Config, GetOneConfig(config)
  PROVE  /\ PoolIsSound' /\ counter <= counter'
         /\ config = Nil => Free' = Free /\ namespaces' = namespaces
         /\ config # Nil => /\ Free' = Free \ {config} /\ config < counter'
                            /\ \/ config \in Free /\ namespaces' = namespaces
                               \/ counter <= config /\ namespaces' = namespaces \cup {config}
<1>1. counter \in Nat /\ counter \in 0 .. Byte * Byte /\ pool \in Seq(Config)
  BY PoolTypes, PoolSize
<1>2. Free \subseteq Nat /\ Network \subseteq Nat /\ Nil \notin Network
  BY <1>1, PoolSize, PoolAssumption DEF Free, Config, Network
<1>3. Free = Elements(pool) \ {Nil} /\ Free' = Elements(pool') \ {Nil}
  BY DEF Free, Elements
<1>4. CASE pool = <<>>
  <2>1. pool' = pool /\ Free' = Free /\ Free = {}
    BY <1>1, <1>4 DEF GetOneConfig, Free
  <2>2. /\ counter' \in 0 .. Byte * Byte /\ counter <= counter'
        /\ \/ config = Nil /\ namespaces' = namespaces
           \/ /\ config \in Network /\ counter <= config /\ config < counter'
              /\ namespaces' = namespaces \cup {config}
    BY <1>4, CreateStep DEF GetOneConfig
  <2>3. PoolIsSound'
    BY <2>1 DEF PoolIsSound
  <2> QED BY <1>2, <2>1, <2>2, <2>3
<1>5. CASE pool # <<>>
  <2>1. config = Head(pool) /\ pool' = Tail(pool) /\ UNCHANGED <<counter, namespaces>>
    BY <1>5 DEF GetOneConfig
  <2>2. /\ Elements(pool) = Elements(pool') \cup {config}
        /\ NoneTwice(pool) => NoneTwice(pool') /\ (config \in Elements(pool') => config = Nil)
    BY <1>1, <1>5, <2>1, Taken
  <2>3. NoneTwice(pool') /\ (config \in Elements(pool') => config = Nil)
    BY <2>2 DEF PoolIsSound
  <2>4. config = Nil => Free' = Free
    BY <1>3, <2>2
  <2>5. config # Nil => Free' = Free \ {config} /\ config \in Free
    BY <1>3, <2>2, <2>3
  <2>6. PoolIsSound'
    BY <2>1, <2>3, <2>4, <2>5 DEF PoolIsSound
  <2>7. config # Nil => config < counter'
    BY <2>1, <2>5 DEF PoolIsSound
  <2> QED BY <1>1, <2>1, <2>4, <2>5, <2>6, <2>7
<1> QED BY <1>4, <1>5

\* A network that is given up is in the pool, or is gone from the kernel.
LEMMA GiveUpStep ==
  ASSUME PoolTypeOK, PoolIsSound, NEW config \in Network, config \notin Free, config < counter,
         GiveUpNetwork(config)
  PROVE  /\ PoolIsSound' /\ counter' = counter
         /\ \/ Free' = Free \cup {config} /\ namespaces' = namespaces
            \/ Free' = Free /\ namespaces' = namespaces \ {config}
<1>1. pool \in Seq(Config) /\ config \in Config /\ config # Nil
  BY PoolTypes, PoolAssumption DEF Config, Network
<1>2. Free = Elements(pool) \ {Nil} /\ Free' = Elements(pool') \ {Nil}
  BY DEF Free, Elements
<1>3. CASE Len(pool) < MaxNetworkPoolSize
  <2>1. pool' = Append(pool, config) /\ UNCHANGED <<counter, namespaces>>
    BY <1>3 DEF GiveUpNetwork
  <2>2. /\ Elements(pool') = Elements(pool) \cup {config}
        /\ NoneTwice(pool) /\ (config \in Elements(pool) => config = Nil) => NoneTwice(pool')
    BY <1>1, <2>1, Appended
  <2>3. Free' = Free \cup {config} /\ NoneTwice(pool')
    BY <1>1, <1>2, <2>2 DEF PoolIsSound
  <2> QED BY <2>1, <2>3 DEF PoolIsSound
<1>4. CASE ~(Len(pool) < MaxNetworkPoolSize)
  <2>1. pool' = pool /\ namespaces' = namespaces \ {config} /\ counter' = counter
    BY <1>4 DEF GiveUpNetwork
  <2> QED BY <2>1 DEF PoolIsSound, Free
<1> QED BY <1>3, <1>4

----------------------------------------------------------------------------
(* Type correctness *)

InOrder == \A s \in Sandbox : CallsInOrder(s)

\* The memory of a process that ends is of the types of a fresh one.
LEMMA ProcessEndsTypes ==
  ASSUME TypeOK, NEW how \in {"stopped", "dead"}, ProcessEnds(how),
         namespaces' \in SUBSET Network, rules' \in SUBSET (Port \X Sandbox)
  PROVE  TypeOK'
<1>1. PoolTypeOK'
  <2>1. pool' \in Seq(Config) /\ Len(pool') <= MaxNetworkPoolSize
    BY PoolSize DEF ProcessEnds
  <2>2. counter' \in 0 .. Byte * Byte
    BY PoolSize DEF ProcessEnds
  <2>3. populating' \in BOOLEAN /\ populateWanted' \in BOOLEAN
    BY DEF ProcessEnds
  <2> QED BY <2>1, <2>2, <2>3, PoolTypesNext
<1> HIDE DEF PoolTypeOK
<1>2. pc' \in [Sandbox -> {"idle", "lost"}]
  BY DEF ProcessEnds
<1> QED BY <1>1, <1>2 DEF TypeOK, ProcessEnds, Fresh, config_, Ended

LEMMA DaemonTypes ==
  ASSUME TypeOK,
         NewWorkerNode \/ PopulateNetworkPool \/ RegisterNodeWithControlPlane \/ Fatal \/ WaitTerminationSignal
  PROVE  TypeOK'
<1> DEFINE rest == <<config_, pc, port, network, fromSnapshot, cache, Metadata, ports, rules, kernel, monitoring, deletion>>
<1>1. ASSUME UNCHANGED rest, PoolTypeOK', daemon' \in {"down", "boot", "registering", "up", "stopped", "dead"}
      PROVE  TypeOK'
  BY <1>1 DEF TypeOK, config_, cache, ports, kernel, processes, monitoring
<1>2. CASE NewWorkerNode
  <2>1. daemon' \in {"boot", "registering"} /\ UNCHANGED rest
    BY <1>2 DEF NewWorkerNode
  <2>2. CASE NewNetworkPoolManager
    <3>1. pool' \in Seq(Config) /\ Len(pool') <= MaxNetworkPoolSize
      BY <2>2, PoolSize DEF NewNetworkPoolManager
    <3>2. counter' \in 0 .. Byte * Byte
      BY <2>2, PoolSize DEF NewNetworkPoolManager
    <3>3. populating' \in BOOLEAN /\ populateWanted' \in BOOLEAN /\ namespaces' \in SUBSET Network
      BY <2>2 DEF NewNetworkPoolManager, DeleteUnusedNetworkDevices
    <3> QED BY <2>1, <3>1, <3>2, <3>3, <1>1, PoolTypesNext
  <2>3. CASE UNCHANGED networks
    BY <2>1, <2>3, <1>1, PoolTypes, PoolTypesNext DEF networks, TypeOK
  <2> QED BY <1>2, <2>2, <2>3 DEF NewWorkerNode
<1>3. CASE PopulateNetworkPool
  <2>1. PoolTypeOK'
    BY <1>3, PopulateTypes DEF PopulateNetworkPool, TypeOK
  <2>2. daemon' \in {daemon, "registering"} /\ UNCHANGED rest
    BY <1>3 DEF PopulateNetworkPool
  <2> QED BY <2>1, <2>2, <1>1 DEF TypeOK
<1>4. CASE RegisterNodeWithControlPlane
  BY <1>4, <1>1, PoolTypes, PoolTypesNext DEF RegisterNodeWithControlPlane, networks, TypeOK
<1>5. CASE Fatal
  BY <1>5, ProcessEndsTypes DEF Fatal, TypeOK, PoolTypeOK
<1>6. CASE WaitTerminationSignal
  BY <1>6, ProcessEndsTypes DEF WaitTerminationSignal, DeleteUnusedNetworkDevices, resetIPTables
<1> QED BY <1>2, <1>3, <1>4, <1>5, <1>6

LEMMA CreateTypes ==
  ASSUME TypeOK, NEW s \in Sandbox, CallsInOrder(s), CreateSandbox(s) \/ Create(s)
  PROVE  TypeOK'
<1> USE DEF node, config_, cache, ports, kernel, processes, monitoring
<1>0. /\ UNCHANGED networks => PoolTypeOK'
      /\ runtime = "firecracker" /\ pc[s] \in Networked /\ GiveUpNetwork(network[s]) => PoolTypeOK'
  <2>1. UNCHANGED networks => PoolTypeOK'
    BY PoolTypes, PoolTypesNext DEF networks, TypeOK
  <2>2. runtime = "firecracker" /\ pc[s] \in Networked => network[s] \in Network
    BY DEF TypeOK, CallsInOrder
  <2> QED BY <2>1, <2>2, GiveUpTypes DEF TypeOK
<1>1. CASE CreateSandbox(s)
  BY <1>0, <1>1 DEF CreateSandbox, Goes, TypeOK
<1>2. CASE GetImage(s)
  BY <1>0, <1>2 DEF GetImage, MayFail, Goes, TypeOK, Ended
<1>3. CASE StartContainer(s)
  BY <1>0, <1>3 DEF StartContainer, Start, Goes, TypeOK, Ended
<1>4. CASE GetNetwork(s)
  <2>1. PICK config \in Config :
          /\ GetOneConfig(config)
          /\ Goes(s, "network", IF config = Nil THEN "failed" ELSE "start")
          /\ network' = [network EXCEPT ![s] = IF config = Nil THEN None ELSE config]
    BY <1>4 DEF GetNetwork, Config
  <2>2. PoolTypeOK'
    BY <2>1, GetTypes DEF TypeOK
  <2>3. network' \in [Sandbox -> Network \cup {None}]
    BY <2>1 DEF TypeOK, Config
  <2>4. pc' \in [Sandbox -> Ended \cup {"idle", "image", "network", "start", "port", "pid", "metadata",
                                       "channel", "rules", "probe", "snapshot", "cleanup"}]
    BY <2>1 DEF TypeOK, Goes, Ended
  <2> QED BY <1>4, <2>2, <2>3, <2>4 DEF GetNetwork, TypeOK
<1>5. CASE StartFirecrackerVM(s)
  <2>1. PoolTypeOK'
    BY <1>0, <1>5 DEF StartFirecrackerVM, Goes, Networked
  <2> QED BY <1>5, <2>1 DEF StartFirecrackerVM, Start, Goes, TypeOK, Ended
<1>6. CASE AssignRandomPort(s)
  BY <1>0, <1>6 DEF AssignRandomPort, Goes, TypeOK, Ended
<1>7. CASE VMPid(s)
  <2>1. PoolTypeOK'
    <3>1. pc[s] = "pid" => runtime = "firecracker"
      BY NodeAssumption DEF TypeOK, CallsInOrder
    <3> QED BY <1>0, <1>7, <3>1 DEF VMPid, Goes, Networked
  <2> QED BY <1>7, <2>1 DEF VMPid, UnassignPort, Goes, TypeOK, Ended
<1>8. CASE AddSandbox(s)
  BY <1>0, <1>8 DEF AddSandbox, Goes, TypeOK, Ended
<1>9. CASE AddChannel(s)
  <2>1. pid[s] \in Sandbox
    BY <1>9 DEF TypeOK, CallsInOrder, AddChannel, Goes, Started, Networked
  <2> QED BY <1>0, <1>9, <2>1 DEF AddChannel, Goes, TypeOK, Ended
<1>10. CASE AddRules(s)
  <2>1. rules' \in SUBSET (Port \X Sandbox)
    <3>1. port[s] \in Port
      BY <1>10 DEF TypeOK, CallsInOrder, AddRules, Goes, Bound, Started, Networked
    <3> QED BY <1>10, <3>1 DEF AddRules, TypeOK
  <2> QED BY <1>0, <1>10, <2>1 DEF AddRules, Goes, TypeOK, Ended
<1>11. CASE SendReadinessProbe(s)
  BY <1>0, <1>11 DEF SendReadinessProbe, Goes, TypeOK, Ended
<1>12. CASE CreateVMSnapshot(s)
  BY <1>0, <1>12 DEF CreateVMSnapshot, Goes, TypeOK, Ended
<1>13. CASE CleanedUp(s)
  BY <1>0, <1>13 DEF CleanedUp, Goes, TypeOK, Ended
<1> QED BY <1>1, <1>2, <1>3, <1>4, <1>5, <1>6, <1>7, <1>8, <1>9, <1>10, <1>11, <1>12, <1>13 DEF Create

LEMMA DeleteTypes ==
  ASSUME TypeOK, NEW s \in Sandbox, CallsInOrder(s), NEW d \in Caller, DeleteSandbox(d, s) \/ Delete(d, s)
  PROVE  TypeOK'
<1> USE DEF node, config_, cache, ports, kernel, processes, monitoring
<1>0. UNCHANGED networks => PoolTypeOK'
  BY PoolTypes, PoolTypesNext DEF networks, TypeOK
<1>1. CASE DeleteSandbox(d, s)
  BY <1>0, <1>1 DEF DeleteSandbox, Deletes, TypeOK
<1>2. CASE RemoveMetadata(d, s)
  BY <1>0, <1>2 DEF RemoveMetadata, Deletes, TypeOK
<1>3. CASE DeleteRules(d, s)
  BY <1>0, <1>3 DEF DeleteRules, UnassignPort, Deletes, TypeOK
<1>4. CASE DeleteContainer(d, s)
  <2>1. containers' \in [Sandbox -> {"none", "container", "task", "network"}]
    BY <1>4 DEF DeleteContainer, TypeOK
  <2>2. abandoned' \in SUBSET Sandbox
    BY <1>4 DEF DeleteContainer, TypeOK
  <2>3. process' \in [Sandbox -> {"none", "alive", "ended"}] /\ killed' \in [Sandbox -> BOOLEAN] /\ events' \in SUBSET Sandbox
    BY <1>4 DEF DeleteContainer, Kill, Ends, TypeOK
  <2>4. UNCHANGED <<pid, NotifyChannels, monitor, code, watcher>>
    BY <1>4 DEF DeleteContainer, Kill, Ends
  <2> QED BY <1>0, <1>4, <2>1, <2>2, <2>3, <2>4 DEF DeleteContainer, Deletes, TypeOK
<1>5. CASE StopFirecrackerVM(d, s)
  BY <1>0, <1>5 DEF StopFirecrackerVM, Kill, Ends, Deletes, TypeOK
<1>6. CASE ReleaseNetwork(d, s)
  <2>1. network[s] \in Network
    <3>1. deletion[d][s] = "network"
      BY <1>6 DEF ReleaseNetwork, Deletes
    <3>2. runtime = "firecracker"
      BY <3>1, NodeAssumption DEF TypeOK, CallsInOrder, Before
    <3> QED BY <3>1, <3>2 DEF TypeOK, CallsInOrder, Before
  <2>2. PoolTypeOK'
    BY <1>6, <2>1, GiveUpTypes DEF ReleaseNetwork, TypeOK
  <2> QED BY <1>6, <2>2 DEF ReleaseNetwork, Deletes, TypeOK
<1> QED BY <1>1, <1>2, <1>3, <1>4, <1>5, <1>6 DEF Delete

LEMMA MonitorTypes ==
  ASSUME TypeOK, NEW s \in Sandbox, CallsInOrder(s), Exit(s) \/ Monitor(s)
  PROVE  TypeOK'
<1> USE DEF node, config_, cache, ports, kernel, processes, monitoring
<1>0. UNCHANGED networks => PoolTypeOK'
  BY PoolTypes, PoolTypesNext DEF networks, TypeOK
<1>1. CASE Exit(s)
  BY <1>0, <1>1 DEF Exit, Ends, TypeOK
<1>2. CASE ReadPCN(s)
  <2>1. monitor' \in Sandbox \cup {None}
    BY <1>2 DEF ReadPCN, TypeOK, CallsInOrder
  <2> QED BY <1>0, <1>2, <2>1 DEF ReadPCN, TypeOK
<1>3. CASE WatchExitChannel(s)
  BY <1>0, <1>3 DEF WatchExitChannel, TypeOK
<1>4. CASE ReportFailure(s)
  BY <1>0, <1>4 DEF ReportFailure, TypeOK
<1> QED BY <1>1, <1>2, <1>3, <1>4 DEF Monitor

\* An action on one sandbox leaves what the others have.
Same(t) ==
  /\ runtime' = runtime /\ daemon' = daemon
  /\ pc'[t] = pc[t] /\ port'[t] = port[t] /\ network'[t] = network[t]
  /\ process'[t] = process[t] /\ pid'[t] = pid[t] /\ watcher'[t] = watcher[t]
  /\ containers'[t] = containers[t] /\ (t \in abandoned') = (t \in abandoned)
  /\ (t \in Metadata') = (t \in Metadata) /\ (t \in events') = (t \in events)
  /\ \A d \in Caller : deletion'[d][t] = deletion[d][t]

LEMMA Elsewhere ==
  ASSUME TypeOK, NEW s \in Sandbox, NEW t \in Sandbox \ {s},
         \/ CreateSandbox(s) \/ Create(s) \/ Exit(s) \/ Monitor(s)
         \/ \E d \in Caller : DeleteSandbox(d, s) \/ Delete(d, s)
  PROVE  Same(t)
<1> USE DEF node, config_, kernel, processes, monitoring, Same
<1>1. CASE CreateSandbox(s)
  BY <1>1 DEF CreateSandbox, Goes, TypeOK
<1>2. CASE GetImage(s)
  BY <1>2 DEF GetImage, MayFail, Goes, TypeOK
<1>3. CASE StartContainer(s)
  BY <1>3 DEF StartContainer, Start, Goes, TypeOK
<1>4. CASE GetNetwork(s)
  BY <1>4 DEF GetNetwork, Goes, TypeOK
<1>5. CASE StartFirecrackerVM(s)
  BY <1>5 DEF StartFirecrackerVM, Start, Goes, TypeOK
<1>6. CASE AssignRandomPort(s)
  BY <1>6 DEF AssignRandomPort, Goes, TypeOK
<1>7. CASE VMPid(s)
  BY <1>7 DEF VMPid, Goes, TypeOK
<1>8. CASE AddSandbox(s)
  BY <1>8 DEF AddSandbox, Goes, TypeOK
<1>9. CASE AddChannel(s)
  BY <1>9 DEF AddChannel, Goes, TypeOK
<1>10. CASE AddRules(s)
  BY <1>10 DEF AddRules, Goes, TypeOK
<1>11. CASE SendReadinessProbe(s)
  BY <1>11 DEF SendReadinessProbe, Goes, TypeOK
<1>12. CASE CreateVMSnapshot(s)
  BY <1>12 DEF CreateVMSnapshot, Goes, TypeOK
<1>13. CASE CleanedUp(s)
  BY <1>13 DEF CleanedUp, Goes, TypeOK
<1>14. CASE Exit(s)
  BY <1>14 DEF Exit, Ends, TypeOK
<1>15. CASE ReadPCN(s)
  BY <1>15 DEF ReadPCN, TypeOK
<1>16. CASE WatchExitChannel(s)
  BY <1>16 DEF WatchExitChannel, TypeOK
<1>17. CASE ReportFailure(s)
  BY <1>17 DEF ReportFailure, TypeOK
<1>18. ASSUME NEW d \in Caller, DeleteSandbox(d, s) PROVE Same(t)
  BY <1>18 DEF DeleteSandbox, Deletes, TypeOK
<1>19. ASSUME NEW d \in Caller, RemoveMetadata(d, s) PROVE Same(t)
  BY <1>19 DEF RemoveMetadata, Deletes, TypeOK
<1>20. ASSUME NEW d \in Caller, DeleteRules(d, s) PROVE Same(t)
  BY <1>20 DEF DeleteRules, Deletes, TypeOK
<1>21. ASSUME NEW d \in Caller, DeleteContainer(d, s) PROVE Same(t)
  BY <1>21 DEF DeleteContainer, Kill, Ends, Deletes, TypeOK
<1>22. ASSUME NEW d \in Caller, StopFirecrackerVM(d, s) PROVE Same(t)
  BY <1>22 DEF StopFirecrackerVM, Kill, Ends, Deletes, TypeOK
<1>23. ASSUME NEW d \in Caller, ReleaseNetwork(d, s) PROVE Same(t)
  BY <1>23 DEF ReleaseNetwork, Deletes, TypeOK
<1> HIDE DEF node, config_, kernel, processes, monitoring, Same
<1>24. CASE Create(s)
  BY <1>24, <1>2, <1>3, <1>4, <1>5, <1>6, <1>7, <1>8, <1>9, <1>10, <1>11, <1>12, <1>13 DEF Create
<1>25. CASE Monitor(s)
  BY <1>25, <1>15, <1>16, <1>17 DEF Monitor
<1>26. ASSUME NEW d \in Caller, Delete(d, s) PROVE Same(t)
  BY <1>26, <1>19, <1>20, <1>21, <1>22, <1>23 DEF Delete
<1> QED BY <1>1, <1>14, <1>18, <1>24, <1>25, <1>26

LEMMA InOrderElsewhere == ASSUME NEW t \in Sandbox, CallsInOrder(t), Same(t) PROVE CallsInOrder(t)'
  BY DEF CallsInOrder, Same, Before


LEMMA CreateInOrder ==
  ASSUME TypeOK, NEW s \in Sandbox, CallsInOrder(s), CreateSandbox(s) \/ Create(s)
  PROVE  CallsInOrder(s)'
<1> USE NodeAssumption DEF node, config_, kernel, processes, monitoring, CallsInOrder, Before, Networked, Started, Bound
<1>1. CASE CreateSandbox(s)
  BY <1>1 DEF CreateSandbox, Goes, TypeOK
<1>2. CASE GetImage(s)
  BY <1>2 DEF GetImage, MayFail, Goes, TypeOK
<1>3. CASE StartContainer(s)
  BY <1>3 DEF StartContainer, Start, Goes, TypeOK
<1>4. CASE GetNetwork(s)
  BY <1>4 DEF GetNetwork, Goes, TypeOK
<1>5. CASE StartFirecrackerVM(s)
  BY <1>5 DEF StartFirecrackerVM, Start, Goes, TypeOK
<1>6. CASE AssignRandomPort(s)
  BY <1>6 DEF AssignRandomPort, Goes, TypeOK
<1>7. CASE VMPid(s)
  BY <1>7 DEF VMPid, Goes, TypeOK
<1>8. CASE AddSandbox(s)
  BY <1>8 DEF AddSandbox, Goes, TypeOK
<1>9. CASE AddChannel(s)
  BY <1>9 DEF AddChannel, Goes, TypeOK
<1>10. CASE AddRules(s)
  BY <1>10 DEF AddRules, Goes, TypeOK
<1>11. CASE SendReadinessProbe(s)
  BY <1>11 DEF SendReadinessProbe, Goes, TypeOK
<1>12. CASE CreateVMSnapshot(s)
  BY <1>12 DEF CreateVMSnapshot, Goes, TypeOK
<1>13. CASE CleanedUp(s)
  BY <1>13 DEF CleanedUp, Goes, TypeOK
<1> QED BY <1>1, <1>2, <1>3, <1>4, <1>5, <1>6, <1>7, <1>8, <1>9, <1>10, <1>11, <1>12, <1>13 DEF Create

LEMMA DeleteInOrder ==
  ASSUME TypeOK, NEW s \in Sandbox, CallsInOrder(s), NEW d \in Caller, DeleteSandbox(d, s) \/ Delete(d, s)
  PROVE  CallsInOrder(s)'
<1>0. /\ daemon = "up"
      /\ \E from \in {"none", "got", "removed", "stop", "network"} : deletion[d][s] = from
  BY DEF DeleteSandbox, Delete, RemoveMetadata, DeleteRules, DeleteContainer, StopFirecrackerVM, ReleaseNetwork, Deletes
<1>1. CASE DeleteSandbox(d, s)
  <2>1. pc[s] \notin {"idle", "image", "network"}
    BY <1>1 DEF DeleteSandbox, ListEndpoints, CallsInOrder
  <2>2. runtime = "firecracker" /\ deletion'[d][s] \notin {"none", "done"} => network[s] # None
    BY <1>1 DEF DeleteSandbox, Deletes, CallsInOrder, TypeOK
  <2> QED
    BY <1>1, <2>1, <2>2 DEF DeleteSandbox, Deletes, TypeOK, CallsInOrder, Before, node, config_, kernel, processes, monitoring
<1>2. CASE Delete(d, s)
  <2>1. deletion[d][s] \in {"got", "removed", "stop", "network"}
    BY <1>2 DEF Delete, RemoveMetadata, DeleteRules, DeleteContainer, StopFirecrackerVM, ReleaseNetwork, Deletes
  <2>2. pc[s] \notin {"idle", "image", "network"} /\ (runtime = "firecracker" => network[s] # None)
    BY <2>1 DEF CallsInOrder, Before
  <2> USE DEF TypeOK, CallsInOrder, Before, node, config_, kernel, processes, monitoring
  <2>3. CASE RemoveMetadata(d, s)
    BY <2>2, <2>3 DEF RemoveMetadata, Deletes
  <2>4. CASE DeleteRules(d, s)
    BY <2>2, <2>4 DEF DeleteRules, Deletes
  <2>5. CASE DeleteContainer(d, s)
    BY <2>2, <2>5 DEF DeleteContainer, Kill, Ends, Deletes
  <2>6. CASE StopFirecrackerVM(d, s)
    BY <2>2, <2>6 DEF StopFirecrackerVM, Kill, Ends, Deletes
  <2>7. CASE ReleaseNetwork(d, s)
    BY <2>2, <2>7 DEF ReleaseNetwork, Deletes
  <2> QED BY <1>2, <2>3, <2>4, <2>5, <2>6, <2>7 DEF Delete
<1> QED BY <1>1, <1>2

LEMMA MonitorInOrder ==
  ASSUME TypeOK, NEW s \in Sandbox, CallsInOrder(s), Exit(s) \/ Monitor(s)
  PROVE  CallsInOrder(s)'
<1> USE DEF TypeOK, CallsInOrder, Before, node, config_, kernel, processes, monitoring
<1>1. CASE Exit(s)
  BY <1>1 DEF Exit, Ends
<1>2. CASE ReadPCN(s)
  BY <1>2 DEF ReadPCN
<1>3. CASE WatchExitChannel(s)
  BY <1>3 DEF WatchExitChannel
<1>4. CASE ReportFailure(s)
  BY <1>4 DEF ReportFailure
<1> QED BY <1>1, <1>2, <1>3, <1>4 DEF Monitor

LEMMA DaemonInOrder ==
  ASSUME TypeOK, NEW s \in Sandbox, CallsInOrder(s),
         NewWorkerNode \/ PopulateNetworkPool \/ RegisterNodeWithControlPlane \/ Fatal \/ WaitTerminationSignal
  PROVE  CallsInOrder(s)'
<1>1. ASSUME daemon' # "up" \/ daemon = "up" \/ pc[s] \in {"idle", "lost"},
             UNCHANGED <<config_, pc, port, network, Metadata, kernel, monitoring, deletion>>,
             daemon' # "up" => pc[s] \in {"idle", "lost"}
      PROVE  CallsInOrder(s)'
  BY <1>1 DEF CallsInOrder, Before, config_, kernel, processes, monitoring
<1>2. CASE NewWorkerNode
  BY <1>1, <1>2 DEF NewWorkerNode, CallsInOrder
<1>3. CASE PopulateNetworkPool
  BY <1>1, <1>3 DEF PopulateNetworkPool, CallsInOrder
<1>4. CASE RegisterNodeWithControlPlane
  BY <1>1, <1>4 DEF RegisterNodeWithControlPlane, CallsInOrder
<1>5. ASSUME NEW how \in {"stopped", "dead"}, ProcessEnds(how) PROVE CallsInOrder(s)'
  BY <1>5 DEF ProcessEnds, Fresh, CallsInOrder, Before, config_, Networked, Started, Bound
<1>6. CASE Fatal
  BY <1>5, <1>6 DEF Fatal
<1>7. CASE WaitTerminationSignal
  BY <1>5, <1>7 DEF WaitTerminationSignal
<1> QED BY <1>2, <1>3, <1>4, <1>6, <1>7

\* Every state of the node is of the declared types, whatever fails and however
\* many callers delete: a network that is given back is one that was got, and
\* a process has a number before it has a channel (CreateSandbox).
THEOREM TypeCorrect == Spec => [](TypeOK /\ InOrder)
<1>1. Init => TypeOK /\ InOrder
  <2> SUFFICES ASSUME Init PROVE TypeOK /\ InOrder
    OBVIOUS
  <2>1. PoolTypeOK
    <3>1. pool \in Seq(Config) /\ Len(pool) <= MaxNetworkPoolSize /\ counter \in 0 .. Byte * Byte
      BY PoolSize DEF Init, PoolInit
    <3> QED BY <3>1, PoolTypes DEF Init, PoolInit
  <2>2. TypeOK
    BY <2>1 DEF Init, TypeOK, Fresh
  <2>3. InOrder
    BY DEF Init, InOrder, CallsInOrder, Before, Fresh, Networked, Started, Bound
  <2> QED BY <2>2, <2>3
<1>2. TypeOK /\ InOrder /\ [Next]_vars => TypeOK' /\ InOrder'
  <2> SUFFICES ASSUME TypeOK, InOrder, [Next]_vars PROVE TypeOK' /\ InOrder'
    OBVIOUS
  <2>0. \A s \in Sandbox : CallsInOrder(s)
    BY DEF InOrder
  <2>1. CASE UNCHANGED vars
    <3>1. TypeOK'
      BY <2>1, PoolTypes, PoolTypesNext DEF TypeOK, vars, networks, config_, cache, ports, kernel, processes, monitoring
    <3>2. InOrder'
      BY <2>0, <2>1 DEF InOrder, CallsInOrder, Before, vars, config_, kernel, processes, monitoring
    <3> QED BY <3>1, <3>2
  <2>2. CASE NewWorkerNode \/ PopulateNetworkPool \/ RegisterNodeWithControlPlane \/ Fatal \/ WaitTerminationSignal
    BY <2>0, <2>2, DaemonTypes, DaemonInOrder DEF InOrder
  <2>3. ASSUME NEW s \in Sandbox,
               \/ CreateSandbox(s) \/ Create(s) \/ Exit(s) \/ Monitor(s)
               \/ \E d \in Caller : DeleteSandbox(d, s) \/ Delete(d, s)
        PROVE  TypeOK' /\ InOrder'
    <3>1. TypeOK'
      BY <2>0, <2>3, CreateTypes, MonitorTypes, DeleteTypes
    <3>2. CallsInOrder(s)'
      BY <2>0, <2>3, CreateInOrder, MonitorInOrder, DeleteInOrder
    <3>3. \A t \in Sandbox \ {s} : CallsInOrder(t)'
      BY <2>0, <2>3, Elsewhere, InOrderElsewhere
    <3> QED BY <3>1, <3>2, <3>3 DEF InOrder
  <2> QED BY <2>1, <2>2, <2>3 DEF Next
<1> QED BY <1>1, <1>2, PTL DEF Spec

----------------------------------------------------------------------------
(* The process monitor *)

OneEnd == \A s \in Sandbox : EndsOnce(s)

\* An action on one sandbox sends to no other one, and gives it no channel.
LEMMA ChannelElsewhere ==
  ASSUME TypeOK, NEW s \in Sandbox, NEW t \in Sandbox \ {s}, EndsOnce(s),
         \/ CreateSandbox(s) \/ Create(s) \/ Exit(s) \/ Monitor(s)
         \/ \E d \in Caller : DeleteSandbox(d, s) \/ Delete(d, s)
  PROVE  NotifyChannels'[t] = NotifyChannels[t] /\ (monitor' = t <=> monitor = t)
<1>0. CASE UNCHANGED <<NotifyChannels, monitor>>
  BY <1>0
<1>1. CASE AddChannel(s)
  <2>1. pid[s] = s
    BY <1>1 DEF AddChannel, Goes, EndsOnce, Started, Networked
  <2> QED BY <1>1, <2>1 DEF AddChannel, TypeOK
<1>2. CASE ReadPCN(s)
  <2>1. pid[s] = s /\ NotifyChannels[s] \in {None, s}
    BY <1>2 DEF ReadPCN, EndsOnce
  <2> QED BY <1>2, <2>1, NodeAssumption DEF ReadPCN
<1>3. CASE WatchExitChannel(s)
  BY <1>3, NodeAssumption DEF WatchExitChannel
<1>4. CASE CreateSandbox(s) \/ Exit(s) \/ ReportFailure(s)
  BY <1>0, <1>4 DEF CreateSandbox, Exit, Ends, ReportFailure, monitoring
<1>5. CASE Create(s)
  BY <1>0, <1>1, <1>5 DEF Create, GetImage, StartContainer, GetNetwork, StartFirecrackerVM, AssignRandomPort, VMPid,
       AddSandbox, AddRules, SendReadinessProbe, CreateVMSnapshot, CleanedUp, monitoring
<1>6. ASSUME NEW d \in Caller, DeleteSandbox(d, s) \/ Delete(d, s) PROVE UNCHANGED <<NotifyChannels, monitor>>
  BY <1>6 DEF DeleteSandbox, Delete, RemoveMetadata, DeleteRules, DeleteContainer, StopFirecrackerVM, ReleaseNetwork,
       Kill, Ends, monitoring
<1> QED BY <1>0, <1>2, <1>3, <1>4, <1>5, <1>6 DEF Monitor

LEMMA OneEndElsewhere ==
  ASSUME NEW t \in Sandbox, EndsOnce(t), Same(t),
         NotifyChannels'[t] = NotifyChannels[t], monitor' = t <=> monitor = t
  PROVE  EndsOnce(t)'
  BY DEF EndsOnce, Same, Monitored

LEMMA CreateOneEnd ==
  ASSUME "reuse" \notin Faults, TypeOK, NEW s \in Sandbox, CallsInOrder(s), EndsOnce(s), CreateSandbox(s) \/ Create(s)
  PROVE  EndsOnce(s)'
<1> USE NodeAssumption DEF node, config_, kernel, processes, monitoring, CallsInOrder, EndsOnce, Networked, Started, Monitored, Ruled
<1>1. CASE CreateSandbox(s)
  BY <1>1 DEF CreateSandbox, Goes, TypeOK
<1>2. CASE GetImage(s)
  BY <1>2 DEF GetImage, MayFail, Goes, TypeOK
<1>3. CASE StartContainer(s)
  BY <1>3 DEF StartContainer, Start, Goes, TypeOK
<1>4. CASE GetNetwork(s)
  BY <1>4 DEF GetNetwork, Goes, TypeOK
<1>5. CASE StartFirecrackerVM(s)
  BY <1>5 DEF StartFirecrackerVM, Start, Goes, TypeOK
<1>6. CASE AssignRandomPort(s)
  BY <1>6 DEF AssignRandomPort, Goes, TypeOK
<1>7. CASE VMPid(s)
  BY <1>7 DEF VMPid, Goes, TypeOK
<1>8. CASE AddSandbox(s)
  BY <1>8 DEF AddSandbox, Goes, TypeOK
<1>9. CASE AddChannel(s)
  BY <1>9 DEF AddChannel, Goes, TypeOK
<1>10. CASE AddRules(s)
  BY <1>10 DEF AddRules, Goes, TypeOK
<1>11. CASE SendReadinessProbe(s)
  BY <1>11 DEF SendReadinessProbe, Goes, TypeOK
<1>12. CASE CreateVMSnapshot(s)
  BY <1>12 DEF CreateVMSnapshot, Goes, TypeOK
<1>13. CASE CleanedUp(s)
  BY <1>13 DEF CleanedUp, Goes, TypeOK
<1> QED BY <1>1, <1>2, <1>3, <1>4, <1>5, <1>6, <1>7, <1>8, <1>9, <1>10, <1>11, <1>12, <1>13 DEF Create

LEMMA DeleteOneEnd ==
  ASSUME TypeOK, NEW s \in Sandbox, EndsOnce(s), NEW d \in Caller, DeleteSandbox(d, s) \/ Delete(d, s)
  PROVE  EndsOnce(s)'
<1> USE DEF node, config_, kernel, processes, monitoring, EndsOnce, Monitored
<1>1. CASE UNCHANGED <<processes, monitoring>> /\ UNCHANGED <<pc, runtime>>
  BY <1>1
<1>2. CASE process[s] = "alive" /\ Ends(s, TRUE) /\ UNCHANGED <<pc, runtime>>
  BY <1>2 DEF Ends, TypeOK
<1> HIDE DEF EndsOnce
<1> QED BY <1>1, <1>2 DEF DeleteSandbox, Delete, RemoveMetadata, DeleteRules, DeleteContainer, StopFirecrackerVM,
             ReleaseNetwork, Kill

LEMMA MonitorOneEnd ==
  ASSUME TypeOK, NEW s \in Sandbox, EndsOnce(s), Exit(s) \/ Monitor(s)
  PROVE  EndsOnce(s)'
<1> USE NodeAssumption DEF TypeOK, EndsOnce, node, config_, kernel, processes, monitoring, Monitored
<1>1. CASE Exit(s)
  BY <1>1 DEF Exit, Ends
<1>2. CASE ReadPCN(s)
  BY <1>2 DEF ReadPCN
<1>3. CASE WatchExitChannel(s)
  BY <1>3 DEF WatchExitChannel
<1>4. CASE ReportFailure(s)
  BY <1>4 DEF ReportFailure
<1> QED BY <1>1, <1>2, <1>3, <1>4 DEF Monitor

LEMMA DaemonOneEnd ==
  ASSUME TypeOK, NEW s \in Sandbox, EndsOnce(s),
         NewWorkerNode \/ PopulateNetworkPool \/ RegisterNodeWithControlPlane \/ Fatal \/ WaitTerminationSignal
  PROVE  EndsOnce(s)'
<1>1. ASSUME UNCHANGED <<config_, pc, kernel, monitoring>> PROVE EndsOnce(s)'
  BY <1>1 DEF EndsOnce, config_, kernel, processes, monitoring, Monitored
<1>2. CASE NewWorkerNode \/ PopulateNetworkPool \/ RegisterNodeWithControlPlane
  BY <1>1, <1>2 DEF NewWorkerNode, PopulateNetworkPool, RegisterNodeWithControlPlane
<1>3. ASSUME NEW how, ProcessEnds(how) PROVE EndsOnce(s)'
  BY <1>3, NodeAssumption DEF ProcessEnds, Fresh, EndsOnce, Networked, Started, config_
<1> QED BY <1>2, <1>3 DEF Fatal, WaitTerminationSignal

\* The process monitor, which holds its lock while it sends, sends to a
\* goroutine that receives or will be started, unless the kernel gives the
\* number of an ended process to another one: each end is read once, from the
\* channel of the sandbox itself, and no goroutine has stopped before it
\* (internalEventHandler, AddChannel, WatchExitChannel).
THEOREM MonitorAlwaysHeard ==
  ASSUME "reuse" \notin Faults PROVE Spec => []MonitorIsHeard
<1>1. Init => OneEnd
  BY NodeAssumption DEF Init, OneEnd, EndsOnce, Fresh, Networked, Started
<1>2. TypeOK /\ InOrder /\ OneEnd /\ [Next]_vars => OneEnd'
  <2> SUFFICES ASSUME TypeOK, InOrder, OneEnd, [Next]_vars PROVE OneEnd'
    OBVIOUS
  <2>0. \A s \in Sandbox : EndsOnce(s) /\ CallsInOrder(s)
    BY DEF OneEnd, InOrder
  <2>1. CASE UNCHANGED vars
    BY <2>0, <2>1 DEF OneEnd, EndsOnce, vars, config_, kernel, processes, monitoring, Monitored
  <2>2. CASE NewWorkerNode \/ PopulateNetworkPool \/ RegisterNodeWithControlPlane \/ Fatal \/ WaitTerminationSignal
    BY <2>0, <2>2, DaemonOneEnd DEF OneEnd
  <2>3. ASSUME NEW s \in Sandbox,
               \/ CreateSandbox(s) \/ Create(s) \/ Exit(s) \/ Monitor(s)
               \/ \E d \in Caller : DeleteSandbox(d, s) \/ Delete(d, s)
        PROVE  OneEnd'
    <3>1. EndsOnce(s)'
      BY <2>0, <2>3, CreateOneEnd, MonitorOneEnd, DeleteOneEnd
    <3>2. \A t \in Sandbox \ {s} : Same(t) /\ NotifyChannels'[t] = NotifyChannels[t] /\ (monitor' = t <=> monitor = t)
      BY <2>0, <2>3, Elsewhere, ChannelElsewhere
    <3>3. \A t \in Sandbox \ {s} : EndsOnce(t)'
      BY <2>0, <3>2, OneEndElsewhere
    <3> QED BY <3>1, <3>3 DEF OneEnd
  <2> QED BY <2>1, <2>2, <2>3 DEF Next
<1>3. TypeOK /\ OneEnd => MonitorIsHeard
  BY DEF TypeOK, OneEnd, EndsOnce, MonitorIsHeard
<1> QED BY <1>1, <1>2, <1>3, TypeCorrect, PTL DEF Spec

----------------------------------------------------------------------------
(* What sandboxes hold *)

LEMMA HeldElsewhere ==
  ASSUME NEW t \in Sandbox, Same(t)
  PROVE  /\ HoldsEntry(t)' <=> HoldsEntry(t)
         /\ HoldsPort(t)' <=> HoldsPort(t)
         /\ HoldsRules(t)' <=> HoldsRules(t)
         /\ HoldsNetwork(t)' <=> HoldsNetwork(t)
         /\ OneDeletion(t) => OneDeletion(t)'
<1>1. \A X : Before(t, X)' <=> Before(t, X)
  BY DEF Before, Same
<1>2. pc'[t] = pc[t] /\ runtime' = runtime
  BY DEF Same
<1>3. HoldsEntry(t)' <=> HoldsEntry(t)
  BY <1>1, <1>2 DEF HoldsEntry, Entered
<1>4. HoldsPort(t)' <=> HoldsPort(t)
  BY <1>1, <1>2 DEF HoldsPort
<1>5. HoldsRules(t)' <=> HoldsRules(t)
  BY <1>1, <1>2 DEF HoldsRules
<1>6. HoldsNetwork(t)' <=> HoldsNetwork(t)
  BY <1>1, <1>2 DEF HoldsNetwork
<1>7. OneDeletion(t) => OneDeletion(t)'
  BY <1>2 DEF OneDeletion, Same, Caller
<1> QED BY <1>3, <1>4, <1>5, <1>6, <1>7

\* While a sandbox is created nobody deletes it: it holds what its stage says.
LEMMA CreateHolds ==
  ASSUME TypeOK, NEW s \in Sandbox, OneDeletion(s), NEW from, NEW to, Goes(s, from, to),
         from \notin {"created", "cleanup", "failed"}, UNCHANGED <<runtime, deletion>>
  PROVE  /\ OneDeletion(s)'
         /\ HoldsEntry(s) <=> from \in Entered
         /\ HoldsEntry(s)' <=> to \in Entered
         /\ HoldsPort(s) <=> from \in Bound
         /\ HoldsPort(s)' <=> to \in Bound
         /\ HoldsRules(s) <=> from \in Ruled
         /\ HoldsRules(s)' <=> to \in Ruled
         /\ HoldsNetwork(s) <=> runtime = "firecracker" /\ from \in Networked
         /\ HoldsNetwork(s)' <=> runtime = "firecracker" /\ to \in Networked
<1>1. pc[s] = from /\ pc'[s] = to /\ \A d \in Caller : deletion[d][s] = "none"
  BY DEF Goes, OneDeletion, Caller, TypeOK
<1>2. OneDeletion(s)'
  BY <1>1 DEF OneDeletion, Caller
<1>3. Entered' = Entered /\ runtime' = runtime
  BY DEF Entered
<1> QED BY <1>1, <1>2, <1>3 DEF HoldsEntry, HoldsPort, HoldsRules, HoldsNetwork, Before

\* A sandbox that is deleted holds what its deletion has not reached.
LEMMA DeleteHolds ==
  ASSUME OneDeleter, TypeOK, NEW s \in Sandbox, OneDeletion(s), NEW d \in Caller, NEW from, NEW to,
         Deletes(d, s, from, to), UNCHANGED <<runtime, pc>>, to # "none",
         \/ from \notin {"none", "done"}
         \/ d = None /\ pc[s] = "cleanup"
         \/ d # None /\ pc[s] = "created"
  PROVE  /\ OneDeletion(s)'
         /\ pc[s] \in {"created", "cleanup"} /\ pc[s] \in Entered
         /\ HoldsEntry(s) <=> from \in {"none", "got"}
         /\ HoldsEntry(s)' <=> to \in {"none", "got"}
         /\ HoldsPort(s) <=> from \in {"none", "got", "removed"}
         /\ HoldsPort(s)' <=> to \in {"none", "got", "removed"}
         /\ HoldsRules(s) <=> from \in {"none", "got", "removed"}
         /\ HoldsRules(s)' <=> to \in {"none", "got", "removed"}
         /\ HoldsNetwork(s) <=> runtime = "firecracker" /\ from \in {"none", "got", "removed", "stop", "network"}
         /\ HoldsNetwork(s)' <=> runtime = "firecracker" /\ to \in {"none", "got", "removed", "stop", "network"}
<1>1. deletion[d][s] = from /\ deletion'[d][s] = to /\ \A e \in Caller \ {d} : deletion'[e][s] = deletion[e][s]
  BY DEF Deletes, TypeOK
<1>2. d \in Deleter => pc[s] = "created"
  BY <1>1, NodeAssumption DEF OneDeletion
<1>3. d = None => pc[s] = "cleanup"
  BY <1>1, NodeAssumption DEF OneDeletion
<1>4. pc[s] \in {"created", "cleanup"} /\ (d \in Deleter \/ d = None)
  BY <1>2, <1>3 DEF Caller
<1>5. \A e \in Caller \ {d} : deletion[e][s] = "none" /\ deletion'[e][s] = "none"
  BY <1>1, <1>2, <1>3, <1>4 DEF OneDeletion, OneDeleter, Caller
<1>6. OneDeletion(s)'
  BY <1>1, <1>2, <1>3, <1>4, <1>5, NodeAssumption DEF OneDeletion, Caller
<1>7. /\ pc[s] \in Entered /\ pc[s] \in Bound /\ pc[s] \in Ruled /\ pc[s] \in Networked
      /\ Entered' = Entered /\ pc' = pc /\ runtime' = runtime
  BY <1>4 DEF Entered, Bound, Started, Networked, Ruled
<1>8. ASSUME NEW X, "none" \in X
      PROVE  (Before(s, X) <=> from \in X) /\ (Before(s, X)' <=> to \in X)
  BY <1>1, <1>5, <1>8 DEF Before
<1> QED BY <1>4, <1>6, <1>7, <1>8 DEF HoldsEntry, HoldsPort, HoldsRules, HoldsNetwork

\* What an action on s does to what it holds.
PortKept(s) ==
  /\ HoldsPort(s)' <=> HoldsPort(s)
  /\ HoldsPort(s) => port'[s] = port[s]
  /\ portsInUse' = portsInUse
PortGot(s) ==
  ~HoldsPort(s) /\ HoldsPort(s)' /\ port'[s] \notin portsInUse /\ portsInUse' = portsInUse \cup {port'[s]}
PortGiven(s) ==
  HoldsPort(s) /\ ~HoldsPort(s)' /\ portsInUse' = portsInUse \ {port[s]}

RulesKept(s) ==
  /\ HoldsRules(s)' <=> HoldsRules(s)
  /\ HoldsRules(s) => port'[s] = port[s]
  /\ rules' = rules
RulesGot(s) ==
  ~HoldsRules(s) /\ HoldsRules(s)' /\ rules' = rules \cup {<<port'[s], s>>}
RulesGiven(s) ==
  HoldsRules(s) /\ ~HoldsRules(s)' /\ rules' = rules \ {<<port[s], s>>}

NetworkKept(s) ==
  /\ HoldsNetwork(s)' <=> HoldsNetwork(s)
  /\ HoldsNetwork(s) => network'[s] = network[s]
  /\ UNCHANGED <<pool, counter, namespaces>>
NetworkGot(s) ==
  /\ ~HoldsNetwork(s) /\ HoldsNetwork(s)'
  /\ network'[s] \in Network /\ GetOneConfig(network'[s])
NetworkFailed(s) ==
  ~HoldsNetwork(s) /\ ~HoldsNetwork(s)' /\ GetOneConfig(Nil)
NetworkGiven(s) ==
  HoldsNetwork(s) /\ ~HoldsNetwork(s)' /\ GiveUpNetwork(network[s])

LEMMA PortsStep ==
  ASSUME PortsAreHeld, NEW s \in Sandbox, \A t \in Sandbox \ {s} : Same(t),
         PortKept(s) \/ PortGot(s) \/ PortGiven(s)
  PROVE  PortsAreHeld'
<1> DEFINE P(t) == HoldsPort(t)
           Q(t) == HoldsPort(t)'
<1>1. \A t \in Sandbox \ {s} : (Q(t) <=> P(t)) /\ port'[t] = port[t]
  BY HeldElsewhere DEF Same
<1>2. /\ \A v : v \in portsInUse <=> \E t \in Sandbox : P(t) /\ port[t] = v
      /\ \A t, u \in Sandbox : P(t) /\ P(u) /\ port[t] = port[u] => t = u
  BY DEF PortsAreHeld
<1>3. SUFFICES /\ \A v : v \in portsInUse' <=> \E t \in Sandbox : Q(t) /\ port'[t] = v
               /\ \A t, u \in Sandbox : Q(t) /\ Q(u) /\ port'[t] = port'[u] => t = u
  BY DEF PortsAreHeld
<1>4. CASE PortKept(s)
  <2>1. /\ Q(s) <=> P(s)
        /\ P(s) => port'[s] = port[s]
        /\ portsInUse' = portsInUse
    BY <1>4 DEF PortKept
  <2> HIDE DEF P, Q
  <2> QED BY <1>1, <1>2, <2>1
<1>5. CASE PortGot(s)
  <2>1. ~P(s) /\ Q(s) /\ port'[s] \notin portsInUse /\ portsInUse' = portsInUse \cup {port'[s]}
    BY <1>5 DEF PortGot
  <2> HIDE DEF P, Q
  <2> QED BY <1>1, <1>2, <2>1
<1>6. CASE PortGiven(s)
  <2>1. P(s) /\ ~Q(s) /\ portsInUse' = portsInUse \ {port[s]}
    BY <1>6 DEF PortGiven
  <2> HIDE DEF P, Q
  <2> QED BY <1>1, <1>2, <2>1
<1> QED BY <1>4, <1>5, <1>6

LEMMA RulesStep ==
  ASSUME RulesAreHeld, daemon # "dead", NEW s \in Sandbox, \A t \in Sandbox \ {s} : Same(t),
         RulesKept(s) \/ RulesGot(s) \/ RulesGiven(s)
  PROVE  RulesAreHeld'
<1> DEFINE P(t) == HoldsRules(t)
           Q(t) == HoldsRules(t)'
<1>1. \A t \in Sandbox \ {s} : (Q(t) <=> P(t)) /\ port'[t] = port[t]
  BY HeldElsewhere DEF Same
<1>2. rules = {<<port[t], t>> : t \in {u \in Sandbox : P(u)}}
  BY DEF RulesAreHeld
<1>3. SUFFICES rules' = {<<port'[t], t>> : t \in {u \in Sandbox : Q(u)}}
  BY DEF RulesAreHeld
<1>4. CASE RulesKept(s)
  <2>1. /\ Q(s) <=> P(s)
        /\ P(s) => port'[s] = port[s]
        /\ rules' = rules
    BY <1>4 DEF RulesKept
  <2> HIDE DEF P, Q
  <2> QED BY <1>1, <1>2, <2>1
<1>5. CASE RulesGot(s)
  <2>1. ~P(s) /\ Q(s) /\ rules' = rules \cup {<<port'[s], s>>}
    BY <1>5 DEF RulesGot
  <2> HIDE DEF P, Q
  <2> QED BY <1>1, <1>2, <2>1
<1>6. CASE RulesGiven(s)
  <2>1. P(s) /\ ~Q(s) /\ rules' = rules \ {<<port[s], s>>}
    BY <1>6 DEF RulesGiven
  <2> HIDE DEF P, Q
  <2> QED BY <1>1, <1>2, <2>1
<1> QED BY <1>4, <1>5, <1>6

LEMMA SoundPool == NetworksAreHeld => PoolIsSound
  BY DEF NetworksAreHeld, PoolIsSound, NoneTwice

LEMMA NetworksStep ==
  ASSUME TypeOK, InOrder, NetworksAreHeld, NEW s \in Sandbox, \A t \in Sandbox \ {s} : Same(t),
         NetworkKept(s) \/ NetworkGot(s) \/ NetworkFailed(s) \/ NetworkGiven(s)
  PROVE  /\ NetworksAreHeld'
         /\ daemon # "dead" /\ NamespacesAreHeld => NamespacesAreHeld'
<1> DEFINE P(t) == HoldsNetwork(t)
           Q(t) == HoldsNetwork(t)'
<1>1. \A t \in Sandbox \ {s} : (Q(t) <=> P(t)) /\ network'[t] = network[t]
  BY HeldElsewhere DEF Same
<1>2. /\ \A t \in Sandbox : P(t) => network[t] \in Network
      /\ Network \subseteq Nat /\ counter \in Nat /\ Nil \notin Network /\ Free \subseteq Network
  <2>1. \A t \in Sandbox : P(t) => network[t] \in Network
    BY DEF TypeOK, InOrder, CallsInOrder, HoldsNetwork
  <2>2. Network \subseteq Nat /\ counter \in Nat /\ Nil \notin Network
    BY PoolTypes, PoolSize, PoolAssumption DEF TypeOK, Network
  <2>3. Free \subseteq Network
    BY PoolTypes DEF TypeOK, Free, Config
  <2> QED BY <2>1, <2>2, <2>3
<1>3. /\ \A t \in Sandbox : P(t) => network[t] \notin Free /\ network[t] < counter
      /\ \A t, u \in Sandbox : P(t) /\ P(u) /\ network[t] = network[u] => t = u
  BY DEF NetworksAreHeld
<1>4. daemon # "dead" /\ NamespacesAreHeld
        => \A v : v \in namespaces <=> v \in Free \/ \E t \in Sandbox : P(t) /\ network[t] = v
  BY DEF NamespacesAreHeld
<1>5. SUFFICES /\ PoolIsSound'
               /\ \A t \in Sandbox : Q(t) => network'[t] \notin Free' /\ network'[t] < counter'
               /\ \A t, u \in Sandbox : Q(t) /\ Q(u) /\ network'[t] = network'[u] => t = u
               /\ daemon # "dead" /\ NamespacesAreHeld
                    => \A v : v \in namespaces' <=> v \in Free' \/ \E t \in Sandbox : Q(t) /\ network'[t] = v
  <2>1. NetworksAreHeld'
    BY <1>5 DEF NetworksAreHeld, PoolIsSound, NoneTwice
  <2>2. daemon # "dead" /\ NamespacesAreHeld => NamespacesAreHeld'
    BY <1>5 DEF NamespacesAreHeld
  <2> QED BY <2>1, <2>2
<1>6. CASE NetworkKept(s)
  <2>1. /\ Q(s) <=> P(s)
        /\ P(s) => network'[s] = network[s]
        /\ pool' = pool /\ counter' = counter /\ namespaces' = namespaces
    BY <1>6 DEF NetworkKept
  <2>2. Free' = Free /\ PoolIsSound'
    BY <2>1, SoundPool DEF Free, PoolIsSound
  <2> HIDE DEF P, Q
  <2> QED BY <1>1, <1>3, <1>4, <2>1, <2>2
<1>7. CASE NetworkGot(s)
  <2> DEFINE config == network'[s]
  <2>1. ~P(s) /\ Q(s) /\ config \in Network /\ GetOneConfig(config)
    BY <1>7 DEF NetworkGot
  <2>2. /\ PoolIsSound' /\ counter <= counter' /\ Free' = Free \ {config} /\ config < counter'
        /\ \/ config \in Free /\ namespaces' = namespaces
           \/ counter <= config /\ namespaces' = namespaces \cup {config}
    <3>1. config \in Config /\ config # Nil
      BY <1>2, <2>1 DEF Config
    <3> HIDE DEF config
    <3> QED BY <2>1, <3>1, GetStep, SoundPool DEF TypeOK
  <2>3. counter' \in Nat
    <3>1. config \in Config
      BY <1>2, <2>1 DEF Config
    <3>2. PoolTypeOK'
      BY <2>1, <3>1, GetTypes DEF TypeOK
    <3> QED BY <3>2, PoolTypesNext, PoolSize
  <2> HIDE DEF P, Q
  <2>4. \A t \in Sandbox \ {s} : P(t) => network[t] # config /\ network[t] < counter'
    <3> SUFFICES ASSUME NEW t \in Sandbox \ {s}, P(t) PROVE network[t] # config /\ network[t] < counter'
      OBVIOUS
    <3>1. network[t] \in Nat /\ config \in Nat /\ network[t] \notin Free /\ network[t] < counter
      BY <1>2, <1>3, <2>1
    <3> HIDE DEF config
    <3> QED BY <3>1, <2>2, <2>3, <1>2
  <2>5. \A t \in Sandbox : Q(t) => network'[t] \notin Free' /\ network'[t] < counter'
    BY <1>1, <1>3, <2>1, <2>2, <2>4
  <2>6. \A t, u \in Sandbox : Q(t) /\ Q(u) /\ network'[t] = network'[u] => t = u
    BY <1>1, <1>3, <2>1, <2>4
  <2>7. ASSUME daemon # "dead" /\ NamespacesAreHeld, NEW v
        PROVE  v \in namespaces' <=> v \in Free' \/ \E t \in Sandbox : Q(t) /\ network'[t] = v
    BY <1>1, <1>4, <2>1, <2>2, <2>4, <2>7
  <2> QED BY <2>2, <2>5, <2>6, <2>7
<1>8. CASE NetworkGiven(s)
  <2>1. P(s) /\ ~Q(s) /\ GiveUpNetwork(network[s])
    BY <1>8 DEF NetworkGiven
  <2>2. /\ PoolIsSound' /\ counter' = counter
        /\ \/ Free' = Free \cup {network[s]} /\ namespaces' = namespaces
           \/ Free' = Free /\ namespaces' = namespaces \ {network[s]}
    BY <1>2, <1>3, <2>1, GiveUpStep, SoundPool DEF TypeOK
  <2> HIDE DEF P, Q
  <2>3. \A t \in Sandbox \ {s} : P(t) => network[t] # network[s]
    BY <1>3, <2>1
  <2>4. \A t \in Sandbox : Q(t) => network'[t] \notin Free' /\ network'[t] < counter'
    BY <1>1, <1>3, <2>1, <2>2, <2>3
  <2>5. \A t, u \in Sandbox : Q(t) /\ Q(u) /\ network'[t] = network'[u] => t = u
    BY <1>1, <1>3, <2>1
  <2>6. ASSUME daemon # "dead" /\ NamespacesAreHeld, NEW v
        PROVE  v \in namespaces' <=> v \in Free' \/ \E t \in Sandbox : Q(t) /\ network'[t] = v
    BY <1>1, <1>3, <1>4, <2>1, <2>2, <2>3, <2>6
  <2> QED BY <2>2, <2>4, <2>5, <2>6
<1>9. CASE NetworkFailed(s)
  <2>1. ~P(s) /\ ~Q(s) /\ GetOneConfig(Nil) /\ Nil \in Config
    BY <1>9 DEF NetworkFailed, Config
  <2>2. PoolIsSound' /\ counter <= counter' /\ Free' = Free /\ namespaces' = namespaces
    BY <2>1, GetStep, SoundPool DEF TypeOK
  <2>3. counter' \in Nat
    BY <2>1, GetTypes, PoolTypesNext, PoolSize DEF TypeOK
  <2> HIDE DEF P, Q
  <2>4. ASSUME NEW t \in Sandbox, P(t) PROVE network[t] < counter'
    <3>1. network[t] \in Nat /\ network[t] < counter /\ counter \in Nat
      BY <1>2, <1>3, <2>4
    <3> QED BY <2>2, <2>3, <3>1
  <2> QED BY <1>1, <1>3, <1>4, <2>1, <2>2, <2>4
<1> QED BY <1>6, <1>7, <1>8, <1>9

\* One sandbox's part of the invariant, and what a step does to it.
Kept(s) ==
  /\ OneDeletion(s)' /\ (s \in Metadata' <=> HoldsEntry(s)')
  /\ PortKept(s) \/ PortGot(s) \/ PortGiven(s)
  /\ NetworkKept(s) \/ NetworkGot(s) \/ NetworkFailed(s) \/ NetworkGiven(s)
  /\ "iptables" \notin Faults => RulesKept(s) \/ RulesGot(s) \/ RulesGiven(s)

LEMMA CreateKept ==
  ASSUME TypeOK, NEW s \in Sandbox, CallsInOrder(s), OneDeletion(s), s \in Metadata <=> HoldsEntry(s),
         CreateSandbox(s) \/ Create(s)
  PROVE  Kept(s)
<1> DEFINE G(from, to) ==
             /\ HoldsEntry(s) <=> from \in Entered
             /\ HoldsEntry(s)' <=> to \in Entered
             /\ HoldsPort(s) <=> from \in Bound
             /\ HoldsPort(s)' <=> to \in Bound
             /\ HoldsRules(s) <=> from \in Ruled
             /\ HoldsRules(s)' <=> to \in Ruled
             /\ HoldsNetwork(s) <=> runtime = "firecracker" /\ from \in Networked
             /\ HoldsNetwork(s)' <=> runtime = "firecracker" /\ to \in Networked
<1>0. ASSUME NEW from, NEW to, Goes(s, from, to), from \notin {"created", "cleanup", "failed"},
             UNCHANGED <<runtime, deletion>>
      PROVE  G(from, to) /\ OneDeletion(s)' /\ pc[s] = from
  BY <1>0, CreateHolds DEF Goes
<1> HIDE DEF G
<1> DEFINE keepsPort == port' = port /\ portsInUse' = portsInUse
           keepsNetwork == network' = network /\ pool' = pool /\ counter' = counter /\ namespaces' = namespaces
           keepsAll == Metadata' = Metadata /\ keepsPort /\ keepsNetwork /\ rules' = rules
<1>a. ASSUME NEW from, NEW to, G(from, to), OneDeletion(s)', keepsAll,
             /\ from \in Entered <=> to \in Entered
             /\ from \in Bound <=> to \in Bound
             /\ from \in Ruled <=> to \in Ruled
             /\ runtime = "firecracker" => (from \in Networked <=> to \in Networked)
      PROVE  Kept(s)
  BY <1>a DEF Kept, PortKept, NetworkKept, RulesKept, G
<1> USE DEF Entered, Bound, Started, Networked, Ruled, node, config_, ports, networks
<1>1. CASE CreateSandbox(s)
  <2>1. PICK to \in {"image", "network"} : Goes(s, "idle", to)
    BY <1>1 DEF CreateSandbox
  <2> QED BY <1>1, <2>1, <1>0, <1>a DEF CreateSandbox
<1>2. CASE GetImage(s)
  <2>1. PICK to \in {"start", "failed"} : Goes(s, "image", to)
    BY <1>2 DEF GetImage, MayFail
  <2>2. runtime # "firecracker"
    BY <2>1 DEF Goes, CallsInOrder
  <2> QED BY <1>2, <2>1, <2>2, <1>0, <1>a DEF GetImage
<1>3. CASE StartContainer(s)
  <2>1. PICK to \in {"port", "failed"} : Goes(s, "start", to)
    BY <1>3 DEF StartContainer
  <2>2. runtime # "firecracker"
    BY <1>3 DEF StartContainer
  <2> QED BY <1>3, <2>1, <2>2, <1>0, <1>a DEF StartContainer
<1>4. CASE GetNetwork(s)
  <2>1. PICK config \in Network \cup {Nil} :
          /\ GetOneConfig(config)
          /\ Goes(s, "network", IF config = Nil THEN "failed" ELSE "start")
          /\ network' = [network EXCEPT ![s] = IF config = Nil THEN None ELSE config]
    BY <1>4 DEF GetNetwork
  <2>2. runtime = "firecracker"
    BY <2>1, NodeAssumption DEF TypeOK, CallsInOrder, Goes
  <2>3. CASE config = Nil
    <3>1. Goes(s, "network", "failed")
      BY <2>1, <2>3
    <3>2. G("network", "failed") /\ OneDeletion(s)'
      BY <1>4, <3>1, <1>0 DEF GetNetwork
    <3>3. NetworkFailed(s) /\ PortKept(s) /\ RulesKept(s) /\ (s \in Metadata' <=> HoldsEntry(s)')
      BY <1>4, <2>1, <2>3, <3>2 DEF GetNetwork, NetworkFailed, PortKept, RulesKept, G
    <3> QED BY <3>2, <3>3 DEF Kept
  <2>4. CASE config # Nil
    <3>1. Goes(s, "network", "start")
      BY <2>1, <2>4
    <3>2. G("network", "start") /\ OneDeletion(s)'
      BY <1>4, <3>1, <1>0 DEF GetNetwork
    <3>3. network'[s] = config /\ config \in Network
      BY <2>1, <2>4 DEF TypeOK
    <3>4. NetworkGot(s)
      BY <2>1, <2>2, <3>2, <3>3 DEF NetworkGot, G
    <3>5. PortKept(s) /\ RulesKept(s) /\ (s \in Metadata' <=> HoldsEntry(s)')
      BY <1>4, <3>2 DEF GetNetwork, PortKept, RulesKept, G
    <3> QED BY <3>2, <3>4, <3>5 DEF Kept
  <2> QED BY <2>3, <2>4
<1>5. CASE StartFirecrackerVM(s)
  <2>1. CASE Goes(s, "start", "port") /\ UNCHANGED networks
    BY <1>5, <2>1, <1>0, <1>a DEF StartFirecrackerVM
  <2>2. CASE Goes(s, "start", "failed") /\ GiveUpNetwork(network[s])
    <3>1. G("start", "failed") /\ OneDeletion(s)'
      BY <1>5, <2>2, <1>0 DEF StartFirecrackerVM
    <3>2. NetworkGiven(s) /\ PortKept(s) /\ RulesKept(s) /\ (s \in Metadata' <=> HoldsEntry(s)')
      BY <1>5, <2>2, <3>1 DEF StartFirecrackerVM, NetworkGiven, PortKept, RulesKept, G
    <3> QED BY <3>1, <3>2 DEF Kept
  <2> QED BY <1>5, <2>1, <2>2 DEF StartFirecrackerVM
<1>6. CASE AssignRandomPort(s)
  <2>1. PICK p \in IF portsInUse = Port THEN {None} ELSE Port \ portsInUse :
          /\ Goes(s, "port", IF p = None THEN "port" ELSE IF runtime = "containerd" THEN "channel" ELSE "pid")
          /\ portsInUse' = portsInUse \cup ({p} \ {None})
          /\ port' = [port EXCEPT ![s] = p]
    BY <1>6 DEF AssignRandomPort
  <2>2. port'[s] = p
    BY <2>1 DEF TypeOK
  <2>3. CASE p = None
    <3>1. G("port", "port") /\ OneDeletion(s)'
      BY <1>6, <2>1, <2>3, <1>0 DEF AssignRandomPort
    <3>2. portsInUse' = portsInUse
      BY <2>1, <2>3
    <3>3. PortKept(s) /\ RulesKept(s) /\ NetworkKept(s) /\ (s \in Metadata' <=> HoldsEntry(s)')
      BY <1>6, <3>1, <3>2 DEF AssignRandomPort, PortKept, RulesKept, NetworkKept, G
    <3> QED BY <3>1, <3>3 DEF Kept
  <2>4. CASE p # None
    <3>1. PICK to \in {"channel", "pid"} : Goes(s, "port", to) /\ (to = "channel" <=> runtime = "containerd")
      BY <2>1, <2>4
    <3>2. G("port", to) /\ OneDeletion(s)'
      BY <1>6, <3>1, <1>0 DEF AssignRandomPort
    <3>3. p \notin portsInUse /\ portsInUse' = portsInUse \cup {p}
      BY <2>1, <2>4
    <3>4. PortGot(s)
      BY <2>2, <3>2, <3>3 DEF PortGot, G
    <3>5. RulesKept(s) /\ NetworkKept(s) /\ (s \in Metadata' <=> HoldsEntry(s)')
      BY <1>6, <3>1, <3>2 DEF AssignRandomPort, RulesKept, NetworkKept, G
    <3> QED BY <3>2, <3>4, <3>5 DEF Kept
  <2> QED BY <2>3, <2>4
<1>7. CASE VMPid(s)
  <2>0. pc[s] = "pid" /\ runtime = "firecracker"
    BY <1>7, NodeAssumption DEF VMPid, Goes, TypeOK, CallsInOrder
  <2>1. CASE Goes(s, "pid", "metadata") /\ UNCHANGED <<networks, ports>>
    BY <1>7, <2>0, <2>1, <1>0, <1>a DEF VMPid
  <2>2. CASE Goes(s, "pid", "failed") /\ GiveUpNetwork(network[s]) /\ UnassignPort(s)
    <3>1. G("pid", "failed") /\ OneDeletion(s)'
      BY <1>7, <2>2, <1>0 DEF VMPid
    <3>2. NetworkGiven(s) /\ PortGiven(s) /\ RulesKept(s) /\ (s \in Metadata' <=> HoldsEntry(s)')
      BY <1>7, <2>0, <2>2, <3>1 DEF VMPid, UnassignPort, NetworkGiven, PortGiven, RulesKept, G
    <3> QED BY <3>1, <3>2 DEF Kept
  <2> QED BY <1>7, <2>1, <2>2 DEF VMPid
<1>8. CASE AddSandbox(s)
  <2>1. PICK to \in {"rules", "channel"} : Goes(s, "metadata", to) /\ (to = "rules" <=> runtime = "containerd")
    BY <1>8 DEF AddSandbox
  <2>2. G("metadata", to) /\ OneDeletion(s)' /\ s \in Metadata'
    BY <1>8, <2>1, <1>0 DEF AddSandbox
  <2>3. HoldsEntry(s)'
    BY <2>1, <2>2 DEF G
  <2>4. PortKept(s) /\ RulesKept(s) /\ NetworkKept(s)
    BY <1>8, <2>2 DEF AddSandbox, PortKept, RulesKept, NetworkKept, G
  <2> QED BY <2>2, <2>3, <2>4 DEF Kept
<1>9. CASE AddChannel(s)
  <2>1. PICK to \in {"metadata", "rules"} : Goes(s, "channel", to) /\ (to = "metadata" <=> runtime = "containerd")
    BY <1>9 DEF AddChannel
  <2> QED BY <1>9, <2>1, <1>0, <1>a DEF AddChannel
<1>10. CASE AddRules(s)
  <2>1. PICK to \in {"created", "probe"} : Goes(s, "rules", to) /\ (to = "created" <=> runtime = "containerd")
    BY <1>10 DEF AddRules
  <2>2. G("rules", to) /\ OneDeletion(s)'
    BY <1>10, <2>1, <1>0 DEF AddRules
  <2>3. "iptables" \notin Faults => RulesGot(s)
    BY <1>10, <2>2 DEF AddRules, RulesGot, G
  <2>4. PortKept(s) /\ NetworkKept(s) /\ (s \in Metadata' <=> HoldsEntry(s)')
    BY <1>10, <2>1, <2>2 DEF AddRules, PortKept, NetworkKept, G
  <2> QED BY <2>2, <2>3, <2>4 DEF Kept
<1>11. CASE SendReadinessProbe(s)
  <2>1. PICK to \in {"snapshot", "created", "cleanup"} : Goes(s, "probe", to)
    BY <1>11 DEF SendReadinessProbe
  <2> QED BY <1>11, <2>1, <1>0, <1>a DEF SendReadinessProbe
<1>12. CASE CreateVMSnapshot(s)
  <2>1. PICK to \in {"created", "cleanup"} : Goes(s, "snapshot", to)
    BY <1>12 DEF CreateVMSnapshot
  <2> QED BY <1>12, <2>1, <1>0, <1>a DEF CreateVMSnapshot
<1>13. CASE CleanedUp(s)
  <2>1. /\ deletion[None][s] = "done" /\ pc[s] = "cleanup" /\ pc'[s] = "failed" /\ keepsAll
        /\ deletion' = deletion /\ runtime' = runtime /\ None \in Caller
    BY <1>13 DEF CleanedUp, Goes, TypeOK, Caller
  <2>2. OneDeletion(s)'
    BY <2>1 DEF OneDeletion
  <2>3. /\ ~HoldsEntry(s) /\ ~HoldsPort(s) /\ ~HoldsRules(s) /\ ~HoldsNetwork(s)
        /\ ~HoldsEntry(s)' /\ ~HoldsPort(s)' /\ ~HoldsRules(s)' /\ ~HoldsNetwork(s)'
    BY <2>1 DEF HoldsEntry, HoldsPort, HoldsRules, HoldsNetwork, Before
  <2> QED BY <2>1, <2>2, <2>3 DEF Kept, PortKept, NetworkKept, RulesKept
<1> QED BY <1>1, <1>2, <1>3, <1>4, <1>5, <1>6, <1>7, <1>8, <1>9, <1>10, <1>11, <1>12, <1>13 DEF Create

LEMMA DeleteKept ==
  ASSUME OneDeleter, "listed" \notin Faults, TypeOK, NEW s \in Sandbox, CallsInOrder(s), OneDeletion(s),
         s \in Metadata <=> HoldsEntry(s), NEW d \in Caller, DeleteSandbox(d, s) \/ Delete(d, s)
  PROVE  Kept(s)
<1> DEFINE H(from, to) ==
             /\ OneDeletion(s)'
             /\ HoldsEntry(s) <=> from \in {"none", "got"}
             /\ HoldsEntry(s)' <=> to \in {"none", "got"}
             /\ HoldsPort(s) <=> from \in {"none", "got", "removed"}
             /\ HoldsPort(s)' <=> to \in {"none", "got", "removed"}
             /\ HoldsRules(s) <=> from \in {"none", "got", "removed"}
             /\ HoldsRules(s)' <=> to \in {"none", "got", "removed"}
             /\ HoldsNetwork(s) <=> runtime = "firecracker" /\ from \in {"none", "got", "removed", "stop", "network"}
             /\ HoldsNetwork(s)' <=> runtime = "firecracker" /\ to \in {"none", "got", "removed", "stop", "network"}
<1>0. ASSUME NEW from, NEW to, Deletes(d, s, from, to), UNCHANGED <<runtime, pc>>, to # "none",
             \/ from \notin {"none", "done"}
             \/ d = None /\ pc[s] = "cleanup"
             \/ d # None /\ pc[s] = "created"
      PROVE  H(from, to)
  BY <1>0, DeleteHolds
<1> USE DEF node, config_, ports, networks
<1>1. CASE DeleteSandbox(d, s)
  <2> DEFINE to == IF s \in Metadata THEN "got" ELSE "done"
  <2>1. /\ Deletes(d, s, "none", to) /\ UNCHANGED <<runtime, pc>>
        /\ (d = None /\ pc[s] = "cleanup") \/ (d # None /\ pc[s] = "created")
    BY <1>1 DEF DeleteSandbox
  <2>2. H("none", to)
    <3>1. to # "none"
      OBVIOUS
    <3> HIDE DEF to, H
    <3> QED BY <1>0, <2>1, <3>1
  <2>3. to = "got"
    BY <2>2
  <2> HIDE DEF to
  <2>4. PortKept(s) /\ RulesKept(s) /\ NetworkKept(s) /\ (s \in Metadata' <=> HoldsEntry(s)')
    BY <1>1, <2>2, <2>3 DEF DeleteSandbox, PortKept, RulesKept, NetworkKept
  <2> QED BY <2>2, <2>4 DEF Kept
<1>2. CASE RemoveMetadata(d, s)
  <2>1. H("got", "removed")
    BY <1>0, <1>2 DEF RemoveMetadata
  <2>2. PortKept(s) /\ RulesKept(s) /\ NetworkKept(s) /\ (s \in Metadata' <=> HoldsEntry(s)')
    BY <1>2, <2>1 DEF RemoveMetadata, PortKept, RulesKept, NetworkKept
  <2> QED BY <2>1, <2>2 DEF Kept
<1>3. CASE DeleteRules(d, s)
  <2>1. H("removed", "stop")
    BY <1>0, <1>3 DEF DeleteRules
  <2>2. PortGiven(s) /\ NetworkKept(s) /\ (s \in Metadata' <=> HoldsEntry(s)')
    BY <1>3, <2>1 DEF DeleteRules, UnassignPort, PortGiven, NetworkKept
  <2>3. "iptables" \notin Faults => RulesGiven(s)
    BY <1>3, <2>1 DEF DeleteRules, RulesGiven
  <2> QED BY <2>1, <2>2, <2>3 DEF Kept
<1>4. CASE DeleteContainer(d, s)
  <2>1. H("stop", "done") /\ runtime # "firecracker"
    BY <1>0, <1>4 DEF DeleteContainer
  <2>2. PortKept(s) /\ RulesKept(s) /\ NetworkKept(s) /\ (s \in Metadata' <=> HoldsEntry(s)')
    BY <1>4, <2>1 DEF DeleteContainer, PortKept, RulesKept, NetworkKept
  <2> QED BY <2>1, <2>2 DEF Kept
<1>5. CASE StopFirecrackerVM(d, s)
  <2>1. H("stop", "network")
    BY <1>0, <1>5 DEF StopFirecrackerVM
  <2>2. PortKept(s) /\ RulesKept(s) /\ NetworkKept(s) /\ (s \in Metadata' <=> HoldsEntry(s)')
    BY <1>5, <2>1 DEF StopFirecrackerVM, PortKept, RulesKept, NetworkKept
  <2> QED BY <2>1, <2>2 DEF Kept
<1>6. CASE ReleaseNetwork(d, s)
  <2>1. H("network", "done")
    BY <1>0, <1>6 DEF ReleaseNetwork
  <2>2. runtime = "firecracker"
    BY <1>6, NodeAssumption DEF ReleaseNetwork, Deletes, CallsInOrder, Before, TypeOK
  <2>3. NetworkGiven(s) /\ PortKept(s) /\ RulesKept(s) /\ (s \in Metadata' <=> HoldsEntry(s)')
    BY <1>6, <2>1, <2>2 DEF ReleaseNetwork, NetworkGiven, PortKept, RulesKept
  <2> QED BY <2>1, <2>3 DEF Kept
<1> QED BY <1>1, <1>2, <1>3, <1>4, <1>5, <1>6 DEF Delete

LEMMA MonitorKept ==
  ASSUME NEW s \in Sandbox, OneDeletion(s), s \in Metadata <=> HoldsEntry(s), Exit(s) \/ Monitor(s)
  PROVE  Kept(s)
<1>1. /\ UNCHANGED <<runtime, pc, port, network, Metadata, deletion, portsInUse, rules>>
      /\ UNCHANGED <<pool, counter, namespaces>>
  BY DEF Exit, Monitor, ReadPCN, WatchExitChannel, ReportFailure, node, config_, ports, networks
<1>2. /\ HoldsEntry(s)' <=> HoldsEntry(s)
      /\ HoldsPort(s)' <=> HoldsPort(s)
      /\ HoldsRules(s)' <=> HoldsRules(s)
      /\ HoldsNetwork(s)' <=> HoldsNetwork(s)
      /\ OneDeletion(s)'
  BY <1>1 DEF HoldsEntry, HoldsPort, HoldsRules, HoldsNetwork, OneDeletion, Before, Entered
<1> QED BY <1>1, <1>2 DEF Kept, PortKept, RulesKept, NetworkKept

\* Everything that sandboxes hold: what the daemon promises of its resources.
Held == EntriesAreHeld /\ PortsAreHeld /\ NetworksAreHeld
KernelHeld == RulesAreHeld /\ NamespacesAreHeld

LEMMA SandboxHeld ==
  ASSUME OneDeleter, "listed" \notin Faults, TypeOK, InOrder, Held, NEW s \in Sandbox,
         \/ CreateSandbox(s) \/ Create(s) \/ Exit(s) \/ Monitor(s)
         \/ \E d \in Caller : DeleteSandbox(d, s) \/ Delete(d, s)
  PROVE  /\ Held'
         /\ "iptables" \notin Faults /\ daemon # "dead" /\ KernelHeld => KernelHeld'
<1>1. /\ CallsInOrder(s)
      /\ \A t \in Sandbox : OneDeletion(t) /\ (t \in Metadata <=> HoldsEntry(t))
  BY DEF InOrder, Held, EntriesAreHeld
<1>2. Kept(s)
  BY <1>1, CreateKept, MonitorKept, DeleteKept
<1>3. \A t \in Sandbox \ {s} : Same(t)
  BY Elsewhere
<1>4. EntriesAreHeld'
  <2>1. ASSUME NEW t \in Sandbox \ {s} PROVE OneDeletion(t)' /\ (t \in Metadata' <=> HoldsEntry(t)')
    <3>1. Same(t) /\ (t \in Metadata' <=> t \in Metadata)
      BY <1>3 DEF Same
    <3> QED BY <1>1, <3>1, HeldElsewhere
  <2>2. OneDeletion(s)' /\ (s \in Metadata' <=> HoldsEntry(s)')
    BY <1>2 DEF Kept
  <2> QED BY <2>1, <2>2 DEF EntriesAreHeld
<1>5. PortsAreHeld'
  BY <1>2, <1>3, PortsStep DEF Kept, Held
<1>6. NetworksAreHeld' /\ (daemon # "dead" /\ NamespacesAreHeld => NamespacesAreHeld')
  BY <1>2, <1>3, NetworksStep DEF Kept, Held
<1>7. "iptables" \notin Faults /\ daemon # "dead" /\ RulesAreHeld => RulesAreHeld'
  BY <1>2, <1>3, RulesStep DEF Kept
<1> QED BY <1>4, <1>5, <1>6, <1>7 DEF Held, KernelHeld

\* Nobody holds anything while no daemon is up.
LEMMA NobodyHolds ==
  ASSUME TypeOK, InOrder, daemon # "up", NEW s \in Sandbox
  PROVE  ~HoldsEntry(s) /\ ~HoldsPort(s) /\ ~HoldsRules(s) /\ ~HoldsNetwork(s)
<1>1. pc[s] \in {"idle", "lost"}
  BY DEF InOrder, CallsInOrder
<1> QED BY <1>1 DEF HoldsEntry, HoldsPort, HoldsRules, HoldsNetwork, Entered, Bound, Started, Networked, Ruled

LEMMA ProcessEndsHeld ==
  ASSUME NEW how, ProcessEnds(how)
  PROVE  /\ Held'
         /\ rules' = {} /\ namespaces' = {} => KernelHeld'
<1>1. \A s \in Sandbox : pc'[s] \in {"idle", "lost"}
  BY DEF ProcessEnds
<1>2. \A s \in Sandbox : ~HoldsEntry(s)' /\ ~HoldsPort(s)' /\ ~HoldsRules(s)' /\ ~HoldsNetwork(s)'
  BY <1>1 DEF HoldsEntry, HoldsPort, HoldsRules, HoldsNetwork, Entered, Bound, Started, Networked, Ruled
<1>3. Metadata' = {} /\ portsInUse' = {} /\ pool' = <<>> /\ deletion' = [d \in Caller |-> Fresh("none")]
  BY DEF ProcessEnds
<1>4. EntriesAreHeld'
  <2>1. \A s \in Sandbox : OneDeletion(s)'
    BY <1>3 DEF OneDeletion, Fresh, Caller
  <2> QED BY <1>2, <1>3, <2>1 DEF EntriesAreHeld
<1>5. PortsAreHeld'
  BY <1>2, <1>3 DEF PortsAreHeld
<1>6. Free' = {} /\ DOMAIN pool' = {}
  BY <1>3 DEF Free
<1>7. NetworksAreHeld'
  BY <1>2, <1>6 DEF NetworksAreHeld
<1>8. rules' = {} /\ namespaces' = {} => KernelHeld'
  BY <1>2, <1>6 DEF KernelHeld, RulesAreHeld, NamespacesAreHeld
<1> QED BY <1>4, <1>5, <1>7, <1>8 DEF Held

\* What sandboxes hold when none of them takes the step.
LEMMA HeldByNobodyElse ==
  ASSUME UNCHANGED <<runtime, pc, port, network, Metadata, portsInUse, rules, deletion>>, NEW s \in Sandbox
  PROVE  /\ HoldsEntry(s)' <=> HoldsEntry(s)
         /\ HoldsPort(s)' <=> HoldsPort(s)
         /\ HoldsRules(s)' <=> HoldsRules(s)
         /\ HoldsNetwork(s)' <=> HoldsNetwork(s)
         /\ OneDeletion(s)' <=> OneDeletion(s)
  BY DEF HoldsEntry, HoldsPort, HoldsRules, HoldsNetwork, OneDeletion, Before, Entered

LEMMA UntouchedHeld ==
  ASSUME UNCHANGED <<runtime, pc, port, network, Metadata, portsInUse, rules, deletion>>,
         daemon = "dead" => daemon' = "dead"
  PROVE  /\ EntriesAreHeld /\ PortsAreHeld => EntriesAreHeld' /\ PortsAreHeld'
         /\ RulesAreHeld => RulesAreHeld'
         /\ UNCHANGED <<pool, counter, namespaces>>
              => (NetworksAreHeld => NetworksAreHeld') /\ (NamespacesAreHeld => NamespacesAreHeld')
<1>1. EntriesAreHeld => EntriesAreHeld'
  BY HeldByNobodyElse DEF EntriesAreHeld
<1>2. PortsAreHeld => PortsAreHeld'
  BY HeldByNobodyElse DEF PortsAreHeld
<1>3. RulesAreHeld => RulesAreHeld'
  BY HeldByNobodyElse DEF RulesAreHeld
<1>4. UNCHANGED <<pool, counter, namespaces>> => Free' = Free
  BY DEF Free
<1>5. UNCHANGED <<pool, counter, namespaces>> => (NetworksAreHeld => NetworksAreHeld')
  BY <1>4, HeldByNobodyElse DEF NetworksAreHeld
<1>6. UNCHANGED <<pool, counter, namespaces>> => (NamespacesAreHeld => NamespacesAreHeld')
  BY <1>4, HeldByNobodyElse DEF NamespacesAreHeld
<1> QED BY <1>1, <1>2, <1>3, <1>5, <1>6

LEMMA DaemonHeld ==
  ASSUME TypeOK, InOrder, Held,
         NewWorkerNode \/ PopulateNetworkPool \/ RegisterNodeWithControlPlane \/ Fatal \/ WaitTerminationSignal
  PROVE  /\ Held'
         /\ "crash" \notin Faults /\ KernelHeld => KernelHeld'
<1> DEFINE untouched == UNCHANGED <<runtime, pc, port, network, Metadata, portsInUse, rules, deletion>>
<1>1. CASE NewWorkerNode
  <2>1. untouched /\ daemon # "up" /\ daemon' # "dead" /\ ("crash" \notin Faults => daemon # "dead")
    BY <1>1 DEF NewWorkerNode, config_, ports
  <2>2. CASE UNCHANGED networks
    <3>1. EntriesAreHeld' /\ PortsAreHeld' /\ NetworksAreHeld'
      <4>1. Free' = Free
        BY <2>2 DEF networks, Free
      <4> QED BY <2>1, <2>2, <4>1, HeldByNobodyElse
              DEF networks, Held, EntriesAreHeld, PortsAreHeld, NetworksAreHeld
    <3>2. "crash" \notin Faults /\ KernelHeld => KernelHeld'
      BY <2>1, <2>2, UntouchedHeld DEF networks, KernelHeld
    <3> QED BY <3>1, <3>2 DEF Held
  <2>3. CASE NewNetworkPoolManager
    <3>1. pool' = <<>> /\ namespaces' = {}
      BY <2>3 DEF NewNetworkPoolManager, DeleteUnusedNetworkDevices
    <3>2. Free' = {} /\ DOMAIN pool' = {}
      BY <3>1 DEF Free
    <3>3. \A s \in Sandbox : ~HoldsNetwork(s)'
      BY <2>1, NobodyHolds, HeldByNobodyElse
    <3>4. NetworksAreHeld' /\ NamespacesAreHeld'
      BY <3>1, <3>2, <3>3 DEF NetworksAreHeld, NamespacesAreHeld
    <3>5. EntriesAreHeld' /\ PortsAreHeld'
      BY <2>1, HeldByNobodyElse DEF Held, EntriesAreHeld, PortsAreHeld
    <3>6. "crash" \notin Faults /\ RulesAreHeld => RulesAreHeld'
      BY <2>1, UntouchedHeld
    <3> QED BY <3>4, <3>5, <3>6 DEF Held, KernelHeld
  <2> QED BY <1>1, <2>2, <2>3 DEF NewWorkerNode
<1>2. CASE PopulateNetworkPool
  <2>1. untouched /\ (daemon = "dead" => daemon' = "dead") /\ (populate \/ populateStarts)
    BY <1>2 DEF PopulateNetworkPool, config_, ports
  <2>2. EntriesAreHeld' /\ PortsAreHeld' /\ (RulesAreHeld => RulesAreHeld')
    BY <2>1, UntouchedHeld DEF Held
  <2>3. /\ PoolIsSound' /\ counter <= counter'
        /\ Free \subseteq Free' /\ namespaces' = namespaces \cup (Free' \ Free)
        /\ \A v \in Free' \ Free : counter <= v
    BY <2>1, PopulateStep, SoundPool DEF TypeOK, Held
  <2>4. PoolTypeOK'
    BY <2>1, PopulateTypes DEF TypeOK
  <2>5. counter \in Nat /\ counter' \in Nat /\ Network \subseteq Nat
    BY <2>4, PoolTypes, PoolTypesNext, PoolSize DEF TypeOK, Network
  <2>6. ASSUME NEW s \in Sandbox, HoldsNetwork(s) PROVE network[s] \notin Free' /\ network[s] < counter'
    <3>1. network[s] \notin Free /\ network[s] < counter
      BY <2>6 DEF Held, NetworksAreHeld
    <3>2. network[s] \in Nat
      <4>1. network[s] \in Network
        BY <2>6 DEF HoldsNetwork, InOrder, CallsInOrder, TypeOK
      <4> QED BY <2>5, <4>1
    <3> QED BY <2>3, <2>5, <3>1, <3>2
  <2>7. NetworksAreHeld'
    <3>1. \A s \in Sandbox : HoldsNetwork(s)' => network'[s] \notin Free' /\ network'[s] < counter'
      BY <2>1, <2>6, HeldByNobodyElse
    <3>2. \A s, t \in Sandbox : HoldsNetwork(s)' /\ HoldsNetwork(t)' /\ network'[s] = network'[t] => s = t
      BY <2>1, HeldByNobodyElse DEF Held, NetworksAreHeld
    <3> QED BY <2>3, <3>1, <3>2 DEF NetworksAreHeld, PoolIsSound, NoneTwice
  <2>8. ASSUME NamespacesAreHeld PROVE NamespacesAreHeld'
    <3>1. CASE daemon = "dead"
      BY <2>1, <3>1 DEF NamespacesAreHeld
    <3>2. CASE daemon # "dead"
      <4>1. namespaces = Free \cup {network[s] : s \in {t \in Sandbox : HoldsNetwork(t)}}
        BY <2>8, <3>2 DEF NamespacesAreHeld
      <4>2. {network'[s] : s \in {t \in Sandbox : HoldsNetwork(t)'}}
              = {network[s] : s \in {t \in Sandbox : HoldsNetwork(t)}}
        BY <2>1, HeldByNobodyElse
      <4>3. namespaces' = Free' \cup {network'[s] : s \in {t \in Sandbox : HoldsNetwork(t)'}}
        BY <2>3, <4>1, <4>2
      <4> QED BY <4>3 DEF NamespacesAreHeld
    <3> QED BY <3>1, <3>2
  <2> QED BY <2>2, <2>7, <2>8 DEF Held, KernelHeld
<1>3. CASE RegisterNodeWithControlPlane
  <2>1. untouched /\ (daemon = "dead" => daemon' = "dead") /\ UNCHANGED <<pool, counter, namespaces>>
    BY <1>3 DEF RegisterNodeWithControlPlane, config_, ports, networks
  <2> QED BY <2>1, UntouchedHeld DEF Held, KernelHeld
<1>4. CASE Fatal
  <2>1. ProcessEnds("dead") /\ daemon' = "dead"
    BY <1>4 DEF Fatal, ProcessEnds
  <2>2. KernelHeld'
    BY <2>1 DEF KernelHeld, RulesAreHeld, NamespacesAreHeld
  <2> QED BY <2>1, <2>2, ProcessEndsHeld
<1>5. CASE WaitTerminationSignal
  BY <1>5, ProcessEndsHeld DEF WaitTerminationSignal, DeleteUnusedNetworkDevices, resetIPTables
<1> QED BY <1>1, <1>2, <1>3, <1>4, <1>5

LEMMA HeldInitially == Init => Held /\ KernelHeld
<1> SUFFICES ASSUME Init PROVE Held /\ KernelHeld
  OBVIOUS
<1>1. \A s \in Sandbox : pc[s] = "idle"
  BY DEF Init, Fresh
<1>2. \A s \in Sandbox : ~HoldsEntry(s) /\ ~HoldsPort(s) /\ ~HoldsRules(s) /\ ~HoldsNetwork(s)
  BY <1>1 DEF HoldsEntry, HoldsPort, HoldsRules, HoldsNetwork, Entered, Bound, Started, Networked, Ruled
<1>3. \A s \in Sandbox : OneDeletion(s)
  BY DEF Init, OneDeletion, Fresh, Caller
<1>4. Free = {} /\ DOMAIN pool = {} /\ Metadata = {} /\ portsInUse = {} /\ rules = {} /\ namespaces = {}
  BY DEF Init, PoolInit, Free
<1>5. EntriesAreHeld /\ PortsAreHeld
  BY <1>2, <1>3, <1>4 DEF EntriesAreHeld, PortsAreHeld
<1>6. NetworksAreHeld /\ KernelHeld
  BY <1>2, <1>4 DEF NetworksAreHeld, KernelHeld, RulesAreHeld, NamespacesAreHeld
<1> QED BY <1>5, <1>6 DEF Held

LEMMA NextHeld ==
  ASSUME OneDeleter, "listed" \notin Faults, TypeOK, InOrder, Held, [Next]_vars
  PROVE  /\ Held'
         /\ {"crash", "iptables"} \cap Faults = {} /\ KernelHeld => KernelHeld'
<1>1. CASE UNCHANGED vars
  <2>1. /\ UNCHANGED <<runtime, pc, port, network, Metadata, portsInUse, rules, deletion>>
        /\ UNCHANGED <<pool, counter, namespaces, daemon>>
    BY <1>1 DEF vars, networks, config_, ports
  <2> QED BY <2>1, UntouchedHeld DEF Held, KernelHeld
<1>2. CASE NewWorkerNode \/ PopulateNetworkPool \/ RegisterNodeWithControlPlane \/ Fatal \/ WaitTerminationSignal
  BY <1>2, DaemonHeld
<1>3. ASSUME NEW s \in Sandbox,
             \/ CreateSandbox(s) \/ Create(s) \/ Exit(s) \/ Monitor(s)
             \/ \E d \in Caller : DeleteSandbox(d, s) \/ Delete(d, s)
      PROVE  Held' /\ ("iptables" \notin Faults /\ KernelHeld => KernelHeld')
  <2>1. Held' /\ ("iptables" \notin Faults /\ daemon # "dead" /\ KernelHeld => KernelHeld')
    BY <1>3, SandboxHeld
  <2>2. CASE daemon = "dead"
    <3>1. daemon' = "dead"
      BY <1>3, <2>2 DEF CreateSandbox, Create, Exit, Monitor, DeleteSandbox, Delete, GetImage, StartContainer, GetNetwork,
           StartFirecrackerVM, AssignRandomPort, VMPid, AddSandbox, AddChannel, AddRules, SendReadinessProbe,
           CreateVMSnapshot, CleanedUp, ReadPCN, WatchExitChannel, ReportFailure, RemoveMetadata, DeleteRules,
           DeleteContainer, StopFirecrackerVM, ReleaseNetwork, node
    <3>2. KernelHeld'
      BY <3>1 DEF KernelHeld, RulesAreHeld, NamespacesAreHeld
    <3> QED BY <2>1, <3>2
  <2> QED BY <2>1, <2>2
<1> QED BY <1>1, <1>2, <1>3 DEF Next

\* With one caller of DeleteSandbox that deletes what it was told of, no two
\* sandboxes have a port or a network in common and no network is free and
\* somebody's, for any number of sandboxes, ports and networks and whatever
\* steps of their creations fail: everything in use is held by one sandbox,
\* whose creation has got it and whose deletion has not given it back
\* (AssignRandomPort, UnassignPort, GetOneConfig, GiveUpNetwork).
THEOREM SandboxesStayExclusive ==
  ASSUME OneDeleter, "listed" \notin Faults PROVE Spec => []SandboxesAreExclusive
<1>1. TypeOK /\ InOrder /\ Held => SandboxesAreExclusive
  <2> SUFFICES ASSUME TypeOK, InOrder, Held PROVE SandboxesAreExclusive
    OBVIOUS
  <2>1. ASSUME NEW s \in Metadata
        PROVE  /\ s \in Sandbox /\ HoldsPort(s)
               /\ runtime = "firecracker" => HoldsNetwork(s)
               /\ runtime = "containerd" => network[s] = None
    <3>1. s \in Sandbox /\ HoldsEntry(s)
      BY DEF TypeOK, Held, EntriesAreHeld
    <3>2. pc[s] \in Bound /\ pc[s] \in Networked
      BY <3>1 DEF HoldsEntry, Entered, Bound, Started
    <3>3. Before(s, {"none", "got", "removed"}) /\ Before(s, {"none", "got", "removed", "stop", "network"})
      BY <3>1 DEF HoldsEntry, Before
    <3>4. runtime = "containerd" => network[s] = None
      BY <3>1 DEF InOrder, CallsInOrder
    <3> QED BY <3>1, <3>2, <3>3, <3>4 DEF HoldsPort, HoldsNetwork
  <2>2. runtime \in {"containerd", "firecracker"} /\ None \notin Free
    BY NodeAssumption, PoolTypes DEF TypeOK, Free, Config
  <2>3. \A s \in Metadata : port[s] \in portsInUse
    BY <2>1 DEF Held, PortsAreHeld
  <2>4. \A s \in Metadata : network[s] \notin Free
    BY <2>1, <2>2 DEF Held, NetworksAreHeld
  <2>5. \A s, t \in Metadata : s # t => port[s] # port[t]
    BY <2>1 DEF Held, PortsAreHeld
  <2>6. \A s, t \in Metadata : s # t => (network[s] = network[t] => network[s] = None)
    BY <2>1, <2>2 DEF Held, NetworksAreHeld
  <2>7. \A i, j \in DOMAIN pool : i # j /\ pool[i] = pool[j] => pool[i] = Nil
    BY DEF Held, NetworksAreHeld
  <2> QED BY <2>3, <2>4, <2>5, <2>6, <2>7 DEF SandboxesAreExclusive
<1>2. Init => Held
  BY HeldInitially
<1>3. TypeOK /\ InOrder /\ Held /\ [Next]_vars => Held'
  BY NextHeld
<1> QED BY <1>1, <1>2, <1>3, TypeCorrect, PTL DEF Spec

\* If the calls of iptables succeed besides, and no daemon starts after one that
\* has ended with an error, the port of a created sandbox leads to it and to
\* nobody else, whoever had the port before: the rules in the kernel are those
\* of the sandboxes that hold a port and have got this far (AddRules,
\* DeleteRules).
THEOREM RulesAlwaysLeadToOwner ==
  ASSUME OneDeleter, {"listed", "crash", "iptables"} \cap Faults = {} PROVE Spec => []RulesLeadToOwner
<1>1. TypeOK /\ InOrder /\ Held /\ KernelHeld => RulesLeadToOwner
  <2> SUFFICES ASSUME TypeOK, InOrder, Held, KernelHeld, NEW s \in Metadata, pc[s] = "created"
               PROVE  {t \in Sandbox : <<port[s], t>> \in rules} = {s}
    BY DEF RulesLeadToOwner
  <2>1. s \in Sandbox /\ HoldsEntry(s)
    BY DEF TypeOK, Held, EntriesAreHeld
  <2>2. HoldsRules(s) /\ HoldsPort(s)
    BY <2>1 DEF HoldsEntry, HoldsRules, HoldsPort, Before, Ruled, Bound, Started, Networked
  <2>3. daemon = "up"
    BY <2>1 DEF InOrder, CallsInOrder
  <2>4. rules = {<<port[t], t>> : t \in {u \in Sandbox : HoldsRules(u)}}
    BY <2>3 DEF KernelHeld, RulesAreHeld
  <2>5. ASSUME NEW t \in Sandbox, <<port[s], t>> \in rules PROVE t = s
    <3>1. HoldsRules(t) /\ port[t] = port[s]
      BY <2>4, <2>5
    <3>2. HoldsPort(t)
      BY <3>1 DEF HoldsRules, HoldsPort, Ruled, Bound, Started, Networked
    <3> QED BY <2>1, <2>2, <3>1, <3>2 DEF Held, PortsAreHeld
  <2>6. <<port[s], s>> \in rules
    BY <2>1, <2>2, <2>4
  <2> QED BY <2>1, <2>5, <2>6
<1>2. Init => Held /\ KernelHeld
  BY HeldInitially
<1>3. TypeOK /\ InOrder /\ Held /\ KernelHeld /\ [Next]_vars => Held' /\ KernelHeld'
  BY NextHeld
<1> QED BY <1>1, <1>2, <1>3, TypeCorrect, PTL DEF Spec

----------------------------------------------------------------------------
(* What the kernel and containerd have *)

AllRunning == \A s \in Sandbox : Running(s)

LEMMA RunningElsewhere == ASSUME NEW t \in Sandbox, Running(t), Same(t) PROVE Running(t)'
  BY DEF Running, Same, Before

\* A creation starts what nobody deletes yet, or leaves what it has started.
LEMMA CreateRuns ==
  ASSUME TypeOK, NEW s \in Sandbox, CallsInOrder(s), OneDeletion(s), Running(s), CreateSandbox(s) \/ Create(s)
  PROVE  Running(s)'
<1>0. ASSUME NEW from, NEW to, Goes(s, from, to), from \notin {"created", "cleanup", "failed"}, UNCHANGED deletion
      PROVE  pc[s] = from /\ pc'[s] = to /\ \A X : "none" \in X => Before(s, X)'
  BY <1>0 DEF Goes, OneDeletion, Before, Caller, TypeOK
<1>a. ASSUME NEW from, NEW to, Goes(s, from, to), from \notin {"created", "cleanup", "failed"}, UNCHANGED <<deletion, kernel, runtime>>,
             from \in Started => to \in Started
      PROVE  Running(s)'
  <2>1. pc[s] = from /\ pc'[s] = to /\ Before(s, {"none", "got", "removed", "stop"})'
    BY <1>a, <1>0
  <2> QED BY <1>a, <2>1 DEF Running, kernel, processes
<1> USE DEF node, config_, Started, Networked
<1>1. CASE CreateSandbox(s)
  <2>1. PICK to \in {"image", "network"} : Goes(s, "idle", to)
    BY <1>1 DEF CreateSandbox
  <2> QED BY <1>1, <2>1, <1>a DEF CreateSandbox
<1>2. CASE GetImage(s)
  <2>1. PICK to \in {"start", "failed"} : Goes(s, "image", to)
    BY <1>2 DEF GetImage, MayFail
  <2> QED BY <1>2, <2>1, <1>a DEF GetImage
<1>3. CASE StartContainer(s)
  <2>1. runtime' = "containerd"
    BY <1>3 DEF StartContainer
  <2>2. CASE Goes(s, "start", "port")
    <3>1. pc'[s] = "port" /\ Before(s, {"none", "got", "removed", "stop"})'
      BY <1>3, <2>2, <1>0 DEF StartContainer
    <3> QED BY <2>1, <3>1 DEF Running
  <2>3. ASSUME NEW left \in {"none", "container", "task", "network"},
               IF left \in {"task", "network"} THEN Start(s) ELSE UNCHANGED processes,
               containers' = [containers EXCEPT ![s] = left],
               abandoned' = abandoned \cup IF left = "none" THEN {} ELSE {s},
               Goes(s, "start", "failed")
        PROVE  Running(s)'
    <3>1. CASE left = "none"
      <4>1. pc[s] = "start" /\ process' = process /\ abandoned' = abandoned /\ containers'[s] = "none"
        BY <2>3, <3>1 DEF Goes, processes, TypeOK
      <4>2. s \in abandoned \/ process[s] # "alive"
        BY <4>1 DEF Running
      <4> QED BY <2>1, <4>1, <4>2 DEF Running
    <3>2. CASE left # "none"
      BY <2>1, <2>3, <3>2 DEF Running
    <3> QED BY <3>1, <3>2
  <2> QED BY <1>3, <2>2, <2>3 DEF StartContainer
<1>4. CASE GetNetwork(s)
  <2>1. PICK to \in {"start", "failed"} : Goes(s, "network", to)
    BY <1>4 DEF GetNetwork
  <2> QED BY <1>4, <2>1, <1>a DEF GetNetwork
<1>5. CASE StartFirecrackerVM(s)
  <2>1. containers' = containers /\ runtime' = "firecracker" /\ containers[s] = "none"
    BY <1>5 DEF StartFirecrackerVM, Running
  <2>2. CASE Goes(s, "start", "port")
    <3>1. pc'[s] = "port" /\ Before(s, {"none", "got", "removed", "stop"})'
      BY <1>5, <2>2, <1>0 DEF StartFirecrackerVM
    <3> QED BY <2>1, <3>1 DEF Running
  <2>3. CASE Goes(s, "start", "failed") /\ UNCHANGED <<processes, abandoned>>
    <3>1. pc[s] = "start" /\ process' = process /\ abandoned' = abandoned
      BY <2>3 DEF Goes, processes
    <3> QED BY <2>1, <3>1 DEF Running
  <2>4. CASE abandoned' = abandoned \cup {s}
    BY <2>1, <2>4 DEF Running
  <2> QED BY <1>5, <2>2, <2>3, <2>4 DEF StartFirecrackerVM
<1>6. CASE AssignRandomPort(s)
  <2>1. PICK to \in {"port", "channel", "pid"} : Goes(s, "port", to)
    BY <1>6 DEF AssignRandomPort
  <2> QED BY <1>6, <2>1, <1>a DEF AssignRandomPort
<1>7. CASE VMPid(s)
  <2>1. UNCHANGED <<processes, containers, runtime, deletion>>
    BY <1>7 DEF VMPid
  <2>2. CASE Goes(s, "pid", "metadata") /\ UNCHANGED abandoned
    BY <2>1, <2>2, <1>a DEF kernel
  <2>3. CASE abandoned' = abandoned \cup {s}
    BY <2>1, <2>3 DEF Running
  <2> QED BY <1>7, <2>2, <2>3 DEF VMPid
<1>8. CASE AddSandbox(s)
  <2>1. PICK to \in {"rules", "channel"} : Goes(s, "metadata", to)
    BY <1>8 DEF AddSandbox
  <2> QED BY <1>8, <2>1, <1>a DEF AddSandbox
<1>9. CASE AddChannel(s)
  <2>1. PICK to \in {"metadata", "rules"} : Goes(s, "channel", to)
    BY <1>9 DEF AddChannel
  <2> QED BY <1>9, <2>1, <1>a DEF AddChannel
<1>10. CASE AddRules(s)
  <2>1. PICK to \in {"created", "probe"} : Goes(s, "rules", to)
    BY <1>10 DEF AddRules
  <2> QED BY <1>10, <2>1, <1>a DEF AddRules
<1>11. CASE SendReadinessProbe(s)
  <2>1. PICK to \in {"snapshot", "created", "cleanup"} : Goes(s, "probe", to)
    BY <1>11 DEF SendReadinessProbe
  <2> QED BY <1>11, <2>1, <1>a DEF SendReadinessProbe
<1>12. CASE CreateVMSnapshot(s)
  <2>1. PICK to \in {"created", "cleanup"} : Goes(s, "snapshot", to)
    BY <1>12 DEF CreateVMSnapshot
  <2> QED BY <1>12, <2>1, <1>a DEF CreateVMSnapshot
<1>13. CASE CleanedUp(s)
  <2>1. deletion[None][s] = "done" /\ UNCHANGED <<kernel, runtime>>
    BY <1>13 DEF CleanedUp
  <2>2. ~Before(s, {"none", "got", "removed", "stop"})
    BY <2>1 DEF Before, Caller
  <2> QED BY <2>1, <2>2 DEF Running, kernel, processes
<1> QED BY <1>1, <1>2, <1>3, <1>4, <1>5, <1>6, <1>7, <1>8, <1>9, <1>10, <1>11, <1>12, <1>13 DEF Create

\* A deletion stops what it finds, or leaves it.
LEMMA DeleteRuns ==
  ASSUME OneDeleter, "listed" \notin Faults, TypeOK, NEW s \in Sandbox, CallsInOrder(s), OneDeletion(s),
         s \in Metadata <=> HoldsEntry(s), Running(s), NEW d \in Caller, DeleteSandbox(d, s) \/ Delete(d, s)
  PROVE  Running(s)'
<1> USE DEF node, config_
<1>a. ASSUME NEW from, NEW to, Deletes(d, s, from, to), UNCHANGED <<runtime, pc, kernel>>,
             from \in {"none", "got", "removed", "stop"} => to \in {"none", "got", "removed", "stop"}
      PROVE  Running(s)'
  <2>1. Before(s, {"none", "got", "removed", "stop"}) => Before(s, {"none", "got", "removed", "stop"})'
    BY <1>a DEF Deletes, Before, TypeOK
  <2> QED BY <1>a, <2>1 DEF Running, kernel, processes
<1>1. CASE DeleteSandbox(d, s)
  <2> DEFINE to == IF s \in Metadata THEN "got" ELSE "done"
  <2>1. /\ Deletes(d, s, "none", to) /\ UNCHANGED <<runtime, pc, kernel>>
        /\ (d = None /\ pc[s] = "cleanup") \/ (d # None /\ pc[s] = "created")
    BY <1>1 DEF DeleteSandbox
  <2>2. HoldsEntry(s)
    <3>1. to # "none"
      OBVIOUS
    <3> HIDE DEF to
    <3> QED BY <2>1, <3>1, DeleteHolds
  <2>3. to = "got"
    BY <2>2
  <2> HIDE DEF to
  <2> QED BY <1>a, <2>1, <2>3
<1>2. CASE RemoveMetadata(d, s)
  BY <1>a, <1>2 DEF RemoveMetadata
<1>3. CASE DeleteRules(d, s)
  BY <1>a, <1>3 DEF DeleteRules
<1>4. CASE DeleteContainer(d, s)
  <2>1. /\ runtime' = "containerd"
        /\ abandoned' = abandoned \cup IF containers'[s] = "none" /\ process'[s] # "alive" THEN {} ELSE {s}
    BY <1>4 DEF DeleteContainer
  <2>2. CASE containers'[s] = "none" /\ process'[s] # "alive"
    BY <2>1, <2>2 DEF Running
  <2>3. CASE ~(containers'[s] = "none" /\ process'[s] # "alive")
    BY <2>1, <2>3 DEF Running
  <2> QED BY <2>2, <2>3
<1>5. CASE StopFirecrackerVM(d, s)
  <2>1. /\ runtime' = runtime /\ containers' = containers /\ containers[s] = "none"
        /\ abandoned' = abandoned \cup IF process'[s] = "alive" THEN {s} ELSE {}
    BY <1>5 DEF StopFirecrackerVM, Running
  <2>2. CASE process'[s] = "alive"
    BY <2>1, <2>2 DEF Running
  <2>3. CASE process'[s] # "alive"
    BY <2>1, <2>3 DEF Running
  <2> QED BY <2>2, <2>3
<1>6. CASE ReleaseNetwork(d, s)
  BY <1>a, <1>6 DEF ReleaseNetwork
<1> QED BY <1>1, <1>2, <1>3, <1>4, <1>5, <1>6 DEF Delete

LEMMA MonitorRuns ==
  ASSUME TypeOK, NEW s \in Sandbox, Running(s), Exit(s) \/ Monitor(s)
  PROVE  Running(s)'
<1>1. UNCHANGED <<runtime, pc, deletion, containers, abandoned>>
  BY DEF Exit, Monitor, ReadPCN, WatchExitChannel, ReportFailure, node, config_, kernel
<1>2. process'[s] = "alive" => process[s] = "alive"
  BY DEF Exit, Ends, Monitor, ReadPCN, WatchExitChannel, ReportFailure, kernel, processes, TypeOK
<1> QED BY <1>1, <1>2 DEF Running, Before

LEMMA NextRuns ==
  ASSUME OneDeleter, "listed" \notin Faults, TypeOK, InOrder, Held, AllRunning, [Next]_vars
  PROVE  AllRunning'
<1>0. \A s \in Sandbox : Running(s) /\ CallsInOrder(s) /\ OneDeletion(s) /\ (s \in Metadata <=> HoldsEntry(s))
  BY DEF AllRunning, InOrder, Held, EntriesAreHeld
<1>1. ASSUME UNCHANGED <<runtime, pc, kernel, deletion>> PROVE AllRunning'
  BY <1>1 DEF AllRunning, Running, Before, kernel, processes
<1>2. ASSUME NEW how, ProcessEnds(how) PROVE AllRunning'
  BY <1>2 DEF AllRunning, Running, ProcessEnds, Fresh
<1>3. CASE NewWorkerNode \/ PopulateNetworkPool \/ RegisterNodeWithControlPlane \/ Fatal \/ WaitTerminationSignal
  BY <1>1, <1>2, <1>3 DEF NewWorkerNode, PopulateNetworkPool, RegisterNodeWithControlPlane, Fatal, WaitTerminationSignal, config_
<1>4. ASSUME NEW s \in Sandbox,
             \/ CreateSandbox(s) \/ Create(s) \/ Exit(s) \/ Monitor(s)
             \/ \E d \in Caller : DeleteSandbox(d, s) \/ Delete(d, s)
      PROVE  AllRunning'
  <2>1. Running(s)'
    BY <1>0, <1>4, CreateRuns, MonitorRuns, DeleteRuns
  <2>2. \A t \in Sandbox \ {s} : Running(t)'
    BY <1>0, <1>4, Elsewhere, RunningElsewhere
  <2> QED BY <2>1, <2>2 DEF AllRunning
<1>5. CASE UNCHANGED vars
  BY <1>1, <1>5 DEF vars, config_
<1> QED BY <1>3, <1>4, <1>5 DEF Next

\* Under the same hypotheses ports, rules and the networks of the pool are never
\* lost: when no call is under way, those in use and in the kernel are those of
\* the entered sandboxes and of the pool, whichever steps of creations and
\* deletions have failed; and every process, container and network of the CNI
\* plugins is an entered sandbox's or was left by a step that failed, as
\* StartContainer and DeleteContainer do (CreateSandbox, DeleteSandbox).
THEOREM NothingEverLeaks ==
  ASSUME OneDeleter, {"listed", "crash", "iptables"} \cap Faults = {} PROVE Spec => []NothingLeaks
<1>1. TypeOK /\ InOrder /\ Held /\ KernelHeld /\ AllRunning => NothingLeaks
  <2> SUFFICES ASSUME TypeOK, InOrder, Held, KernelHeld, AllRunning, daemon = "up",
                      \A s \in Sandbox : pc[s] \in Ended \cup {"idle"},
                      \A d \in Caller, s \in Sandbox : deletion[d][s] \in {"none", "done"}
               PROVE  /\ portsInUse = {port[s] : s \in Metadata}
                      /\ rules = {<<port[s], s>> : s \in Metadata}
                      /\ namespaces = Free \cup {network[s] : s \in {t \in Metadata : network[t] # None}}
                      /\ \A s \in Sandbox \ (Metadata \cup abandoned) : process[s] # "alive" /\ containers[s] = "none"
    BY DEF NothingLeaks, Quiet
  <2>1. ASSUME NEW s \in Sandbox
        PROVE  /\ HoldsPort(s) <=> s \in Metadata
               /\ HoldsRules(s) <=> s \in Metadata
               /\ HoldsNetwork(s) <=> s \in Metadata /\ network[s] # None
    <3> DEFINE alone == Before(s, {"none"})
    <3>1. pc[s] \in {"created", "failed", "lost", "idle"}
      BY DEF Ended
    <3>2. /\ pc[s] \in Entered <=> pc[s] = "created"
          /\ pc[s] \in Bound <=> pc[s] = "created"
          /\ pc[s] \in Ruled <=> pc[s] = "created"
          /\ pc[s] \in Networked <=> pc[s] = "created"
      BY <3>1 DEF Entered, Bound, Started, Networked, Ruled
    <3>3. /\ Before(s, {"none", "got"}) <=> alone
          /\ Before(s, {"none", "got", "removed"}) <=> alone
          /\ Before(s, {"none", "got", "removed", "stop", "network"}) <=> alone
      BY DEF Before
    <3>4. s \in Metadata <=> pc[s] = "created" /\ alone
      BY <3>2, <3>3 DEF Held, EntriesAreHeld, HoldsEntry
    <3>5. pc[s] = "created" => (runtime = "firecracker" <=> network[s] # None)
      BY <3>2, NodeAssumption DEF InOrder, CallsInOrder, TypeOK
    <3> HIDE DEF alone
    <3> QED BY <3>2, <3>3, <3>4, <3>5 DEF HoldsPort, HoldsRules, HoldsNetwork
  <2>2. Metadata \subseteq Sandbox
    BY DEF TypeOK
  <2>3. portsInUse = {port[s] : s \in Metadata}
    BY <2>1, <2>2 DEF Held, PortsAreHeld
  <2>4. rules = {<<port[s], s>> : s \in Metadata}
    BY <2>1, <2>2 DEF KernelHeld, RulesAreHeld
  <2>5. {s \in Sandbox : HoldsNetwork(s)} = {t \in Metadata : network[t] # None}
    BY <2>1, <2>2
  <2>6. namespaces = Free \cup {network[s] : s \in {t \in Metadata : network[t] # None}}
    BY <2>5 DEF KernelHeld, NamespacesAreHeld
  <2>7. ASSUME NEW s \in Sandbox \ (Metadata \cup abandoned) PROVE process[s] # "alive" /\ containers[s] = "none"
    <3>1. CASE pc[s] \in Started /\ Before(s, {"none", "got", "removed", "stop"})
      <4>1. pc[s] = "created" /\ Before(s, {"none", "got"})
        BY <3>1 DEF Ended, Started, Networked, Before
      <4>2. HoldsEntry(s)
        BY <4>1 DEF HoldsEntry, Entered, Bound, Started, Networked
      <4> QED BY <4>2 DEF Held, EntriesAreHeld
    <3> QED BY <3>1 DEF AllRunning, Running
  <2> QED BY <2>3, <2>4, <2>6, <2>7
<1>2. Init => Held /\ KernelHeld /\ AllRunning
  <2>1. Init => AllRunning
    BY DEF Init, AllRunning, Running, Fresh
  <2> QED BY <2>1, HeldInitially
<1>3. TypeOK /\ InOrder /\ Held /\ KernelHeld /\ AllRunning /\ [Next]_vars => Held' /\ KernelHeld' /\ AllRunning'
  BY NextHeld, NextRuns
<1> QED BY <1>1, <1>2, <1>3, TypeCorrect, PTL DEF Spec
=============================================================================
