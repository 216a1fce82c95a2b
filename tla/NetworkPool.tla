----------------------------- MODULE NetworkPool -----------------------------
(***************************************************************************)
(* The networks of the virtual machines of a worker node: a network is a   *)
(* namespace of the kernel with an address of its own, made in advance and *)
(* used again.  A network is named by its exposed address, a number whose  *)
(* last byte is neither the first nor the last value of a byte.            *)
(***************************************************************************)
EXTENDS Naturals, Sequences

CONSTANTS
  Byte,             \* the values of a byte of an address (256)
  PoolUnit,         \* what the size of the pool is a multiple of (16)
  PoolFraction,     \* the pool is filled again at this fraction of it (4)
  NetworkPoolSize,  \* as configured
  Nil,              \* the configuration of a network that could not be made
  Faults            \* which calls to the outside may fail

ASSUME PoolAssumption ==
  /\ {Byte, PoolUnit, PoolFraction, NetworkPoolSize} \subseteq Nat
  /\ Byte >= 3 /\ PoolUnit > 0 /\ PoolFraction > 0
  /\ Nil \notin 0 .. Byte * Byte - 1

VARIABLES
  pool, counter, namespaces, \* allocationCounter of the ExposedIPManager; the kernel's
  populating, populateWanted \* the holder of the lock fills; somebody will

networks == <<pool, counter, namespaces, populating, populateWanted>>

MaxNetworkPoolSize ==
  LET size == NetworkPoolSize - (NetworkPoolSize % PoolUnit) IN
  IF size < PoolUnit THEN PoolUnit ELSE size

Network == 0 .. Byte * Byte - 1

extractFourthField(v) == v % Byte
GenerateSingleIP(c) == {v \in c .. Byte * Byte - 1 : extractFourthField(v) \notin {0, Byte - 1}}

PoolTypeOK ==
  /\ pool \in UNION {[1 .. n -> Network \cup {Nil}] : n \in 0 .. MaxNetworkPoolSize}
  /\ counter \in 0 .. Byte * Byte
  /\ namespaces \in SUBSET Network
  /\ populating \in BOOLEAN /\ populateWanted \in BOOLEAN

(* The daemon deletes what it finds when it starts, and fills the pool.  *)
PoolInit ==
  /\ pool = <<>> /\ counter = 0
  /\ populating = FALSE /\ populateWanted = FALSE

DeleteUnusedNetworkDevices == namespaces' = {}

NewNetworkPoolManager ==
  /\ DeleteUnusedNetworkDevices
  /\ pool' = <<>> /\ counter' = 0
  /\ populating' = TRUE /\ populateWanted' = FALSE

RunOutOfAddresses == GenerateSingleIP(counter) = {}

(* A network is made, with the next address; one that fails leaves no
   namespace behind, and its address, if it had one already, is not used
   again.  *)
createVETHPair == CHOOSE v \in GenerateSingleIP(counter) : \A w \in GenerateSingleIP(counter) : v <= w

createNetwork(config) ==
  \/ /\ config = createVETHPair
     /\ counter' = config + 1 /\ namespaces' = namespaces \cup {config}
  \/ /\ "network" \in Faults /\ config = Nil
     /\ counter' \in {counter, createVETHPair + 1} /\ UNCHANGED namespaces

(* The lock is held until the pool is full; what could not be made is put
   into it as well.  *)
populate ==
  /\ populating
  /\ IF Len(pool) < MaxNetworkPoolSize
     THEN /\ ~RunOutOfAddresses
          /\ \E config \in Network \cup {Nil} : createNetwork(config) /\ pool' = Append(pool, config)
          /\ UNCHANGED populating
     ELSE populating' = FALSE /\ UNCHANGED <<pool, counter, namespaces>>
  /\ UNCHANGED populateWanted

populateStarts ==
  /\ populateWanted /\ ~populating
  /\ populating' = TRUE /\ populateWanted' = FALSE
  /\ UNCHANGED <<pool, counter, namespaces>>

(* A network of the pool, or a new one.  *)
GetOneConfig(config) ==
  /\ ~populating
  /\ IF pool = <<>>
     THEN /\ ~RunOutOfAddresses
          /\ createNetwork(config)
          /\ populateWanted' = (populateWanted \/ config # Nil)
          /\ UNCHANGED pool
     ELSE /\ config = Head(pool)
          /\ pool' = Tail(pool)
          /\ populateWanted' = (populateWanted \/ Len(pool) = MaxNetworkPoolSize \div PoolFraction)
          /\ UNCHANGED <<counter, namespaces>>
  /\ UNCHANGED populating

\* Mutant: a network that does not fit into the pool stays in the kernel.
GiveUpNetworkOnly(config) ==
  /\ ~populating
  /\ pool' = IF Len(pool) < MaxNetworkPoolSize THEN Append(pool, config) ELSE pool
  /\ UNCHANGED <<counter, namespaces, populating, populateWanted>>

GiveUpNetwork(config) ==
  /\ ~populating
  /\ IF Len(pool) < MaxNetworkPoolSize
     THEN pool' = Append(pool, config) /\ UNCHANGED namespaces
     ELSE namespaces' = namespaces \ {config} /\ UNCHANGED pool
  /\ UNCHANGED <<counter, populating, populateWanted>>
=============================================================================
