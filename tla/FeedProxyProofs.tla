----------------------------- MODULE FeedProxyProofs -----------------------------
(***************************************************************************)
(* What FeedProxy promises for any number of clients, users and keys and    *)
(* any capacity.  Each operator of the pool keeps PoolSound; the proxy's     *)
(* actions then only have to be shown to apply those operators.            *)
(***************************************************************************)
EXTENDS FeedProxy, FiniteSetTheorems, TLAPS

\* A pool whose tables agree, and which has no connection before initialize.
PoolSound(pool) ==
    /\ pool \in Pool
    /\ PoolAgrees(pool)
    /\ ~pool.initialized => pool.links = 0

-----------------------------------------------------------------------------
(* The pool *)

LEMMA OnLinkFinite ==
    ASSUME NEW pool, NEW i
    PROVE  /\ IsFiniteSet(OnLink(pool, i))
           /\ Cardinality(OnLink(pool, i)) \in Nat
  <1>1. OnLink(pool, i) \in SUBSET Keys
    BY DEF OnLink
  <1>2. IsFiniteSet(OnLink(pool, i))
    BY <1>1, FS_Subset, PoolAssumption
  <1> QED
    BY <1>2, FS_CardinalityType

\* Writing the fields of a pool.
LEMMA LinkFields ==
    ASSUME NEW pool \in Pool, NEW b \in BOOLEAN, NEW n \in 0 .. MaxConnections
    PROVE  LET new == [pool EXCEPT !.initialized = b, !.links = n] IN
           /\ new \in Pool
           /\ new.initialized = b /\ new.links = n
           /\ new.count = pool.count /\ new.map = pool.map
           /\ new.carries = pool.carries
  BY DEF Pool

LEMMA FreshSound == PoolSound(FreshPool) /\ Carried(FreshPool) = {}
  <1>1. FreshPool \in Pool
    BY PoolAssumption DEF FreshPool, Pool, Links
  <1>2. ASSUME NEW i \in Links
        PROVE  OnLink(FreshPool, i) = {}
    BY PoolAssumption DEF OnLink, FreshPool, Links
  <1>3. Cardinality({}) = 0
    BY FS_EmptySet
  <1>4. \A i \in Links : /\ FreshPool.count[i] = 0
                         /\ FreshPool.carries[i] = {}
    BY DEF FreshPool
  <1>5. PoolAgrees(FreshPool)
    BY <1>2, <1>3, <1>4, PoolAssumption DEF PoolAgrees
  <1> QED
    BY <1>1, <1>5 DEF PoolSound, FreshPool, Carried

LEMMA InitializedSound ==
    ASSUME NEW pool, PoolSound(pool)
    PROVE  /\ PoolSound(Initialized(pool))
           /\ Initialized(pool).initialized
           /\ Carried(Initialized(pool)) = Carried(pool)
  <1>1. CASE pool.initialized
    BY <1>1 DEF Initialized, PoolSound, Pool
  <1>2. CASE ~pool.initialized
    <2> DEFINE new == [pool EXCEPT !.initialized = TRUE, !.links = 1]
    <2>1. Initialized(pool) = new
      BY <1>2 DEF Initialized
    <2>2. /\ new \in Pool
          /\ new.initialized
          /\ new.links = 1
          /\ new.count = pool.count /\ new.map = pool.map
          /\ new.carries = pool.carries
      <3>1. TRUE \in BOOLEAN /\ 1 \in 0 .. MaxConnections /\ pool \in Pool
        BY PoolAssumption DEF PoolSound
      <3> QED
        BY <3>1, LinkFields
    <2> HIDE DEF new
    <2>3. \A i \in Links : OnLink(new, i) = OnLink(pool, i)
      BY <2>2 DEF OnLink
    <2>4. PoolAgrees(new)
      BY <1>2, <2>2, <2>3, PoolAssumption DEF PoolSound, PoolAgrees, Pool, Links
    <2> QED
      BY <2>1, <2>2, <2>4 DEF PoolSound, Carried
  <1> QED
    BY <1>1, <1>2

LEMMA OpenSound ==
    ASSUME NEW pool, PoolSound(pool), pool.initialized, pool.links < MaxConnections
    PROVE  /\ PoolSound(Open(pool))
           /\ Open(pool).initialized
           /\ Open(pool).links = pool.links + 1
           /\ Open(pool).count = pool.count
           /\ Open(pool).map = pool.map
           /\ Carried(Open(pool)) = Carried(pool)
  <1>1. /\ Open(pool) \in Pool
        /\ Open(pool).initialized
        /\ Open(pool).links = pool.links + 1
        /\ Open(pool).count = pool.count /\ Open(pool).map = pool.map
        /\ Open(pool).carries = pool.carries
    BY PoolAssumption DEF PoolSound, Pool, Open
  <1>2. \A i \in Links : OnLink(Open(pool), i) = OnLink(pool, i)
    BY <1>1 DEF OnLink
  <1>3. PoolAgrees(Open(pool))
    BY <1>1, <1>2, PoolAssumption DEF PoolSound, PoolAgrees, Pool, Links
  <1> QED
    BY <1>1, <1>3 DEF PoolSound, Carried

\* A key that is on no connection is put on one with room.
LEMMA CarrySound ==
    ASSUME NEW pool, PoolSound(pool), pool.initialized,
           NEW k \in Keys, pool.map[k] = 0,
           NEW i \in 1 .. pool.links, pool.count[i] < MaxSymbols
    PROVE  PoolSound(Carry(pool, k, i)) /\ Carry(pool, k, i).initialized
  <1> DEFINE new == Carry(pool, k, i)
  <1>1. i \in Links
    BY PoolAssumption DEF PoolSound, Pool, Links
  <1>2. /\ new \in Pool
        /\ new.initialized
        /\ new.links = pool.links
        /\ new.count = [pool.count EXCEPT ![i] = pool.count[i] + 1]
        /\ new.map = [pool.map EXCEPT ![k] = i]
        /\ new.carries = [pool.carries EXCEPT ![i] = pool.carries[i] \cup {k}]
    <2> DEFINE count == [pool.count EXCEPT ![i] = pool.count[i] + 1]
               map == [pool.map EXCEPT ![k] = i]
               carries == [pool.carries EXCEPT ![i] = pool.carries[i] \cup {k}]
    <2>1. /\ count \in [Links -> Int]
          /\ map \in [Keys -> 0 .. MaxConnections]
          /\ carries \in [Links -> SUBSET Keys]
      BY <1>1, PoolAssumption DEF PoolSound, Pool, Links
    <2>2. new = [pool EXCEPT !.count = count, !.map = map, !.carries = carries]
      BY DEF Carry
    <2> HIDE DEF count, map, carries, new
    <2>3. /\ new \in Pool
          /\ new.initialized = pool.initialized /\ new.links = pool.links
          /\ new.count = count /\ new.map = map /\ new.carries = carries
      BY <2>1, <2>2 DEF PoolSound, Pool
    <2> QED
      BY <2>3 DEF count, map, carries
  <1> HIDE DEF new
  <1>3. ASSUME NEW j \in Links
        PROVE  /\ new.count[j] = Cardinality(OnLink(new, j))
               /\ new.carries[j] = OnLink(new, j)
               /\ new.count[j] <= MaxSymbols
               /\ new.count[j] > 0 => j <= new.links
    <2>1. CASE j = i
      <3>1. OnLink(new, j) = OnLink(pool, j) \cup {k} /\ k \notin OnLink(pool, j)
        BY <2>1, <1>1, <1>2, PoolAssumption DEF OnLink, PoolSound, Pool, Links
      <3>2. Cardinality(OnLink(new, j)) = Cardinality(OnLink(pool, j)) + 1
        BY <3>1, OnLinkFinite, FS_AddElement
      <3>3. new.count[j] = pool.count[j] + 1 /\ pool.count[j] \in Int
        BY <2>1, <1>1, <1>2 DEF PoolSound, Pool
      <3>4. new.carries[j] = pool.carries[j] \cup {k}
        BY <2>1, <1>1, <1>2 DEF PoolSound, Pool
      <3> QED
        BY <2>1, <1>2, <3>1, <3>2, <3>3, <3>4, PoolAssumption
        DEF PoolSound, PoolAgrees, Pool, Links
    <2>2. CASE j # i
      <3>1. OnLink(new, j) = OnLink(pool, j)
        BY <2>2, <1>1, <1>2, PoolAssumption DEF OnLink, PoolSound, Pool, Links
      <3>2. new.count[j] = pool.count[j] /\ new.carries[j] = pool.carries[j]
        BY <2>2, <1>1, <1>2 DEF PoolSound, Pool
      <3> QED
        BY <1>2, <3>1, <3>2 DEF PoolSound, PoolAgrees
    <2> QED
      BY <2>1, <2>2
  <1>4. PoolAgrees(new)
    BY <1>3 DEF PoolAgrees
  <1> QED
    BY <1>2, <1>4 DEF PoolSound, new

\* Whatever subscribe answers, the pool stays sound and initialized.
LEMMA SubscribedSound ==
    ASSUME NEW pool, PoolSound(pool), pool.initialized, NEW k \in Keys,
           NEW result \in Subscribed(pool, k)
    PROVE  PoolSound(result.pool) /\ result.pool.initialized
  <1>1. CASE pool.map[k] # 0
    BY <1>1 DEF Subscribed, Success
  <1>2. CASE pool.map[k] = 0 /\ Roomy(pool) # {}
    <2>1. \/ result.pool = pool
          \/ \E i \in FirstRoomy(pool) : result.pool = Carry(pool, k, i)
      BY <1>2 DEF Subscribed, Success, Failure
    <2>2. \A i \in FirstRoomy(pool) : i \in 1 .. pool.links /\ pool.count[i] < MaxSymbols
      BY DEF FirstRoomy, Roomy
    <2> QED
      BY <1>2, <2>1, <2>2, CarrySound
  <1>3. CASE pool.map[k] = 0 /\ Roomy(pool) = {} /\ pool.links < MaxConnections
    <2> DEFINE opened == Open(pool)
               i      == pool.links + 1
    <2>1. result.pool \in {pool, opened, Carry(opened, k, i)}
      BY <1>3 DEF Subscribed, Success, Failure
    <2>2. /\ PoolSound(opened) /\ opened.initialized
          /\ opened.links = i /\ opened.count = pool.count /\ opened.map = pool.map
      BY <1>3, OpenSound
    <2>3. i \in 1 .. opened.links /\ i \in Links /\ ~(i <= pool.links)
      BY <1>3, <2>2, PoolAssumption DEF PoolSound, Pool, Links
    <2>4. opened.count[i] < MaxSymbols
      BY <2>2, <2>3, PoolAssumption DEF PoolSound, PoolAgrees, Pool
    <2> HIDE DEF opened, i
    <2>5. PoolSound(Carry(opened, k, i)) /\ Carry(opened, k, i).initialized
      BY <1>3, <2>2, <2>3, <2>4, CarrySound
    <2> QED
      BY <2>1, <2>2, <2>5
  <1>4. CASE pool.map[k] = 0 /\ Roomy(pool) = {} /\ ~(pool.links < MaxConnections)
    BY <1>4 DEF Subscribed, Failure
  <1> QED
    BY <1>1, <1>2, <1>3, <1>4

LEMMA UnsubscribedSound ==
    ASSUME NEW pool, PoolSound(pool), NEW keys \in SUBSET Keys
    PROVE  /\ PoolSound(Unsubscribed(pool, keys))
           /\ Unsubscribed(pool, keys).initialized = pool.initialized
           /\ Carried(Unsubscribed(pool, keys)) \subseteq Carried(pool)
  <1> DEFINE new == Unsubscribed(pool, keys)
             off(i) == keys \cap OnLink(pool, i)
  <1>1. ASSUME NEW i
        PROVE  IsFiniteSet(off(i)) /\ Cardinality(off(i)) \in Nat
    <2>1. off(i) \in SUBSET Keys
      OBVIOUS
    <2> QED
      BY <2>1, FS_Subset, FS_CardinalityType, PoolAssumption
  <1> DEFINE count == [i \in Links |-> pool.count[i] - Cardinality(off(i))]
             map == [k \in Keys |-> IF k \in keys THEN 0 ELSE pool.map[k]]
             carries == [i \in Links |-> pool.carries[i] \ off(i)]
  <1>2. /\ count \in [Links -> Int]
        /\ map \in [Keys -> 0 .. MaxConnections]
        /\ carries \in [Links -> SUBSET Keys]
    <2>1. count \in [Links -> Int]
      BY <1>1 DEF PoolSound, Pool
    <2>2. map \in [Keys -> 0 .. MaxConnections]
      BY PoolAssumption DEF PoolSound, Pool
    <2>3. carries \in [Links -> SUBSET Keys]
      BY DEF PoolSound, Pool
    <2> QED
      BY <2>1, <2>2, <2>3
  <1>3. new = [pool EXCEPT !.count = count, !.map = map, !.carries = carries]
    BY DEF Unsubscribed
  <1>4. ASSUME NEW j \in Links
        PROVE  /\ count[j] = pool.count[j] - Cardinality(off(j))
               /\ carries[j] = pool.carries[j] \ off(j)
    OBVIOUS
  <1>5. ASSUME NEW k \in Keys
        PROVE  map[k] = IF k \in keys THEN 0 ELSE pool.map[k]
    OBVIOUS
  <1> HIDE DEF count, map, carries
  <1>6. /\ new \in Pool
        /\ new.initialized = pool.initialized
        /\ new.links = pool.links
        /\ new.count = count /\ new.map = map /\ new.carries = carries
    BY <1>2, <1>3 DEF PoolSound, Pool
  <1> HIDE DEF new
  <1>7. ASSUME NEW j \in Links
        PROVE  /\ new.count[j] = Cardinality(OnLink(new, j))
               /\ new.carries[j] = OnLink(new, j)
               /\ new.count[j] <= MaxSymbols
               /\ new.count[j] > 0 => j <= new.links
    <2>1. OnLink(new, j) = OnLink(pool, j) \ off(j)
      BY <1>5, <1>6, PoolAssumption DEF OnLink, Links
    <2>2. Cardinality(OnLink(pool, j) \ off(j))
            = Cardinality(OnLink(pool, j)) - Cardinality(OnLink(pool, j) \cap off(j))
      BY OnLinkFinite, FS_Difference
    <2>3. OnLink(pool, j) \cap off(j) = off(j)
      OBVIOUS
    <2>4. /\ pool.count[j] = Cardinality(OnLink(pool, j))
          /\ pool.carries[j] = OnLink(pool, j)
          /\ pool.count[j] <= MaxSymbols
          /\ pool.count[j] > 0 => j <= pool.links
      BY DEF PoolSound, PoolAgrees
    <2>5. Cardinality(OnLink(pool, j)) \in Nat /\ Cardinality(off(j)) \in Nat
      BY OnLinkFinite, <1>1
    <2>6. new.count[j] = pool.count[j] - Cardinality(off(j))
      BY <1>4, <1>6
    <2>7. new.carries[j] = OnLink(new, j)
      BY <1>4, <1>6, <2>1, <2>4
    <2>8. Cardinality(OnLink(new, j)) = Cardinality(OnLink(pool, j)) - Cardinality(off(j))
      BY <2>1, <2>2, <2>3
    <2> HIDE DEF off
    <2>9. new.count[j] = Cardinality(OnLink(new, j))
      BY <2>4, <2>6, <2>8
    <2>10. new.count[j] <= MaxSymbols /\ (new.count[j] > 0 => j <= new.links)
      BY <1>6, <2>4, <2>5, <2>6, PoolAssumption
    <2> QED
      BY <2>7, <2>9, <2>10
  <1>8. PoolAgrees(new)
    BY <1>7 DEF PoolAgrees
  <1>9. Carried(new) \subseteq Carried(pool)
    BY <1>4, <1>6 DEF Carried
  <1> QED
    BY <1>6, <1>8, <1>9 DEF PoolSound, new

LEMMA EmptiedSound ==
    ASSUME NEW pool, PoolSound(pool)
    PROVE  /\ PoolSound(Emptied(pool))
           /\ Emptied(pool).initialized = pool.initialized
           /\ Carried(Emptied(pool)) = {}
  <1>1. /\ FreshPool.count \in [Links -> Int]
        /\ FreshPool.map \in [Keys -> 0 .. MaxConnections]
        /\ FreshPool.carries \in [Links -> SUBSET Keys]
    BY PoolAssumption DEF FreshPool
  <1>2. /\ Emptied(pool) \in Pool
        /\ Emptied(pool).initialized = pool.initialized
        /\ Emptied(pool).links = pool.links
        /\ Emptied(pool).count = FreshPool.count
        /\ Emptied(pool).map = FreshPool.map
        /\ Emptied(pool).carries = FreshPool.carries
    BY <1>1 DEF PoolSound, Pool, Emptied
  <1>3. \A i \in Links : OnLink(Emptied(pool), i) = OnLink(FreshPool, i)
    BY <1>2 DEF OnLink
  <1>4. \A i \in Links : FreshPool.count[i] = 0
    BY DEF FreshPool
  <1>5. PoolAgrees(Emptied(pool))
    BY <1>2, <1>3, <1>4, FreshSound DEF PoolSound, PoolAgrees
  <1>6. Carried(Emptied(pool)) = Carried(FreshPool)
    BY <1>2 DEF Carried
  <1> QED
    BY <1>2, <1>5, <1>6, FreshSound DEF PoolSound

-----------------------------------------------------------------------------
(* The proxy *)

\* Every pool is sound; a stored adapter's pool is initialized, and a user
\* whose adapter is not stored is fed nothing.
PoolsSound ==
    \A u \in Users :
        /\ PoolSound(pools[u])
        /\ u \in broker_adapters => pools[u].initialized
        /\ u \notin broker_adapters => Carried(pools[u]) = {}

FeedInv ==
    /\ TypeOK
    /\ PoolsSound
    /\ SubscribedIsIndexed
    /\ NoFeedWithoutClient

\* One pool is replaced: what the actions on pools have in common.
LEMMA OnePool ==
    ASSUME PoolsSound, TypeOK, NEW u \in Users, NEW pool,
           PoolSound(pool),
           pools' = [pools EXCEPT ![u] = pool],
           \A v \in Users \ {u} : v \in broker_adapters' <=> v \in broker_adapters,
           u \in broker_adapters' => pool.initialized,
           u \notin broker_adapters' => Carried(pool) = {}
    PROVE  pools' \in [Users -> Pool] /\ PoolsSound'
  <1>1. pool \in Pool
    BY DEF PoolSound
  <1>2. pools' \in [Users -> Pool]
    BY <1>1 DEF TypeOK
  <1>3. \A v \in Users : pools'[v] = IF v = u THEN pool ELSE pools[v]
    BY DEF TypeOK
  <1>4. ASSUME NEW v \in Users
        PROVE  /\ PoolSound(pools'[v])
               /\ v \in broker_adapters' => pools'[v].initialized
               /\ v \notin broker_adapters' => Carried(pools'[v]) = {}
    <2>1. CASE v = u
      BY <1>3, <2>1
    <2>2. CASE v # u
      BY <1>3, <2>2 DEF PoolsSound
    <2> QED
      BY <2>1, <2>2
  <1> QED
    BY <1>2, <1>4 DEF PoolsSound

LEMMA FeedInit == Init => FeedInv
  <1> SUFFICES ASSUME Init PROVE FeedInv
    OBVIOUS
  <1>1. \A u \in Users : pools[u] = FreshPool
    BY DEF Init
  <1>2. TypeOK
    BY FreshSound DEF Init, TypeOK, PoolSound
  <1>3. PoolsSound
    BY <1>1, FreshSound DEF Init, PoolsSound
  <1>4. SubscribedIsIndexed
    BY DEF Init, SubscribedIsIndexed
  <1>5. NoFeedWithoutClient
    BY <1>1, FreshSound DEF Init, NoFeedWithoutClient
  <1> QED
    BY <1>2, <1>3, <1>4, <1>5 DEF FeedInv

LEMMA FeedNext == FeedInv /\ [Next]_vars => FeedInv'
  <1> SUFFICES ASSUME FeedInv, [Next]_vars PROVE FeedInv'
    OBVIOUS
  <1> USE DEF FeedInv
  <1>1. ASSUME NEW c \in Clients, Connect(c) PROVE FeedInv'
    <2>1. TypeOK'
      BY <1>1 DEF TypeOK, Connect
    <2>2. PoolsSound' /\ SubscribedIsIndexed' /\ NoFeedWithoutClient'
      BY <1>1 DEF Connect, PoolsSound, SubscribedIsIndexed, NoFeedWithoutClient
    <2> QED
      BY <2>1, <2>2
  <1>2. ASSUME NEW c \in Clients, NEW u \in Users, AuthenticateInVain(c, u)
        PROVE FeedInv'
    <2>1. /\ PoolsSound' /\ pools' \in [Users -> Pool]
          /\ \A v \in Users : Carried(pools'[v]) = Carried(pools[v])
      <3>1. CASE pools' = pools
        BY <1>2, <3>1 DEF AuthenticateInVain, PoolsSound, TypeOK
      <3>2. CASE /\ u \notin broker_adapters
                 /\ pools' = [pools EXCEPT ![u] = Initialized(pools[u])]
        <4>1. PoolSound(pools[u]) /\ Carried(pools[u]) = {}
          BY <3>2 DEF PoolsSound
        <4>2. /\ PoolSound(Initialized(pools[u]))
              /\ Initialized(pools[u]).initialized
              /\ Carried(Initialized(pools[u])) = Carried(pools[u])
          BY <4>1, InitializedSound
        <4>3. broker_adapters' = broker_adapters
          BY <1>2 DEF AuthenticateInVain
        <4>4. PoolsSound' /\ pools' \in [Users -> Pool]
          BY <3>2, <4>1, <4>2, <4>3, OnePool
        <4> QED
          BY <3>2, <4>2, <4>4 DEF TypeOK
      <3> QED
        BY <1>2, <3>1, <3>2 DEF AuthenticateInVain
    <2>2. TypeOK'
      BY <1>2, <2>1 DEF TypeOK, AuthenticateInVain
    <2>3. SubscribedIsIndexed'
      BY <1>2 DEF AuthenticateInVain, SubscribedIsIndexed
    <2>4. NoFeedWithoutClient'
      <3> SUFFICES ASSUME ~Switches, NEW v \in Users,
                          \A d \in Clients : user_mapping'[d] # v
                   PROVE  /\ Carried(pools'[v]) = {}
                          /\ v \in broker_adapters' => v \in KeepsAlive
        BY <1>2 DEF NoFeedWithoutClient
      <3>1. \A d \in Clients : user_mapping[d] # v
        BY <1>2, ProxyAssumption DEF AuthenticateInVain, MayBe, TypeOK
      <3> QED
        BY <1>2, <2>1, <3>1 DEF NoFeedWithoutClient, AuthenticateInVain
    <2> QED
      BY <2>1, <2>2, <2>3, <2>4
  <1>3. ASSUME NEW c \in Clients, NEW u \in Users, Authenticate(c, u)
        PROVE FeedInv'
    <2>1. /\ PoolsSound' /\ pools' \in [Users -> Pool]
          /\ \A v \in Users : Carried(pools'[v]) = Carried(pools[v])
      <3>1. CASE u \in broker_adapters
        BY <1>3, <3>1 DEF Authenticate, PoolsSound, TypeOK
      <3>2. CASE u \notin broker_adapters
        <4>1. PoolSound(pools[u]) /\ Carried(pools[u]) = {}
          BY <3>2 DEF PoolsSound
        <4>2. /\ PoolSound(Initialized(pools[u]))
              /\ Initialized(pools[u]).initialized
              /\ Carried(Initialized(pools[u])) = Carried(pools[u])
          BY <4>1, InitializedSound
        <4>3. /\ broker_adapters' = broker_adapters \cup {u}
              /\ pools' = [pools EXCEPT ![u] = Initialized(pools[u])]
          BY <1>3, <3>2 DEF Authenticate
        <4>4. PoolsSound' /\ pools' \in [Users -> Pool]
          BY <4>1, <4>2, <4>3, OnePool
        <4> QED
          BY <4>2, <4>3, <4>4 DEF TypeOK
      <3> QED
        BY <3>1, <3>2
    <2>2. TypeOK'
      BY <1>3, <2>1 DEF TypeOK, Authenticate
    <2>3. SubscribedIsIndexed'
      BY <1>3 DEF Authenticate, SubscribedIsIndexed
    <2>4. NoFeedWithoutClient'
      <3> SUFFICES ASSUME ~Switches, NEW v \in Users,
                          \A d \in Clients : user_mapping'[d] # v
                   PROVE  /\ Carried(pools'[v]) = {}
                          /\ v \in broker_adapters' => v \in KeepsAlive
        BY <1>3 DEF NoFeedWithoutClient
      <3>1. \A d \in Clients : user_mapping[d] # v
        BY <1>3, ProxyAssumption DEF Authenticate, MayBe, TypeOK
      <3>2. v # u
        BY <1>3 DEF Authenticate, TypeOK
      <3> QED
        BY <1>3, <2>1, <3>1, <3>2 DEF NoFeedWithoutClient, Authenticate
    <2> QED
      BY <2>1, <2>2, <2>3, <2>4
  <1>4. ASSUME NEW c \in Clients, NEW k \in Keys, Subscribe(c, k)
        PROVE FeedInv'
    <2> DEFINE u == user_mapping[c]
    <2>1. u \in broker_adapters /\ u \in Users
      BY <1>4 DEF Subscribe, Ready, TypeOK
    <2>2. PoolSound(pools[u]) /\ pools[u].initialized
      BY <2>1 DEF PoolsSound
    <2>3. PICK result \in Subscribed(pools[u], k) :
            /\ pools' = [pools EXCEPT ![u] = result.pool]
            /\ IF result.ok
               THEN /\ subscriptions' = [subscriptions EXCEPT ![c] = subscriptions[c] \cup {k}]
                    /\ subscription_index' =
                         [subscription_index EXCEPT ![k] = subscription_index[k] \cup {c}]
               ELSE UNCHANGED <<subscriptions, subscription_index>>
      BY <1>4 DEF Subscribe
    <2>4. UNCHANGED <<clients, user_mapping, broker_adapters>>
      BY <1>4 DEF Subscribe
    <2> HIDE DEF u
    <2>5. PoolSound(result.pool) /\ result.pool.initialized
      BY <2>2, SubscribedSound
    <2>6. PoolsSound' /\ pools' \in [Users -> Pool]
      BY <2>1, <2>3, <2>4, <2>5, OnePool
    <2>7. TypeOK' /\ SubscribedIsIndexed'
      <3>1. CASE result.ok
        BY <2>3, <2>4, <2>6, <3>1 DEF TypeOK, SubscribedIsIndexed
      <3>2. CASE ~result.ok
        BY <2>3, <2>4, <2>6, <3>2 DEF TypeOK, SubscribedIsIndexed
      <3> QED
        BY <3>1, <3>2
    <2>8. NoFeedWithoutClient'
      BY <2>1, <2>3, <2>4 DEF NoFeedWithoutClient, TypeOK, u
    <2> QED
      BY <2>6, <2>7, <2>8
  <1>5. ASSUME NEW c \in Clients, NEW keys \in SUBSET Keys, Ready(c),
               pools' = [pools EXCEPT ![user_mapping[c]] =
                           Unsubscribed(pools[user_mapping[c]], keys)],
               UNCHANGED <<user_mapping, broker_adapters>>
        PROVE /\ PoolsSound' /\ pools' \in [Users -> Pool]
              /\ NoFeedWithoutClient'
    <2> DEFINE u == user_mapping[c]
    <2>1. u \in broker_adapters /\ u \in Users
      BY <1>5 DEF Ready, TypeOK
    <2>2. PoolSound(pools[u]) /\ pools[u].initialized
      BY <2>1 DEF PoolsSound
    <2> DEFINE new == Unsubscribed(pools[u], keys)
    <2>3. PoolSound(new) /\ new.initialized
      BY <2>2, UnsubscribedSound
    <2>4. pools' = [pools EXCEPT ![u] = new] /\ broker_adapters' = broker_adapters
      BY <1>5
    <2> HIDE DEF new, u
    <2>5. PoolsSound' /\ pools' \in [Users -> Pool]
      BY <2>1, <2>3, <2>4, OnePool
    <2>6. NoFeedWithoutClient'
      BY <1>5, <2>1, <2>4 DEF NoFeedWithoutClient, TypeOK, u
    <2> QED
      BY <2>5, <2>6
  <1>6. ASSUME NEW c \in Clients, NEW k \in Keys, Unsubscribe(c, k)
        PROVE FeedInv'
    <2>1. /\ Ready(c) /\ {k} \in SUBSET Keys
          /\ pools' = [pools EXCEPT ![user_mapping[c]] =
                         Unsubscribed(pools[user_mapping[c]], {k})]
          /\ UNCHANGED <<clients, user_mapping, subscription_index, broker_adapters>>
          /\ subscriptions' = [subscriptions EXCEPT ![c] = subscriptions[c] \ {k}]
      BY <1>6 DEF Unsubscribe
    <2>2. PoolsSound' /\ pools' \in [Users -> Pool] /\ NoFeedWithoutClient'
      BY <2>1, <1>5
    <2>3. TypeOK' /\ SubscribedIsIndexed'
      BY <2>1, <2>2 DEF TypeOK, SubscribedIsIndexed
    <2> QED
      BY <2>2, <2>3
  <1>7. ASSUME NEW c \in Clients, UnsubscribeAll(c)
        PROVE FeedInv'
    <2>1. PICK accepted \in SUBSET subscriptions[c] :
            pools' = [pools EXCEPT ![user_mapping[c]] =
                        Unsubscribed(pools[user_mapping[c]], accepted)]
      BY <1>7 DEF UnsubscribeAll
    <2>2. /\ Ready(c) /\ accepted \in SUBSET Keys
          /\ UNCHANGED <<clients, user_mapping, subscription_index, broker_adapters>>
          /\ subscriptions' = [subscriptions EXCEPT ![c] = {}]
      BY <1>7 DEF UnsubscribeAll, TypeOK
    <2>3. PoolsSound' /\ pools' \in [Users -> Pool] /\ NoFeedWithoutClient'
      BY <2>1, <2>2, <1>5
    <2>4. TypeOK' /\ SubscribedIsIndexed'
      BY <2>2, <2>3 DEF TypeOK, SubscribedIsIndexed
    <2> QED
      BY <2>3, <2>4
  <1>8. ASSUME NEW c \in Clients, Disconnect(c)
        PROVE FeedInv'
    <2> DEFINE u == user_mapping[c]
    <2>1. /\ clients' = clients \ {c}
          /\ subscriptions' = [subscriptions EXCEPT ![c] = {}]
          /\ subscription_index' = IndexWithout(c)
          /\ user_mapping' = [user_mapping EXCEPT ![c] = NoUser]
      BY <1>8 DEF Disconnect
    <2>2. SubscribedIsIndexed'
      BY <2>1 DEF SubscribedIsIndexed, TypeOK, IndexWithout
    <2>3. /\ PoolsSound' /\ pools' \in [Users -> Pool] /\ broker_adapters' \subseteq Users
          /\ \A v \in Users \ {u} :
               /\ pools'[v] = pools[v]
               /\ v \in broker_adapters' => v \in broker_adapters
          /\ u \in Users /\ (\A d \in Clients \ {c} : user_mapping[d] # u) =>
               /\ Carried(pools'[u]) = {}
               /\ u \in broker_adapters' => u \in KeepsAlive
      <3>1. CASE u \notin broker_adapters /\ UNCHANGED <<broker_adapters, pools>>
        BY <3>1 DEF PoolsSound, TypeOK
      <3>2. CASE /\ u \in broker_adapters /\ ~(\A d \in Clients \ {c} : user_mapping[d] # u)
                 /\ \E accepted \in SUBSET subscriptions[c] :
                      pools' = [pools EXCEPT ![u] = Unsubscribed(pools[u], accepted)]
                 /\ UNCHANGED broker_adapters
        <4>1. PICK accepted \in SUBSET subscriptions[c] :
                pools' = [pools EXCEPT ![u] = Unsubscribed(pools[u], accepted)]
          BY <3>2
        <4>2. accepted \in SUBSET Keys /\ u \in Users /\ PoolSound(pools[u])
              /\ pools[u].initialized /\ broker_adapters' = broker_adapters
          BY <3>2 DEF TypeOK, PoolsSound
        <4> DEFINE new == Unsubscribed(pools[u], accepted)
        <4>3. PoolSound(new) /\ new.initialized
          BY <4>2, UnsubscribedSound
        <4>4. pools' = [pools EXCEPT ![u] = new]
          BY <4>1
        <4> HIDE DEF new, u
        <4>5. PoolsSound' /\ pools' \in [Users -> Pool]
          BY <3>2, <4>2, <4>3, <4>4, OnePool
        <4> QED
          BY <3>2, <4>2, <4>4, <4>5 DEF TypeOK
      <3>3. CASE /\ u \in broker_adapters /\ u \in KeepsAlive
                 /\ pools' = [pools EXCEPT ![u] = Emptied(pools[u])]
                 /\ UNCHANGED broker_adapters
        <4>1. u \in Users /\ PoolSound(pools[u])
              /\ pools[u].initialized /\ broker_adapters' = broker_adapters
          BY <3>3 DEF TypeOK, PoolsSound
        <4> DEFINE new == Emptied(pools[u])
        <4>2. PoolSound(new) /\ new.initialized /\ Carried(new) = {}
          BY <4>1, EmptiedSound
        <4>3. pools' = [pools EXCEPT ![u] = new]
          BY <3>3
        <4> HIDE DEF new, u
        <4>4. PoolsSound' /\ pools' \in [Users -> Pool]
          BY <3>3, <4>1, <4>2, <4>3, OnePool
        <4> QED
          BY <3>3, <4>1, <4>2, <4>3, <4>4 DEF TypeOK
      <3>4. CASE /\ u \in broker_adapters
                 /\ pools' = [pools EXCEPT ![u] = FreshPool]
                 /\ broker_adapters' = broker_adapters \ {u}
        <4>1. u \in Users
          BY <3>4 DEF TypeOK
        <4>2. PoolSound(FreshPool) /\ Carried(FreshPool) = {}
          BY FreshSound
        <4> DEFINE new == FreshPool
        <4>3. pools' = [pools EXCEPT ![u] = new] /\ broker_adapters' = broker_adapters \ {u}
          BY <3>4
        <4>4. u \notin broker_adapters'
          BY <4>3
        <4>5. \A v \in Users \ {u} : v \in broker_adapters' <=> v \in broker_adapters
          BY <4>3
        <4>6. PoolSound(new) /\ Carried(new) = {}
          BY <4>2
        <4> HIDE DEF new, u
        <4>7. PoolsSound' /\ pools' \in [Users -> Pool]
          BY <4>1, <4>3, <4>4, <4>5, <4>6, OnePool
        <4> QED
          BY <4>1, <4>3, <4>4, <4>6, <4>7 DEF TypeOK
      <3> QED
        BY <1>8, <3>1, <3>2, <3>3, <3>4 DEF Disconnect, IsLast
    <2>4. TypeOK'
      BY <2>1, <2>3 DEF TypeOK, IndexWithout
    <2>5. \A v \in Users \ {u} :
             /\ pools'[v] = pools[v]
             /\ v \in broker_adapters' => v \in broker_adapters
      BY <2>3
    <2>6. u \in Users /\ (\A d \in Clients \ {c} : user_mapping[d] # u) =>
             /\ Carried(pools'[u]) = {}
             /\ u \in broker_adapters' => u \in KeepsAlive
      BY <2>3
    <2>7. NoFeedWithoutClient'
      <3> SUFFICES ASSUME ~Switches, NEW v \in Users,
                          \A d \in Clients : user_mapping'[d] # v
                   PROVE  /\ Carried(pools'[v]) = {}
                          /\ v \in broker_adapters' => v \in KeepsAlive
        BY DEF NoFeedWithoutClient
      <3>1. \A d \in Clients \ {c} : user_mapping[d] # v
        BY <2>1 DEF TypeOK
      <3>2. CASE v = u
        <4>1. (\A d \in Clients \ {c} : user_mapping[d] # u) /\ u \in Users
          BY <3>1, <3>2
        <4>2. /\ Carried(pools'[u]) = {}
              /\ u \in broker_adapters' => u \in KeepsAlive
          BY <2>6, <4>1
        <4> QED
          BY <3>2, <4>2
      <3>3. CASE v # u
        <4>1. \A d \in Clients : user_mapping[d] # v
          BY <3>1, <3>3
        <4>2. /\ Carried(pools[v]) = {}
              /\ v \in broker_adapters => v \in KeepsAlive
          BY <4>1 DEF NoFeedWithoutClient
        <4>3. /\ pools'[v] = pools[v]
              /\ v \in broker_adapters' => v \in broker_adapters
          BY <2>5, <3>3
        <4> QED
          BY <4>2, <4>3
      <3> QED
        BY <3>2, <3>3
    <2> QED
      BY <2>2, <2>3, <2>4, <2>7
  <1>9. CASE UNCHANGED vars
    BY <1>9 DEF vars, TypeOK, PoolsSound, SubscribedIsIndexed, NoFeedWithoutClient
  <1> QED
    BY <1>1, <1>2, <1>3, <1>4, <1>6, <1>7, <1>8, <1>9 DEF Next

LEMMA FeedInvariant == Spec => []FeedInv
  BY FeedInit, FeedNext, PTL DEF Spec

\* Every table of the proxy keeps its shape.
THEOREM FeedTypeCorrect == Spec => []TypeOK
  <1>1. FeedInv => TypeOK
    BY DEF FeedInv
  <1> QED
    BY <1>1, FeedInvariant, PTL

\* No client's departure cuts another off from what it subscribed to.
THEOREM SubscribedIsIndexedCorrect == Spec => []SubscribedIsIndexed
  <1>1. FeedInv => SubscribedIsIndexed
    BY DEF FeedInv
  <1> QED
    BY <1>1, FeedInvariant, PTL

\* Counters, map and adapters of every pool agree, within the broker's limit.
THEOREM PoolsAgreeCorrect == Spec => []PoolsAgree
  <1>1. FeedInv => PoolsAgree
    BY DEF FeedInv, PoolsSound, PoolSound, PoolsAgree
  <1> QED
    BY <1>1, FeedInvariant, PTL

\* Nobody is fed who has no client left.
THEOREM NoFeedWithoutClientCorrect == Spec => []NoFeedWithoutClient
  <1>1. FeedInv => NoFeedWithoutClient
    BY DEF FeedInv
  <1> QED
    BY <1>1, FeedInvariant, PTL
=================================================================================
