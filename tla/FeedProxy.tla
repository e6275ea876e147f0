------------------------------- MODULE FeedProxy --------------------------------
(***************************************************************************)
(* The WebSocket proxy: websocket_proxy/server.py.  Clients authenticate as *)
(* users, all clients of a user share the user's pool, and ticks go to the *)
(* clients the subscription index lists.                                   *)
(*                                                                         *)
(* Handlers run on one event loop and await nothing but their last message *)
(* to the client, so each is one action.  A request for several symbols is *)
(* several requests.  Client ids are object addresses: they come back.     *)
(***************************************************************************)
EXTENDS ConnectionPool

CONSTANTS
    Clients,      \* ids a connection may get
    Users,
    NoUser,
    KeepsAlive,   \* users whose broker is kept connected (flattrade, shoonya)
    Switches      \* may a client authenticate again as somebody else?

ASSUME ProxyAssumption ==
    /\ NoUser \notin Users
    /\ KeepsAlive \subseteq Users
    /\ Switches \in BOOLEAN

VARIABLES
    clients,         \* open connections
    user_mapping,    \* client -> user
    subscriptions,   \* client -> keys
    subscription_index, \* key -> clients
    broker_adapters, \* users whose adapter is stored
    pools            \* the pool of each user (_POOLED_ADAPTERS)

vars == <<clients, user_mapping, subscriptions, subscription_index,
          broker_adapters, pools>>

TypeOK ==
    /\ clients \subseteq Clients
    /\ user_mapping \in [Clients -> Users \cup {NoUser}]
    /\ subscriptions \in [Clients -> SUBSET Keys]
    /\ subscription_index \in [Keys -> SUBSET Clients]
    /\ broker_adapters \subseteq Users
    /\ pools \in [Users -> Pool]

Init ==
    /\ clients = {}
    /\ user_mapping = [c \in Clients |-> NoUser]
    /\ subscriptions = [c \in Clients |-> {}]
    /\ subscription_index = [k \in Keys |-> {}]
    /\ broker_adapters = {}
    /\ pools = [u \in Users |-> FreshPool]

-----------------------------------------------------------------------------
Connect(c) ==
    /\ c \notin clients
    /\ clients' = clients \cup {c}
    /\ UNCHANGED <<user_mapping, subscriptions, subscription_index,
                   broker_adapters, pools>>

MayBe(c, u) ==
    /\ c \in clients
    /\ Switches \/ user_mapping[c] \in {NoUser, u}

\* The user is noted before the broker is looked up, and stays noted when there
\* is none, or when its adapter does not initialize or connect.  A pool that
\* was initialized is found again by the next attempt.
AuthenticateInVain(c, u) ==
    /\ MayBe(c, u)
    /\ user_mapping' = [user_mapping EXCEPT ![c] = u]
    /\ \/ pools' = pools
       \/ /\ u \notin broker_adapters
          /\ pools' = [pools EXCEPT ![u] = Initialized(pools[u])]
    /\ UNCHANGED <<clients, subscriptions, subscription_index, broker_adapters>>

Authenticate(c, u) ==
    /\ MayBe(c, u)
    /\ user_mapping' = [user_mapping EXCEPT ![c] = u]
    /\ broker_adapters' = broker_adapters \cup {u}
    /\ pools' = IF u \in broker_adapters THEN pools
                ELSE [pools EXCEPT ![u] = Initialized(pools[u])]
    /\ UNCHANGED <<clients, subscriptions, subscription_index>>

\* Is the client known, and its user's adapter stored?
Ready(c) == c \in clients /\ user_mapping[c] \in broker_adapters

Subscribe(c, k) ==
    /\ Ready(c)
    /\ \E result \in Subscribed(pools[user_mapping[c]], k) :
         /\ pools' = [pools EXCEPT ![user_mapping[c]] = result.pool]
         /\ IF result.ok
            THEN /\ subscriptions' = [subscriptions EXCEPT ![c] = subscriptions[c] \cup {k}]
                 /\ subscription_index' =
                      [subscription_index EXCEPT ![k] = subscription_index[k] \cup {c}]
            ELSE UNCHANGED <<subscriptions, subscription_index>>
    /\ UNCHANGED <<clients, user_mapping, broker_adapters>>

\* Ends the feed for every client of the user, whoever asked for it; the index
\* is left as it is.
Unsubscribe(c, k) ==
    /\ Ready(c) /\ pools[user_mapping[c]].map[k] # 0
    /\ pools' = [pools EXCEPT ![user_mapping[c]] = Unsubscribed(pools[user_mapping[c]], {k})]
    /\ subscriptions' = [subscriptions EXCEPT ![c] = subscriptions[c] \ {k}]
    /\ UNCHANGED <<clients, user_mapping, subscription_index, broker_adapters>>

\* Whatever the broker answers, the client's own list is cleared.
UnsubscribeAll(c) ==
    /\ Ready(c)
    /\ \E accepted \in SUBSET subscriptions[c] :
         pools' = [pools EXCEPT ![user_mapping[c]] =
                     Unsubscribed(pools[user_mapping[c]], accepted)]
    /\ subscriptions' = [subscriptions EXCEPT ![c] = {}]
    /\ UNCHANGED <<clients, user_mapping, subscription_index, broker_adapters>>

-----------------------------------------------------------------------------
(* cleanup_client *)

\* An entry that is dropped although other clients are in it.
Mut_IndexWithout(c) ==
    [k \in Keys |-> IF k \in subscriptions[c] THEN {} ELSE subscription_index[k]]

IndexWithout(c) ==
    [k \in Keys |-> IF k \in subscriptions[c] THEN subscription_index[k] \ {c}
                                              ELSE subscription_index[k]]

\* The last client at all, not the last of its user.
Mut_IsLast(c) == clients = {c}

IsLast(c) == \A d \in Clients \ {c} : user_mapping[d] # user_mapping[c]

Disconnect(c) ==
    LET u == user_mapping[c] IN
    /\ c \in clients
    /\ clients' = clients \ {c}
    /\ subscriptions' = [subscriptions EXCEPT ![c] = {}]
    /\ subscription_index' = IndexWithout(c)
    /\ user_mapping' = [user_mapping EXCEPT ![c] = NoUser]
    /\ \/ /\ u \notin broker_adapters
          /\ UNCHANGED <<broker_adapters, pools>>
       \/ /\ u \in broker_adapters /\ ~IsLast(c)
          /\ \E accepted \in SUBSET subscriptions[c] :
               pools' = [pools EXCEPT ![u] = Unsubscribed(pools[u], accepted)]
          /\ UNCHANGED broker_adapters
       \/ /\ u \in broker_adapters /\ IsLast(c) /\ u \in KeepsAlive
          /\ pools' = [pools EXCEPT ![u] = Emptied(pools[u])]
          /\ UNCHANGED broker_adapters
       \/ /\ u \in broker_adapters /\ IsLast(c) /\ u \notin KeepsAlive
          /\ pools' = [pools EXCEPT ![u] = FreshPool]
          /\ broker_adapters' = broker_adapters \ {u}

Next ==
    \E c \in Clients :
        \/ Connect(c) \/ UnsubscribeAll(c) \/ Disconnect(c)
        \/ \E u \in Users : AuthenticateInVain(c, u) \/ Authenticate(c, u)
        \/ \E k \in Keys : Subscribe(c, k) \/ Unsubscribe(c, k)

Spec == Init /\ [][Next]_vars

-----------------------------------------------------------------------------
(* Properties *)

\* Whatever clients of whatever users come, fail to authenticate, share feeds
\* and go in any order, a client is in the index for what it subscribed to, so
\* no other client's departure cuts it off (subscribe_client, cleanup_client).
SubscribedIsIndexed ==
    \A c \in Clients : \A k \in subscriptions[c] : c \in subscription_index[k]

\* The pool's three tables agree and no capacity is lost: a connection counts
\* exactly the keys mapped to it, carries exactly those, and never more than
\* the broker allows, over fills, refusals, teardowns and new connections.
PoolAgrees(pool) ==
    \A i \in Links :
        /\ pool.count[i] = Cardinality(OnLink(pool, i))
        /\ pool.carries[i] = OnLink(pool, i)
        /\ pool.count[i] <= MaxSymbols
        /\ pool.count[i] > 0 => i <= pool.links

PoolsAgree == \A u \in Users : PoolAgrees(pools[u])

\* The broker carries nothing for a user without clients, and only kept-alive
\* brokers stay connected ("last client": cleanup_client), provided no client
\* changes its user.
NoFeedWithoutClient ==
    ~Switches =>
      \A u \in Users : (\A c \in Clients : user_mapping[c] # u) =>
          /\ Carried(pools[u]) = {}
          /\ u \in broker_adapters => u \in KeepsAlive
=================================================================================
