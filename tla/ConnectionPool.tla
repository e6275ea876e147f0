----------------------------- MODULE ConnectionPool -----------------------------
(***************************************************************************)
(* One user's connections to a broker and the symbols they carry:          *)
(* ConnectionPool of websocket_proxy/connection_manager.py behind the       *)
(* wrapper of broker_factory.py.  Every method runs under the pool's lock,  *)
(* and is an operator from the old pool to the new one.                    *)
(*                                                                         *)
(* A key is a (symbol, exchange, mode).  carries is the subscription table *)
(* of each broker adapter, which it restores when it reconnects; adapters  *)
(* are outside, and may refuse a call without effect.                      *)
(***************************************************************************)
EXTENDS Integers, FiniteSets

CONSTANTS
    Keys,
    MaxSymbols,       \* MAX_SYMBOLS_PER_WEBSOCKET
    MaxConnections    \* MAX_WEBSOCKET_CONNECTIONS

ASSUME PoolAssumption ==
    /\ IsFiniteSet(Keys)
    /\ MaxSymbols \in Nat \ {0}
    /\ MaxConnections \in Nat \ {0}

Links == 1 .. MaxConnections

\* links adapters are open; map says on which of them a key is, 0 if on none.
Pool == [initialized : BOOLEAN, links : 0 .. MaxConnections,
         count : [Links -> Int], map : [Keys -> 0 .. MaxConnections],
         carries : [Links -> SUBSET Keys]]

\* A pool before initialize, and after disconnect.
FreshPool == [initialized |-> FALSE, links |-> 0, count |-> [i \in Links |-> 0],
              map |-> [k \in Keys |-> 0], carries |-> [i \in Links |-> {}]]

\* Another adapter for a pool that has one.
Mut_Initialized(pool) ==
    [pool EXCEPT !.initialized = TRUE, !.links = pool.links + 1]

\* The first adapter; a pool that is initialized stays as it is.
Initialized(pool) ==
    IF pool.initialized THEN pool
    ELSE [pool EXCEPT !.initialized = TRUE, !.links = 1]

OnLink(pool, i) == {k \in Keys : pool.map[k] = i}

Roomy(pool) == {i \in 1 .. pool.links : pool.count[i] < MaxSymbols}

\* The first connection with room, if there is one.
FirstRoomy(pool) == {i \in Roomy(pool) : \A j \in Roomy(pool) : i <= j}

Open(pool) == [pool EXCEPT !.links = pool.links + 1]

Carry(pool, k, i) ==
    [pool EXCEPT !.count[i] = pool.count[i] + 1, !.map[k] = i,
                 !.carries[i] = pool.carries[i] \cup {k}]

Success(pool) == [ok |-> TRUE, pool |-> pool]
Failure(pool) == [ok |-> FALSE, pool |-> pool]

\* What subscribe may answer: a key is put on the first connection with room,
\* and a connection is opened when there is none.  An adapter that refuses the
\* key stays open.
Subscribed(pool, k) ==
    IF pool.map[k] # 0
    THEN {Success(pool)}
    ELSE IF Roomy(pool) # {}
    THEN {Success(Carry(pool, k, i)) : i \in FirstRoomy(pool)} \cup {Failure(pool)}
    ELSE IF pool.links < MaxConnections
    THEN {Success(Carry(Open(pool), k, pool.links + 1)), Failure(Open(pool)), Failure(pool)}
    ELSE {Failure(pool)}

\* The counters are not told.
Mut_Unsubscribed(pool, keys) ==
    [pool EXCEPT
       !.map     = [k \in Keys |-> IF k \in keys THEN 0 ELSE pool.map[k]],
       !.carries = [i \in Links |-> pool.carries[i] \ keys]]

\* unsubscribe, for each of a set of keys; what is on no connection is refused.
Unsubscribed(pool, keys) ==
    [pool EXCEPT
       !.count   = [i \in Links |-> pool.count[i] - Cardinality(keys \cap OnLink(pool, i))],
       !.map     = [k \in Keys |-> IF k \in keys THEN 0 ELSE pool.map[k]],
       !.carries = [i \in Links |-> pool.carries[i] \ (keys \cap OnLink(pool, i))]]

\* unsubscribe_all keeps the connections.
Emptied(pool) ==
    [pool EXCEPT !.count = FreshPool.count, !.map = FreshPool.map,
                 !.carries = FreshPool.carries]

Carried(pool) == UNION {pool.carries[i] : i \in Links}
=================================================================================
