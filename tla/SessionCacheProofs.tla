--------------------------- MODULE SessionCacheProofs ----------------------------
(***************************************************************************)
(* What the caches of SessionCache may hold and which requests get a token,*)
(* for any number of threads, logins and keys.                             *)
(***************************************************************************)
EXTENDS SessionCache, TLAPS

Asking == {"verify", "scan", "remember", "row", "answered"}

\* A call that began while nobody was logged in is still on its way to no token,
\* and nobody has logged in since.
LostInv ==
    \A t \in Threads : thread[t].lost =>
        /\ thread[t].at \in Asking
        /\ ~IsValid
        /\ thread[t].at = "answered" => thread[t].token = 0

\* VerifiedIsCurrent, with the keys that matched and are about to be remembered.
KeyInv ==
    ~Changing({"changed"}) =>
        /\ verified \subseteq {key} \cup late.keys
        /\ \A t \in Threads : thread[t].at = "remember" /\ thread[t].match =>
              thread[t].key \in {key} \cup late.keys

Inv == TypeOK /\ NameCacheCurrent /\ KeyInv /\ LostInv

-----------------------------------------------------------------------------
(* Types *)

LEMMA KeyRange == 1 \in Keys /\ Keys \subseteq Nat /\ 0 \in Token /\ Token \subseteq Nat
  BY CacheAssumption DEF Keys, Token

LEMMA IdleType == Idle \in Thread
  BY KeyRange DEF Idle, Thread

\* One thread changes.
LEMMA OneThread ==
    ASSUME Inv, NEW t \in Threads, NEW r \in Thread,
           thread' = [thread EXCEPT ![t] = r],
           r.at \in {"keep", "fill"} => r.token # 0
    PROVE  /\ thread' \in [Threads -> Thread]
           /\ \A u \in Threads : thread'[u] = IF u = t THEN r ELSE thread[u]
           /\ \A u \in Threads : thread'[u].at \in {"keep", "fill"} => thread'[u].token # 0
  BY DEF Inv, TypeOK

\* What the actions that leave the database alone have in common.
LEMMA Local ==
    ASSUME Inv, NEW t \in Threads, NEW r \in Thread,
           thread' = [thread EXCEPT ![t] = r],
           r.at \in {"keep", "fill"} => r.token # 0,
           r.lost => r.at \in Asking /\ ~IsValid /\ (r.at = "answered" => r.token = 0),
           row' = row, key' = key, events' \in 0 .. MaxEvents,
           byName' \in Token, byKey' \in [Keys -> Token],
           verified' \subseteq Keys, invalid' \subseteq Keys,
           late' \in [name : SUBSET Token, keys : SUBSET Keys],
           late.name \subseteq late'.name,
           r.at = "remember" /\ r.match => r.key = key,
           \/ byName' = byName /\ thread[t].at \notin {"login", "clear"}
           \/ byName' = 0
           \/ byName' = row.token /\ ~row.revoked
           \/ byName' \in late'.name,
           \/ verified' = {} /\ late'.keys = Matched
           \/ /\ thread[t].at # "changed" /\ late'.keys = late.keys
              /\ verified' \subseteq verified \cup
                   IF thread[t].at = "remember" /\ thread[t].match THEN {thread[t].key} ELSE {}
    PROVE  Inv'
  <1>1. /\ thread' \in [Threads -> Thread]
        /\ \A u \in Threads : thread'[u] = IF u = t THEN r ELSE thread[u]
        /\ \A u \in Threads : thread'[u].at \in {"keep", "fill"} => thread'[u].token # 0
    BY OneThread
  <1>2. TypeOK'
    BY <1>1 DEF Inv, TypeOK
  <1>3. NameCacheCurrent'
    <2>1. CASE byName' = byName /\ thread[t].at \notin {"login", "clear"}
      <3>1. Changing({"login", "clear"}) => Changing({"login", "clear"})'
        BY <1>1, <2>1 DEF Changing
      <3> QED
        BY <2>1, <3>1 DEF Inv, NameCacheCurrent
    <2>2. CASE byName' = 0 \/ (byName' = row.token /\ ~row.revoked) \/ byName' \in late'.name
      BY <2>2 DEF NameCacheCurrent
    <2> QED
      BY <2>1, <2>2
  <1>4. KeyInv'
    <2>1. CASE verified' = {} /\ late'.keys = Matched
      <3>1. \A u \in Threads : thread'[u].at = "remember" /\ thread'[u].match =>
              thread'[u].key \in {key} \cup Matched
        BY <1>1 DEF Matched
      <3> QED
        BY <2>1, <3>1 DEF KeyInv
    <2>2. CASE /\ thread[t].at # "changed" /\ late'.keys = late.keys
               /\ verified' \subseteq verified \cup
                    IF thread[t].at = "remember" /\ thread[t].match THEN {thread[t].key} ELSE {}
      <3>1. Changing({"changed"}) => Changing({"changed"})'
        BY <1>1, <2>2 DEF Changing
      <3> QED
        BY <1>1, <2>2, <3>1 DEF Inv, KeyInv
    <2> QED
      BY <2>1, <2>2
  <1>5. LostInv'
    BY <1>1 DEF Inv, LostInv, IsValid
  <1> QED
    BY <1>2, <1>3, <1>4, <1>5 DEF Inv

-----------------------------------------------------------------------------
(* Every step keeps the invariant *)

LEMMA InitInv == Init => Inv
  <1> SUFFICES ASSUME Init PROVE Inv
    OBVIOUS
  <1>1. TypeOK
    BY KeyRange, IdleType, CacheAssumption DEF Init, TypeOK, Idle
  <1>2. NameCacheCurrent /\ KeyInv /\ LostInv
    BY DEF Init, NameCacheCurrent, KeyInv, LostInv, Idle
  <1> QED
    BY <1>1, <1>2 DEF Inv

LEMMA ServeInv ==
    ASSUME Inv, NEW t \in Threads, Serve(t)
    PROVE  Inv'
  <1>0. /\ TypeOK /\ LostInv /\ KeyInv
        /\ thread[t] \in Thread
        /\ thread[t].token \in Token /\ thread[t].key \in Keys
        /\ thread[t].match \in BOOLEAN /\ thread[t].lost \in BOOLEAN
        /\ row.token \in Token /\ row.revoked \in BOOLEAN
        /\ thread \in [Threads -> Thread]
    BY DEF Inv, TypeOK, Thread
  <1>1. CASE AskByName(t)
    <2> DEFINE n == [Idle EXCEPT !.at = IF byName = 0 THEN "query" ELSE "answered", !.token = byName]
    <2>1. n \in Thread /\ n.lost = FALSE /\ n.at \in {"query", "answered"}
      BY IdleType, <1>0 DEF TypeOK, Idle, Thread
    <2>2. /\ thread' = [thread EXCEPT ![t] = n]
          /\ thread[t].at = "idle"
          /\ UNCHANGED <<row, key, byName, byKey, verified, invalid, late, events>>
      BY <1>1 DEF AskByName
    <2> HIDE DEF n
    <2> QED
      BY <1>0, <2>1, <2>2, Local DEF TypeOK
  <1>2. CASE Query(t)
    <2> DEFINE n == [thread[t] EXCEPT !.at = IF IsValid THEN "keep" ELSE "answered",
                                      !.token = IF IsValid THEN row.token ELSE 0]
    <2>1. ~thread[t].lost
      BY <1>0, <1>2 DEF Query, LostInv, Asking
    <2>2. /\ n \in Thread /\ n.lost = FALSE /\ n.at # "remember"
          /\ n.at \in {"keep", "fill"} => n.token # 0
      BY KeyRange, <1>0, <2>1 DEF Thread, IsValid
    <2>3. /\ thread' = [thread EXCEPT ![t] = n]
          /\ thread[t].at = "query"
          /\ UNCHANGED <<row, key, byName, byKey, verified, invalid, late, events>>
      BY <1>0, <1>2 DEF Query
    <2> HIDE DEF n
    <2> QED
      BY <1>0, <2>2, <2>3, Local DEF TypeOK
  <1>3. CASE Keep(t)
    <2> DEFINE n == [thread[t] EXCEPT !.at = "answered"]
    <2>1. ~thread[t].lost
      BY <1>0, <1>3 DEF Keep, LostInv, Asking
    <2>2. n \in Thread /\ n.lost = FALSE /\ n.at = "answered"
      BY <1>0, <2>1 DEF Thread
    <2>3. /\ thread' = [thread EXCEPT ![t] = n]
          /\ thread[t].at = "keep"
          /\ byName' = thread[t].token
          /\ UNCHANGED <<row, key, byKey, verified, invalid, events>>
      BY <1>0, <1>3 DEF Keep, Goto
    <2>4. /\ late' \in [name : SUBSET Token, keys : SUBSET Keys]
          /\ late.name \subseteq late'.name /\ late'.keys = late.keys
          /\ (byName' = row.token /\ ~row.revoked) \/ byName' \in late'.name
      BY <1>0, <1>3 DEF Keep, TypeOK, IsValid
    <2> HIDE DEF n
    <2> QED
      BY <1>0, <2>2, <2>3, <2>4, Local DEF TypeOK
  <1>4. CASE Ask(t)
    <2>1. PICK k \in 1 .. key :
            thread' = [thread EXCEPT ![t] = [Idle EXCEPT !.at = "verify", !.key = k,
                         !.token = byKey[k], !.lost = ~IsValid]]
      BY <1>4 DEF Ask
    <2> DEFINE n == [Idle EXCEPT !.at = "verify", !.key = k,
                         !.token = byKey[k], !.lost = ~IsValid]
    <2>2. k \in Keys
      BY <1>0, CacheAssumption DEF TypeOK, Keys
    <2>3. byKey[k] \in Token /\ (~IsValid) \in BOOLEAN
      BY <1>0, <2>2 DEF TypeOK, IsValid
    <2>4. n \in Thread /\ n.lost = ~IsValid /\ n.at = "verify"
      BY IdleType, <1>0, <2>2, <2>3 DEF Idle, Thread
    <2>5. /\ thread' = [thread EXCEPT ![t] = n]
          /\ thread[t].at = "idle"
          /\ UNCHANGED <<row, key, byName, byKey, verified, invalid, late, events>>
      BY <1>4, <2>1 DEF Ask
    <2> HIDE DEF n
    <2> QED
      BY <1>0, <2>4, <2>5, Local DEF TypeOK, Asking
  <1>5. CASE Verify(t)
    <2> DEFINE k == thread[t].key
               a == CASE k \in invalid -> IF thread[t].token # 0 THEN "verify" ELSE "answered"
                      [] k \in verified \ invalid -> "row"
                      [] OTHER -> "scan"
               v == IF k \in invalid THEN 0 ELSE thread[t].token
               n == [thread[t] EXCEPT !.at = a, !.token = v]
    <2>1. a \in {"verify", "answered", "row", "scan"} /\ v \in Token /\ (a = "answered" => v = 0)
      BY KeyRange, <1>0
    <2>2. /\ thread' = [thread EXCEPT ![t] = n]
          /\ thread[t].at = "verify"
          /\ UNCHANGED <<row, key, byName, byKey, verified, invalid, late, events>>
      BY <1>0, <1>5 DEF Verify
    <2> HIDE DEF a, v
    <2>3. n \in Thread /\ n.lost = thread[t].lost /\ n.at = a /\ n.token = v
      BY <1>0, <2>1 DEF Thread
    <2>4. n.lost => ~IsValid
      BY <1>0, <2>3 DEF LostInv
    <2> HIDE DEF n
    <2> QED
      BY <1>0, <2>1, <2>2, <2>3, <2>4, Local DEF TypeOK, Asking
  <1>6. CASE Scan(t)
    <2> DEFINE m == (thread[t].key = key)
               n == [thread[t] EXCEPT !.at = "remember", !.match = m]
    <2>1. m \in BOOLEAN
      OBVIOUS
    <2>2. /\ thread' = [thread EXCEPT ![t] = n]
          /\ thread[t].at = "scan"
          /\ UNCHANGED <<row, key, byName, byKey, verified, invalid, late, events>>
      BY <1>0, <1>6 DEF Scan
    <2> HIDE DEF m
    <2>3. n \in Thread /\ n.lost = thread[t].lost /\ n.at = "remember"
          /\ n.key = thread[t].key /\ n.match = m
      BY <1>0, <2>1 DEF Thread
    <2>4. n.lost => ~IsValid
      BY <1>0, <2>3 DEF LostInv
    <2>5. n.match => n.key = key
      BY <2>3 DEF m
    <2> HIDE DEF n
    <2> QED
      BY <1>0, <2>2, <2>3, <2>4, <2>5, Local DEF TypeOK, Asking
  <1>7. CASE Remember(t)
    <2> DEFINE k == thread[t].key
               a == CASE thread[t].match -> "row"
                      [] ~thread[t].match /\ thread[t].token # 0 -> "verify"
                      [] OTHER -> "answered"
               v == IF thread[t].match THEN thread[t].token ELSE 0
               n == [thread[t] EXCEPT !.at = a, !.token = v]
    <2>1. a \in {"verify", "answered", "row"} /\ v \in Token /\ (a = "answered" => v = 0)
      BY KeyRange, <1>0
    <2>2. /\ thread' = [thread EXCEPT ![t] = n]
          /\ thread[t].at = "remember"
          /\ UNCHANGED <<row, key, byName, byKey, events>>
      BY <1>0, <1>7 DEF Remember
    <2> HIDE DEF a, v
    <2>3. n \in Thread /\ n.lost = thread[t].lost /\ n.at = a /\ n.token = v
      BY <1>0, <2>1 DEF Thread
    <2>4. n.lost => ~IsValid
      BY <1>0, <2>3 DEF LostInv
    <2>5. /\ late' \in [name : SUBSET Token, keys : SUBSET Keys]
          /\ UNCHANGED late
          /\ verified' \subseteq Keys /\ invalid' \subseteq Keys
          /\ verified' \subseteq verified \cup IF thread[t].match THEN {thread[t].key} ELSE {}
      BY <1>0, <1>7 DEF Remember, TypeOK
    <2> HIDE DEF n
    <2> QED
      BY <1>0, <2>1, <2>2, <2>3, <2>4, <2>5, Local DEF TypeOK, Asking
  <1>8. CASE CheckRow(t)
    <2> DEFINE n(a, v) == [thread[t] EXCEPT !.at = a, !.token = v]
    <2>1. ASSUME NEW a \in {"answered", "fill"}, NEW v \in Token
          PROVE  /\ n(a, v) \in Thread /\ n(a, v).lost = thread[t].lost
                 /\ n(a, v).at = a /\ n(a, v).token = v
      BY <1>0 DEF Thread
    <2>2. PICK a \in {"answered", "fill"}, v \in Token :
            /\ thread' = [thread EXCEPT ![t] = n(a, v)]
            /\ a = "fill" => v # 0 /\ IsValid
            /\ v # 0 => ~row.revoked
            /\ byKey' \in [Keys -> Token]
      <3>1. CASE thread[t].token # 0 /\ row.revoked
        <4>1. /\ thread' = [thread EXCEPT ![t] = n("answered", 0)]
              /\ byKey' = [byKey EXCEPT ![thread[t].key] = 0]
          BY <1>0, <1>8, <3>1 DEF CheckRow, Answer
        <4>2. byKey' \in [Keys -> Token]
          BY <4>1, <1>0, KeyRange DEF TypeOK
        <4> QED
          BY <4>1, <4>2, KeyRange
      <3>2. CASE thread[t].token # 0 /\ ~row.revoked
        <4>1. thread' = [thread EXCEPT ![t] = n("answered", thread[t].token)] /\ byKey' = byKey
          <5>1. thread' = [thread EXCEPT ![t].at = "answered"] /\ byKey' = byKey
            BY <1>8, <3>2 DEF CheckRow, Goto
          <5>2. [thread[t] EXCEPT !.at = "answered"] = n("answered", thread[t].token)
            BY <1>0 DEF Thread
          <5> QED
            BY <5>1, <5>2, <1>0
        <4> QED
          BY <4>1, <3>2, <1>0 DEF TypeOK
      <3>3. CASE thread[t].token = 0 /\ IsValid
        <4>1. thread' = [thread EXCEPT ![t] = n("fill", row.token)] /\ byKey' = byKey
          BY <1>0, <1>8, <3>3 DEF CheckRow
        <4> QED
          BY <4>1, <3>3, <1>0 DEF TypeOK, IsValid
      <3>4. CASE thread[t].token = 0 /\ ~IsValid
        <4>1. thread' = [thread EXCEPT ![t] = n("answered", 0)] /\ byKey' = byKey
          BY <1>0, <1>8, <3>4 DEF CheckRow, Answer
        <4> QED
          BY <4>1, KeyRange, <1>0 DEF TypeOK
      <3> QED
        BY <3>1, <3>2, <3>3, <3>4, <1>0
    <2>3. /\ thread[t].at = "row"
          /\ UNCHANGED <<row, key, byName, verified, invalid, late, events>>
      BY <1>8 DEF CheckRow
    <2>4. /\ n(a, v) \in Thread /\ n(a, v).lost = thread[t].lost
          /\ n(a, v).at = a /\ n(a, v).token = v
      BY <2>1
    <2>5. thread[t].lost => ~IsValid /\ row.revoked
      BY <1>0, KeyRange DEF LostInv, TypeOK, IsValid
    <2> DEFINE w == n(a, v)
    <2>6. /\ thread' = [thread EXCEPT ![t] = w] /\ w \in Thread
          /\ w.lost => /\ w.at \in Asking /\ ~IsValid
                       /\ w.at = "answered" => w.token = 0
          /\ w.at \in {"keep", "fill"} => w.token # 0
          /\ w.at # "remember"
      BY <2>2, <2>4, <2>5 DEF Asking
    <2> HIDE DEF w
    <2> QED
      BY <1>0, <2>2, <2>3, <2>6, Local DEF TypeOK
  <1>9. CASE Fill(t)
    <2> DEFINE n == [thread[t] EXCEPT !.at = "answered"]
    <2>1. ~thread[t].lost
      BY <1>0, <1>9 DEF Fill, LostInv, Asking
    <2>2. n \in Thread /\ n.lost = FALSE /\ n.at = "answered"
      BY <1>0, <2>1 DEF Thread
    <2>3. /\ thread' = [thread EXCEPT ![t] = n]
          /\ thread[t].at = "fill"
          /\ byKey' = [byKey EXCEPT ![thread[t].key] = thread[t].token]
          /\ UNCHANGED <<row, key, byName, verified, invalid, late, events>>
      BY <1>0, <1>9 DEF Fill, Goto
    <2>4. byKey' \in [Keys -> Token]
      BY <1>0, <2>3 DEF TypeOK
    <2> HIDE DEF n
    <2> QED
      BY <1>0, <2>2, <2>3, <2>4, Local DEF TypeOK
  <1>10. CASE Done(t)
    <2>1. /\ thread' = [thread EXCEPT ![t] = Idle] /\ thread[t].at = "answered"
          /\ UNCHANGED <<row, key, byName, byKey, verified, invalid, late, events>>
      BY <1>10 DEF Done
    <2>2. Idle.at = "idle" /\ Idle.lost = FALSE
      BY DEF Idle
    <2> QED
      BY <1>0, <2>1, <2>2, IdleType, Local DEF TypeOK
  <1> QED
    BY <1>1, <1>2, <1>3, <1>4, <1>5, <1>6, <1>7, <1>8, <1>9, <1>10 DEF Serve

LEMMA ChangeInv ==
    ASSUME Inv, NEW t \in Threads, Change(t)
    PROVE  Inv'
  <1>0. /\ TypeOK /\ NameCacheCurrent /\ KeyInv /\ LostInv
        /\ thread[t] \in Thread
        /\ row.token \in Token /\ row.revoked \in BOOLEAN
        /\ thread \in [Threads -> Thread]
        /\ 0 \in Token
    BY KeyRange DEF Inv, TypeOK
  <1> DEFINE at(a) == [Idle EXCEPT !.at = a]
  <1>a. /\ \A a \in {"login", "revoke", "changed"} :
              at(a) \in Thread /\ at(a).at = a /\ at(a).lost = FALSE
        /\ Idle \in Thread /\ Idle.at = "idle" /\ Idle.lost = FALSE
    BY IdleType DEF Idle, Thread
  <1> HIDE DEF at
  <1>1. CASE Login(t)
    <2>1. /\ row' = [token |-> row.token + 1, revoked |-> FALSE]
          /\ row.token < MaxLogins
          /\ UNCHANGED <<key, byName, byKey, verified, invalid, late, events>>
      BY <1>1 DEF Login
    <2>2. row'.token \in Token /\ row'.token # 0 /\ row'.revoked = FALSE
          /\ row' \in [token : Token, revoked : BOOLEAN]
      BY <1>0, <2>1, CacheAssumption DEF Token
    <2>3. thread' = [u \in Threads |-> IF u = t THEN at("login")
                                       ELSE [thread[u] EXCEPT !.lost = FALSE]]
      BY <1>1 DEF Login, at
    <2>4. \A u \in Threads :
            /\ thread'[u] \in Thread /\ thread'[u].lost = FALSE
            /\ u = t => thread'[u].at = "login"
            /\ u # t => /\ thread'[u].at = thread[u].at /\ thread'[u].token = thread[u].token
                        /\ thread'[u].key = thread[u].key /\ thread'[u].match = thread[u].match
      <3> SUFFICES ASSUME NEW u \in Threads
                   PROVE  /\ thread'[u] \in Thread /\ thread'[u].lost = FALSE
                          /\ u = t => thread'[u].at = "login"
                          /\ u # t => /\ thread'[u].at = thread[u].at
                                      /\ thread'[u].token = thread[u].token
                                      /\ thread'[u].key = thread[u].key
                                      /\ thread'[u].match = thread[u].match
        OBVIOUS
      <3>1. CASE u = t
        BY <3>1, <2>3, <1>a
      <3>2. CASE u # t
        BY <3>2, <2>3, <1>0 DEF Thread
      <3> QED
        BY <3>1, <3>2
    <2>5. TypeOK'
      <3>1. thread' \in [Threads -> Thread]
        BY <2>3, <2>4
      <3>2. \A u \in Threads : thread'[u].at \in {"keep", "fill"} => thread'[u].token # 0
        BY <2>4, <1>0 DEF TypeOK
      <3> QED
        BY <1>0, <2>1, <2>2, <3>1, <3>2 DEF TypeOK
    <2>6. NameCacheCurrent'
      BY <2>4 DEF NameCacheCurrent, Changing
    <2>7. KeyInv'
      <3>1. Changing({"changed"}) => Changing({"changed"})'
        <4> SUFFICES ASSUME NEW u \in Threads, thread[u].at = "changed"
                     PROVE  Changing({"changed"})'
          BY DEF Changing
        <4>1. thread[t].at = "idle"
          BY <1>1 DEF Login
        <4> QED
          BY <4>1, <2>4 DEF Changing
      <3> QED
        BY <1>0, <2>1, <2>4, <3>1 DEF KeyInv
    <2>8. LostInv'
      BY <2>4 DEF LostInv
    <2> QED
      BY <2>5, <2>6, <2>7, <2>8 DEF Inv
  <1>2. CASE LoginKeep(t)
    <2>1. /\ thread' = [thread EXCEPT ![t] = Idle]
          /\ byName' = IF IsValid THEN row.token ELSE 0
          /\ thread[t].at = "login"
          /\ UNCHANGED <<row, key, byKey, verified, invalid, late, events>>
      BY <1>2 DEF LoginKeep
    <2>2. byName' \in Token /\ (byName' = 0 \/ (byName' = row.token /\ ~row.revoked))
      BY <2>1, <1>0 DEF IsValid
    <2> QED
      BY <1>0, <1>a, <2>1, <2>2, Local DEF TypeOK
  <1>3. CASE Logout(t)
    <2>1. /\ thread' = [thread EXCEPT ![t] = at("revoke")]
          /\ byName' = 0 /\ thread[t].at = "idle"
          /\ UNCHANGED <<row, key, byKey, verified, invalid, late, events>>
      BY <1>3 DEF Logout, at
    <2> QED
      BY <1>0, <1>a, <2>1, Local DEF TypeOK
  <1>4. CASE Revoke(t)
    <2> DEFINE n == [thread[t] EXCEPT !.at = "clear"]
    <2>1. /\ row' = [row EXCEPT !.revoked = TRUE]
          /\ thread[t].at = "revoke"
          /\ thread' = [thread EXCEPT ![t] = n]
          /\ UNCHANGED <<key, byName, byKey, verified, invalid, late, events>>
      BY <1>0, <1>4 DEF Revoke, Goto
    <2>2. ~thread[t].lost
      BY <1>0, <2>1 DEF LostInv, Asking
    <2>3. n \in Thread /\ n.at = "clear" /\ n.lost = FALSE
      BY <1>0, <2>2 DEF Thread
    <2> HIDE DEF n
    <2>4. /\ thread' \in [Threads -> Thread]
          /\ \A u \in Threads : thread'[u] = IF u = t THEN n ELSE thread[u]
      BY <2>1, <2>3, <1>0
    <2>5. row' \in [token : Token, revoked : BOOLEAN] /\ row'.token = row.token /\ row'.revoked
      BY <2>1, <1>0 DEF TypeOK
    <2>6. TypeOK'
      BY <1>0, <2>1, <2>3, <2>4, <2>5 DEF TypeOK
    <2>7. NameCacheCurrent'
      BY <2>3, <2>4 DEF NameCacheCurrent, Changing
    <2>8. KeyInv'
      <3>1. Changing({"changed"}) => Changing({"changed"})'
        BY <2>1, <2>4 DEF Changing
      <3> QED
        BY <1>0, <2>1, <2>3, <2>4, <3>1 DEF KeyInv
    <2>9. LostInv'
      BY <1>0, <2>3, <2>4, <2>5 DEF LostInv, IsValid
    <2> QED
      BY <2>6, <2>7, <2>8, <2>9 DEF Inv
  <1>5. CASE Clear(t)
    <2>1. /\ thread' = [thread EXCEPT ![t] = Idle]
          /\ byName' = 0 /\ thread[t].at = "clear"
          /\ UNCHANGED <<row, key, byKey, verified, invalid, late, events>>
      BY <1>5 DEF Clear
    <2> QED
      BY <1>0, <1>a, <2>1, Local DEF TypeOK
  <1>6. CASE Regenerate(t)
    <2> DEFINE n == at("changed")
    <2>1. /\ key' = key + 1 /\ key < MaxKeys /\ thread[t].at = "idle"
          /\ thread' = [thread EXCEPT ![t] = n]
          /\ UNCHANGED <<row, byName, byKey, verified, invalid, late, events>>
      BY <1>6 DEF Regenerate, at
    <2>2. n \in Thread /\ n.at = "changed" /\ n.lost = FALSE
      BY <1>a
    <2> HIDE DEF n
    <2>3. /\ thread' \in [Threads -> Thread]
          /\ \A u \in Threads : thread'[u] = IF u = t THEN n ELSE thread[u]
      BY <2>1, <2>2, <1>0
    <2>4. key' \in Keys
      BY <1>0, <2>1, CacheAssumption DEF TypeOK, Keys
    <2>5. TypeOK'
      BY <1>0, <2>1, <2>2, <2>3, <2>4 DEF TypeOK
    <2>6. NameCacheCurrent'
      <3>1. Changing({"login", "clear"}) => Changing({"login", "clear"})'
        BY <2>1, <2>3 DEF Changing
      <3> QED
        BY <1>0, <2>1, <3>1 DEF NameCacheCurrent
    <2>7. KeyInv'
      BY <2>2, <2>3 DEF KeyInv, Changing
    <2>8. LostInv'
      BY <1>0, <2>1, <2>2, <2>3 DEF LostInv, IsValid
    <2> QED
      BY <2>5, <2>6, <2>7, <2>8 DEF Inv
  <1>7. CASE ChangeMode(t)
    <2>1. /\ thread' = [thread EXCEPT ![t] = at("changed")]
          /\ thread[t].at = "idle"
          /\ events' \in 0 .. MaxEvents
          /\ UNCHANGED <<row, key, byName, byKey, verified, invalid, late>>
      BY <1>0, <1>7, CacheAssumption DEF ChangeMode, TypeOK, at
    <2> QED
      BY <1>0, <1>a, <2>1, Local DEF TypeOK
  <1>8. CASE Invalidate(t)
    <2>1. /\ thread' = [thread EXCEPT ![t] = Idle]
          /\ byName' = 0 /\ verified' = {} /\ invalid' = {}
          /\ byKey' \in [Keys -> Token]
          /\ late' = [late EXCEPT !.keys = Matched]
          /\ UNCHANGED <<row, key, events>>
      BY <1>0, <1>8 DEF Invalidate
    <2>2. Matched \subseteq Keys
      BY <1>0 DEF Matched, Thread
    <2>3. /\ late' \in [name : SUBSET Token, keys : SUBSET Keys]
          /\ late'.name = late.name /\ late'.keys = Matched
      BY <1>0, <2>1, <2>2 DEF TypeOK
    <2> QED
      BY <1>0, <1>a, <2>1, <2>3, Local DEF TypeOK
  <1> QED
    BY <1>1, <1>2, <1>3, <1>4, <1>5, <1>6, <1>7, <1>8 DEF Change

LEMMA NextInv ==
    ASSUME Inv, [Next]_vars
    PROVE  Inv'
  <1>0. TypeOK /\ NameCacheCurrent /\ KeyInv /\ LostInv
    BY DEF Inv
  <1>1. CASE Expire
    <2>1. UNCHANGED <<row, key, thread, late, events>>
      BY <1>1 DEF Expire
    <2>2. /\ byName' \in {byName, 0} /\ byKey' \in [Keys -> Token]
          /\ verified' \subseteq verified /\ invalid' \subseteq invalid
      BY <1>0, <1>1, KeyRange DEF Expire, TypeOK
    <2>3. TypeOK'
      BY <1>0, <2>1, <2>2, KeyRange DEF TypeOK
    <2> QED
      BY <1>0, <2>1, <2>2, <2>3
      DEF Inv, NameCacheCurrent, KeyInv, LostInv, Changing, IsValid
  <1>2. CASE Restart
    <2>1. /\ byName' = IF IsValid THEN row.token ELSE 0
          /\ byKey' \in [Keys -> Token] /\ verified' = {} /\ invalid' = {}
          /\ thread' = [t \in Threads |-> Idle]
          /\ events' \in 0 .. MaxEvents
          /\ late' = [late EXCEPT !.keys = {}]
          /\ UNCHANGED <<row, key>>
      BY <1>0, <1>2, KeyRange, CacheAssumption DEF Restart, TypeOK
    <2>2. Idle \in Thread /\ Idle.at = "idle" /\ Idle.lost = FALSE
      BY IdleType DEF Idle
    <2>3. TypeOK'
      BY <1>0, <2>1, <2>2, KeyRange DEF TypeOK
    <2>4. NameCacheCurrent' /\ KeyInv' /\ LostInv'
      BY <2>1, <2>2 DEF NameCacheCurrent, KeyInv, LostInv, IsValid
    <2> QED
      BY <2>3, <2>4 DEF Inv
  <1>3. CASE UNCHANGED vars
    BY <1>0, <1>3
    DEF vars, Inv, TypeOK, NameCacheCurrent, KeyInv, LostInv, Changing, IsValid
  <1> QED
    BY <1>1, <1>2, <1>3, ServeInv, ChangeInv DEF Next

\* The caches agree with the database but for what was stored late.
THEOREM Invariance == Spec => []Inv
  <1>1. Init => Inv
    BY InitInv
  <1>2. Inv /\ [Next]_vars => Inv'
    BY NextInv
  <1> QED
    BY <1>1, <1>2, PTL DEF Spec

-----------------------------------------------------------------------------
(* Theorems *)

\* Every variable keeps its type, and no call is about to cache nothing.
THEOREM Types == Spec => []TypeOK
  <1>1. Inv => TypeOK
    BY DEF Inv
  <1> QED
    BY <1>1, Invariance, PTL

\* The cache under the user's name follows logins and logouts (get_auth_token,
\* upsert_auth), but for what was stored late.
THEOREM NameCache == Spec => []NameCacheCurrent
  <1>1. Inv => NameCacheCurrent
    BY DEF Inv
  <1> QED
    BY <1>1, Invariance, PTL

\* The cache of verified keys follows regenerations (verify_api_key,
\* upsert_api_key), but for what was stored late.
THEOREM VerifiedKeys == Spec => []VerifiedIsCurrent
  <1>1. Inv => VerifiedIsCurrent
    BY DEF Inv, KeyInv, VerifiedIsCurrent
  <1> QED
    BY <1>1, Invariance, PTL

\* get_auth_token_broker gives no token to a request that began after the login
\* was revoked, unless somebody logs in meanwhile.
THEOREM NoTokenOnceRevoked == Spec => []RevokedIsRefused
  <1>1. Inv => RevokedIsRefused
    BY DEF Inv, LostInv, RevokedIsRefused
  <1> QED
    BY <1>1, Invariance, PTL
=================================================================================
