------------------------------ MODULE SessionCache -------------------------------
(***************************************************************************)
(* The broker login and the API key of the user, and the caches before     *)
(* them.  The row of the login and the hash of the key are in the database;*)
(* every request is served by a thread with a session of its own, so a     *)
(* cached row is a copy that no later commit changes.                      *)
(*                                                                         *)
(* Logins and keys are numbered: a token or a key stands for the login or  *)
(* the regeneration it came from.  The feed token has a cache like that of *)
(* the auth token.                                                         *)
(***************************************************************************)
EXTENDS Naturals

CONSTANTS
    Threads,
    MaxLogins, MaxKeys,    \* bounds
    MaxEvents      \* bound on changes of the order mode and restarts together

ASSUME CacheAssumption ==
    /\ MaxLogins \in Nat \ {0} /\ MaxKeys \in Nat \ {0}
    /\ MaxEvents \in Nat

VARIABLES
    row,         \* of auth: its token, 0 before the first login, and is_revoked
    key,         \* of api_keys
    byName,      \* auth_cache under the user's name: a token or 0
    byKey,       \* auth_cache under an API key: a token or 0
    verified, invalid,    \* verified_api_key_cache, invalid_api_key_cache
    thread,
    late,        \* history: the tokens put into auth_cache although they had changed since they
                 \* were read, and the keys whose verification was at its end, matched and not
                 \* yet stored, when the caches were last cleared
    events

vars == <<row, key, byName, byKey, verified, invalid, thread, late, events>>

Keys   == 1 .. MaxKeys
Token  == 0 .. MaxLogins
Idle   == [at |-> "idle", key |-> 1, token |-> 0, match |-> FALSE, lost |-> FALSE]
Thread == [at : {"idle", "query", "keep", "verify", "scan", "remember", "row", "fill",
                 "answered", "login", "logout", "revoke", "clear", "changed"},
           key : Keys, token : Token, match : BOOLEAN,
           lost : BOOLEAN]    \* history: no login since the call began

TypeOK ==
    /\ row \in [token : Token, revoked : BOOLEAN]
    /\ key \in Keys
    /\ byName \in Token /\ byKey \in [Keys -> Token]
    /\ verified \subseteq Keys /\ invalid \subseteq Keys
    /\ thread \in [Threads -> Thread]
    /\ \A t \in Threads : thread[t].at \in {"keep", "fill"} => thread[t].token # 0
    /\ row.token = 0 => row.revoked
    /\ late \in [name : SUBSET Token, keys : SUBSET Keys]
    /\ events \in 0 .. MaxEvents

Init ==
    /\ row = [token |-> 0, revoked |-> TRUE]
    /\ key = 1
    /\ byName = 0 /\ byKey = [k \in Keys |-> 0]
    /\ verified = {} /\ invalid = {}
    /\ thread = [t \in Threads |-> Idle]
    /\ late = [name |-> {}, keys |-> {}]
    /\ events = 0

IsValid == row.token # 0 /\ ~row.revoked

Goto(t, at) == thread' = [thread EXCEPT ![t].at = at]
Answer(t, token) == thread' = [thread EXCEPT ![t].at = "answered", ![t].token = token]

\* The answer is used.
Done(t) ==
    /\ thread[t].at = "answered"
    /\ thread' = [thread EXCEPT ![t] = Idle]
    /\ UNCHANGED <<row, key, byName, byKey, verified, invalid, late, events>>

-----------------------------------------------------------------------------
(* get_auth_token, for pages and the proxy *)

AskByName(t) ==
    /\ thread[t].at = "idle"
    /\ thread' = [thread EXCEPT ![t] = [Idle EXCEPT !.at = IF byName = 0 THEN "query" ELSE "answered",
                                                    !.token = byName]]
    /\ UNCHANGED <<row, key, byName, byKey, verified, invalid, late, events>>

\* Of any row, revoked or not.
Mut_Query(t) ==
    /\ thread[t].at = "query"
    /\ thread' = [thread EXCEPT ![t].at = "keep", ![t].token = row.token]
    /\ UNCHANGED <<row, key, byName, byKey, verified, invalid, late, events>>

Query(t) ==
    /\ thread[t].at = "query"
    /\ thread' = [thread EXCEPT ![t].at = IF IsValid THEN "keep" ELSE "answered",
                                ![t].token = IF IsValid THEN row.token ELSE 0]
    /\ UNCHANGED <<row, key, byName, byKey, verified, invalid, late, events>>

Keep(t) ==
    LET token == thread[t].token IN
    /\ thread[t].at = "keep"
    /\ byName' = token
    /\ late' = IF IsValid /\ row.token = token THEN late
               ELSE [late EXCEPT !.name = @ \cup {token}]
    /\ Goto(t, "answered")
    /\ UNCHANGED <<row, key, byKey, verified, invalid, events>>

-----------------------------------------------------------------------------
(* get_auth_token_broker, for API requests *)

Ask(t) ==
    /\ thread[t].at = "idle"
    /\ \E k \in 1 .. key :
         thread' = [thread EXCEPT ![t] = [Idle EXCEPT !.at = "verify", !.key = k,
                      !.token = byKey[k], !.lost = ~IsValid]]
    /\ UNCHANGED <<row, key, byName, byKey, verified, invalid, late, events>>

\* verify_api_key.  A key that is refused while an answer is cached is verified
\* once more, as on a miss.
Verify(t) ==
    LET k == thread[t].key IN
    /\ thread[t].at = "verify"
    /\ thread' = [thread EXCEPT
         ![t].at = CASE k \in invalid -> IF thread[t].token # 0 THEN "verify" ELSE "answered"
                     [] k \in verified \ invalid -> "row"
                     [] OTHER -> "scan",
         ![t].token = IF k \in invalid THEN 0 ELSE @]
    /\ UNCHANGED <<row, key, byName, byKey, verified, invalid, late, events>>

Scan(t) ==
    /\ thread[t].at = "scan"
    /\ thread' = [thread EXCEPT ![t].at = "remember", ![t].match = thread[t].key = key]
    /\ UNCHANGED <<row, key, byName, byKey, verified, invalid, late, events>>

Remember(t) ==
    LET k == thread[t].key IN
    /\ thread[t].at = "remember"
    /\ IF thread[t].match
       THEN verified' = verified \cup {k} /\ UNCHANGED invalid
       ELSE invalid' = invalid \cup {k} /\ UNCHANGED verified
    /\ thread' = [thread EXCEPT
         ![t].at = CASE thread[t].match -> "row"
                     [] ~thread[t].match /\ thread[t].token # 0 -> "verify"
                     [] OTHER -> "answered",
         ![t].token = IF thread[t].match THEN @ ELSE 0]
    /\ UNCHANGED <<row, key, byName, byKey, late, events>>

\* Trusts what is cached.
Mut_CheckRow(t) ==
    /\ thread[t].at = "row"
    /\ CASE thread[t].token # 0 -> Goto(t, "answered")
         [] thread[t].token = 0 /\ IsValid ->
              thread' = [thread EXCEPT ![t].at = "fill", ![t].token = row.token]
         [] OTHER -> Answer(t, 0)
    /\ UNCHANGED <<row, key, byName, byKey, verified, invalid, late, events>>

\* The answer that is cached, of whatever login it is, unless the row is revoked.
CheckRow(t) ==
    LET k == thread[t].key IN
    /\ thread[t].at = "row"
    /\ CASE thread[t].token # 0 /\ row.revoked ->
              byKey' = [byKey EXCEPT ![k] = 0] /\ Answer(t, 0)
         [] thread[t].token # 0 /\ ~row.revoked ->
              UNCHANGED byKey /\ Goto(t, "answered")
         [] thread[t].token = 0 /\ IsValid ->
              /\ UNCHANGED byKey
              /\ thread' = [thread EXCEPT ![t].at = "fill", ![t].token = row.token]
         [] OTHER ->
              UNCHANGED byKey /\ Answer(t, 0)
    /\ UNCHANGED <<row, key, byName, verified, invalid, late, events>>

Fill(t) ==
    /\ thread[t].at = "fill"
    /\ byKey' = [byKey EXCEPT ![thread[t].key] = thread[t].token]
    /\ Goto(t, "answered")
    /\ UNCHANGED <<row, key, byName, verified, invalid, late, events>>

-----------------------------------------------------------------------------
(* upsert_auth: login, logout and the expiry of a session *)

Login(t) ==
    /\ thread[t].at = "idle" /\ row.token < MaxLogins
    /\ row' = [token |-> row.token + 1, revoked |-> FALSE]
    /\ thread' = [u \in Threads |->
         IF u = t THEN [Idle EXCEPT !.at = "login"]
                  ELSE [thread[u] EXCEPT !.lost = FALSE]]
    /\ UNCHANGED <<key, byName, byKey, verified, invalid, late, events>>

\* The row is read again after the commit, as it is by then; what is cached
\* under API keys stays.
LoginKeep(t) ==
    /\ thread[t].at = "login"
    /\ byName' = IF IsValid THEN row.token ELSE 0
    /\ thread' = [thread EXCEPT ![t] = Idle]
    /\ UNCHANGED <<row, key, byKey, verified, invalid, late, events>>

\* logout and revoke_user_tokens; the session may be of an earlier login.
Logout(t) ==
    /\ thread[t].at = "idle" /\ row.token # 0
    /\ byName' = 0
    /\ thread' = [thread EXCEPT ![t] = [Idle EXCEPT !.at = "revoke"]]
    /\ UNCHANGED <<row, key, byKey, verified, invalid, late, events>>

Revoke(t) ==
    /\ thread[t].at = "revoke"
    /\ row' = [row EXCEPT !.revoked = TRUE]
    /\ Goto(t, "clear")
    /\ UNCHANGED <<key, byName, byKey, verified, invalid, late, events>>

\* Leaves it at what logout cleared.
Mut_Clear(t) ==
    /\ thread[t].at = "clear"
    /\ thread' = [thread EXCEPT ![t] = Idle]
    /\ UNCHANGED <<row, key, byName, byKey, verified, invalid, late, events>>

Clear(t) ==
    /\ thread[t].at = "clear"
    /\ byName' = 0
    /\ thread' = [thread EXCEPT ![t] = Idle]
    /\ UNCHANGED <<row, key, byKey, verified, invalid, late, events>>

-----------------------------------------------------------------------------
(* upsert_api_key and update_order_mode *)

Regenerate(t) ==
    /\ thread[t].at = "idle" /\ key < MaxKeys
    /\ key' = key + 1
    /\ thread' = [thread EXCEPT ![t] = [Idle EXCEPT !.at = "changed"]]
    /\ UNCHANGED <<row, byName, byKey, verified, invalid, late, events>>

ChangeMode(t) ==
    /\ thread[t].at = "idle"
    /\ events < MaxEvents /\ events' = events + 1
    /\ thread' = [thread EXCEPT ![t] = [Idle EXCEPT !.at = "changed"]]
    /\ UNCHANGED <<row, key, byName, byKey, verified, invalid, late>>

\* The keys that matched and are about to be remembered.
Matched == {thread[t].key : t \in {u \in Threads : thread[u].at = "remember" /\ thread[u].match}}

\* Keeps the keys that were verified.
Mut_Invalidate(t) ==
    /\ thread[t].at = "changed"
    /\ byName' = 0 /\ byKey' = [k \in Keys |-> 0]
    /\ invalid' = {}
    /\ thread' = [thread EXCEPT ![t] = Idle]
    /\ UNCHANGED <<row, key, verified, late, events>>

\* invalidate_user_cache
Invalidate(t) ==
    /\ thread[t].at = "changed"
    /\ byName' = 0 /\ byKey' = [k \in Keys |-> 0]
    /\ verified' = {} /\ invalid' = {}
    /\ late' = [late EXCEPT !.keys = Matched]
    /\ thread' = [thread EXCEPT ![t] = Idle]
    /\ UNCHANGED <<row, key, events>>

-----------------------------------------------------------------------------
(* Entries live for a time that begins when they are stored *)

Expire ==
    /\ \/ byName # 0 /\ byName' = 0 /\ UNCHANGED <<byKey, verified, invalid>>
       \/ \E k \in Keys :
            \/ /\ byKey[k] # 0 /\ byKey' = [byKey EXCEPT ![k] = 0]
               /\ UNCHANGED <<byName, verified, invalid>>
            \/ /\ k \in verified \cup invalid
               /\ verified' = verified \ {k} /\ invalid' = invalid \ {k}
               /\ UNCHANGED <<byName, byKey>>
    /\ UNCHANGED <<row, key, thread, late, events>>

\* restore_auth_cache fills the cache before the first request.
Restart ==
    /\ events < MaxEvents /\ events' = events + 1
    /\ byName' = IF IsValid THEN row.token ELSE 0
    /\ byKey' = [k \in Keys |-> 0] /\ verified' = {} /\ invalid' = {}
    /\ thread' = [t \in Threads |-> Idle]
    /\ late' = [late EXCEPT !.keys = {}]
    /\ UNCHANGED <<row, key>>

Serve(t) ==
    \/ AskByName(t) \/ Query(t) \/ Keep(t)
    \/ Ask(t) \/ Verify(t) \/ Scan(t) \/ Remember(t) \/ CheckRow(t) \/ Fill(t)
    \/ Done(t)
Change(t) ==
    \/ Login(t) \/ LoginKeep(t) \/ Logout(t) \/ Revoke(t) \/ Clear(t)
    \/ Regenerate(t) \/ ChangeMode(t) \/ Invalidate(t)

Next == (\E t \in Threads : Serve(t) \/ Change(t)) \/ Expire \/ Restart

Spec == Init /\ [][Next]_vars

-----------------------------------------------------------------------------
(* Properties *)

Changing(ats) == \E t \in Threads : thread[t].at \in ats

\* What is cached under the user's name is the login there is, once logins and
\* logouts are over; unless it was read before a change and stored after it.
NameCacheCurrent ==
    byName # 0 /\ ~Changing({"login", "clear"}) =>
        (byName = row.token /\ ~row.revoked) \/ byName \in late.name

\* The clear that follows a regeneration leaves no replaced key to be accepted:
\* what is verified is the key there is, or one whose verification was at its
\* very end in the moment of that clear.  No later verification adds one, and
\* none that began before the replacement but had not compared the key by then.
\* This is less than invalidate_user_cache claims ("old API keys/tokens are not
\* usable after regeneration"), which that one verification refutes.
VerifiedIsCurrent ==
    ~Changing({"changed"}) => verified \subseteq {key} \cup late.keys

\* An API request that begins while nobody is logged in gets no token, whatever
\* is cached under its key, unless somebody logs in before it ends.
RevokedIsRefused ==
    \A t \in Threads : thread[t].at = "answered" /\ thread[t].lost => thread[t].token = 0
=================================================================================
