--------------------------- MODULE AccountsCache ---------------------------
(***************************************************************************)
(* RpcClientCache (src/account_caching/rpc_cache.rs) between the chain and *)
(* the clients that share it: get_account and get_accounts run as futures  *)
(* of several tasks, so a call reads the map key by key, waits for the RPC *)
(* node, and inserts what it received key by key, while other calls do the *)
(* same and the chain moves on.  reset_cache borrows the cache             *)
(* exclusively, so no call is under way when it runs.                      *)
(***************************************************************************)
EXTENDS Integers, Sequences, FiniteSets, Functions

CONSTANTS
    Keys,      \* account addresses
    Clients,   \* tasks that call the cache
    Data,      \* what an account may hold
    Missing,   \* `None': the account does not exist
    Absent,    \* the map has no entry for the key
    Requests,  \* lists of keys that clients ask get_accounts for
    Genesis,   \* the first state of the chain, [Keys -> Data or Missing]
    Writes,    \* what transactions write, partial functions from Keys
    MaxSlot,   \* bound on the states of the chain
    MaxFaults  \* bound on the calls that fail or are dropped

\* An account as it was written, at a slot.
Content == [key : Keys, slot : 1 .. MaxSlot, data : Data]
Written(k, s, d) == IF d = Missing THEN Missing ELSE [key |-> k, slot |-> s, data |-> d]

ASSUME CacheAssumption ==
    /\ Genesis \in [Keys -> Data \cup {Missing}]
    /\ \A w \in Writes : DOMAIN w \subseteq Keys /\ Range(w) \subseteq Data \cup {Missing}
    /\ Requests \subseteq Seq(Keys)
    /\ MaxSlot \in Nat \ {0} /\ MaxFaults \in Nat
    /\ Missing # Absent
    /\ {Missing, Absent} \cap (Data \cup Content) = {}

VARIABLES
    history,   \* the states the chain went through, newest last
    cache,     \* DashMap<Pubkey, Option<Account>>
    call,      \* per client, the call under way
    resetAt,   \* the slot of the last reset
    faults     \* calls that failed or were dropped, for MaxFaults

cacheVars == <<history, cache, call, resetAt, faults>>

Now == Len(history)
Chain == history[Now]

NoValues == <<>>   \* the empty map
NoCall == [at |-> "idle", keys |-> <<>>, i |-> 0, ask |-> <<>>, found |-> NoValues,
           response |-> NoValues, since |-> 0]

With(f, k, x) == [j \in DOMAIN f \cup {k} |-> IF j = k THEN x ELSE f[j]]

CacheInit ==
    /\ history = <<[k \in Keys |-> Written(k, 1, Genesis[k])]>>
    /\ cache = [k \in Keys |-> Absent]
    /\ call = [c \in Clients |-> NoCall]
    /\ resetAt = 1
    /\ faults = 0

-----------------------------------------------------------------------------
(* The chain and the RPC node.                                             *)

\* A transaction writes some accounts together.
ChainStep(w) ==
    /\ Now < MaxSlot
    /\ history' = Append(history, [k \in Keys |->
                     IF k \in DOMAIN w THEN Written(k, Now + 1, w[k]) ELSE Chain[k]])
    /\ UNCHANGED <<cache, call, resetAt, faults>>

\* getAccountInfo and getMultipleAccounts are answered from one state of the
\* chain, some time after they were sent.
Answer(ask) == [k \in Range(ask) |-> Chain[k]]

Serve(c) ==
    /\ call[c].at \in {"sentOne", "sentMany"}
    /\ call' = [call EXCEPT ![c].response = Answer(call[c].ask),
                            ![c].at = IF @ = "sentOne" THEN "servedOne" ELSE "servedMany"]
    /\ UNCHANGED <<history, cache, resetAt, faults>>

\* FailedToFetchAccount: the node or the connection fails.
RpcFail(c) ==
    /\ call[c].at \in {"sentOne", "sentMany"}
    /\ faults < MaxFaults /\ faults' = faults + 1
    /\ call' = [call EXCEPT ![c].at = "err"]
    /\ UNCHANGED <<history, cache, resetAt>>

-----------------------------------------------------------------------------
(* get_account.                                                            *)

\* Lines 89-92: an entry is returned, `None' included; otherwise it is asked for.
GetAccount(c, k) ==
    /\ call[c].at = "idle"
    /\ call' = [call EXCEPT ![c] =
          IF cache[k] # Absent
          THEN [NoCall EXCEPT !.at = "ok", !.keys = <<k>>, !.found = With(NoValues, k, cache[k]),
                              !.since = Now]
          ELSE [NoCall EXCEPT !.at = "sentOne", !.keys = <<k>>, !.ask = <<k>>, !.since = Now]]
    /\ UNCHANGED <<history, cache, resetAt, faults>>

\* Lines 94-103: a missing account is an error of the RPC client and is not
\* cached.
ReceiveOne(c) ==
    LET k == call[c].ask[1]
        v == call[c].response[k]
    IN
    /\ call[c].at = "servedOne"
    /\ cache' = IF v = Missing THEN cache ELSE [cache EXCEPT ![k] = v]
    /\ call' = [call EXCEPT ![c].at = IF v = Missing THEN "err" ELSE "ok",
                            ![c].found = IF v = Missing THEN @ ELSE With(@, k, v)]
    /\ UNCHANGED <<history, resetAt, faults>>

-----------------------------------------------------------------------------
(* get_accounts.                                                           *)

GetAccounts(c, ks) ==
    /\ call[c].at = "idle"
    /\ call' = [call EXCEPT ![c] = [NoCall EXCEPT !.at = "read", !.keys = ks, !.i = 1, !.since = Now]]
    /\ UNCHANGED <<history, cache, resetAt, faults>>

\* A variant of ReadKey with a bug: a key cached as `None' is not asked for,
\* and no result is recorded for it.
ReadKeyNegative(c) ==
    LET k == call[c].keys[call[c].i] IN
    /\ call[c].at = "read" /\ call[c].i <= Len(call[c].keys)
    /\ call' = [call EXCEPT ![c].i = @ + 1,
                            ![c].found = IF cache[k] \notin {Absent, Missing}
                                         THEN With(@, k, cache[k]) ELSE @,
                            ![c].ask = IF cache[k] # Absent THEN @ ELSE Append(@, k)]
    /\ UNCHANGED <<history, cache, resetAt, faults>>

\* Lines 67-78, 120-134: a key that is not cached, or is cached as `None', is
\* asked for.
Hit(k) == cache[k] \notin {Absent, Missing}

ReadKey(c) ==
    LET k == call[c].keys[call[c].i] IN
    /\ call[c].at = "read" /\ call[c].i <= Len(call[c].keys)
    /\ call' = [call EXCEPT ![c].i = @ + 1,
                            ![c].found = IF Hit(k) THEN With(@, k, cache[k]) ELSE @,
                            ![c].ask = IF Hit(k) THEN @ ELSE Append(@, k)]
    /\ UNCHANGED <<history, cache, resetAt, faults>>

\* Lines 136-142: the misses, if any, are asked for in one request.
Ask(c) ==
    /\ call[c].at = "read" /\ call[c].i > Len(call[c].keys)
    /\ call' = [call EXCEPT ![c].at = IF call[c].ask = <<>> THEN "ok" ELSE "sentMany", ![c].i = 1]
    /\ UNCHANGED <<history, cache, resetAt, faults>>

\* Variants of InsertKey with a bug: the answers are paired with the keys of the
\* call instead of the misses; the result is what the map holds, which another
\* call may have put there (entry().or_insert()).
InsertKeyShifted(c) ==
    LET k == call[c].keys[call[c].i]
        v == call[c].response[call[c].ask[call[c].i]]
    IN
    /\ call[c].at = "servedMany"
    /\ cache' = [cache EXCEPT ![k] = v]
    /\ call' = [call EXCEPT ![c].found = With(@, k, v),
                            ![c].i = @ + 1,
                            ![c].at = IF call[c].i = Len(call[c].ask) THEN "ok" ELSE @]
    /\ UNCHANGED <<history, resetAt, faults>>

InsertKeyEntry(c) ==
    LET k == call[c].ask[call[c].i]
        v == IF cache[k] = Absent THEN call[c].response[k] ELSE cache[k]
    IN
    /\ call[c].at = "servedMany"
    /\ cache' = [cache EXCEPT ![k] = v]
    /\ call' = [call EXCEPT ![c].found = With(@, k, v),
                            ![c].i = @ + 1,
                            ![c].at = IF call[c].i = Len(call[c].ask) THEN "ok" ELSE @]
    /\ UNCHANGED <<history, resetAt, faults>>

\* Lines 144-148: each answer, `None' included, goes to the result and to the
\* map; then the results are put in the order of the keys.
InsertKey(c) ==
    LET k == call[c].ask[call[c].i]
        v == call[c].response[k]
    IN
    /\ call[c].at = "servedMany"
    /\ cache' = [cache EXCEPT ![k] = v]
    /\ call' = [call EXCEPT ![c].found = With(@, k, v),
                            ![c].i = @ + 1,
                            ![c].at = IF call[c].i = Len(call[c].ask) THEN "ok" ELSE @]
    /\ UNCHANGED <<history, resetAt, faults>>

\* The result reaches the caller.
Return(c) ==
    /\ call[c].at \in {"ok", "err"}
    /\ call' = [call EXCEPT ![c] = NoCall]
    /\ UNCHANGED <<history, cache, resetAt, faults>>

\* The future is dropped while it waits.
Drop(c) ==
    /\ call[c].at \in {"sentOne", "sentMany", "servedOne", "servedMany"}
    /\ call[c].i <= 1
    /\ faults < MaxFaults /\ faults' = faults + 1
    /\ call' = [call EXCEPT ![c] = NoCall]
    /\ UNCHANGED <<history, cache, resetAt>>

\* A variant of NoneUnderWay with a bug: the cache is cleared through a shared
\* borrow, when no call is inserting.
NoneUnderWayShared == \A c \in Clients : call[c].at # "servedMany"

\* reset_cache(&mut self).
NoneUnderWay == \A c \in Clients : call[c].at = "idle"

Reset ==
    /\ NoneUnderWay
    /\ cache' = [k \in Keys |-> Absent]
    /\ resetAt' = Now
    /\ UNCHANGED <<history, call, faults>>

\* The steps a call takes by itself.
CallStep(c) == ReadKey(c) \/ Ask(c) \/ InsertKey(c) \/ ReceiveOne(c) \/ Serve(c)

CacheNext ==
    \/ \E w \in Writes : ChainStep(w)
    \/ \E c \in Clients :
          \/ \E k \in Keys : GetAccount(c, k)
          \/ \E ks \in Requests : GetAccounts(c, ks)
          \/ CallStep(c) \/ RpcFail(c) \/ Return(c) \/ Drop(c)
    \/ Reset

CacheSpec == CacheInit /\ [][CacheNext]_cacheVars

-----------------------------------------------------------------------------
(* Types. *)

CallStages == {"idle", "read", "sentOne", "sentMany", "servedOne", "servedMany", "ok", "err"}

\* What may be known of a key: that it is missing, or an account of its own.
Keyed(k, v) == v = Missing \/ (v \in Content /\ v.key = k)

IsMap(f) == DOMAIN f \subseteq Keys /\ \A k \in DOMAIN f : Keyed(k, f[k])

CallTypeOK(x) == /\ x.at \in CallStages /\ x.i \in Nat /\ x.since \in 0 .. Now
                 /\ x.keys \in Seq(Keys) /\ x.ask \in Seq(Keys)
                 /\ IsMap(x.found) /\ IsMap(x.response)

\* The type invariant; an entry holds the account of its own key.
CacheTypeOK ==
    /\ \A t \in 1 .. Now : DOMAIN history[t] = Keys /\ IsMap(history[t])
    /\ Now \in 1 .. MaxSlot
    /\ DOMAIN cache = Keys
    /\ \A k \in Keys : cache[k] = Absent \/ Keyed(k, cache[k])
    /\ \A c \in Clients : CallTypeOK(call[c])
    /\ resetAt \in 1 .. Now
    /\ faults \in 0 .. MaxFaults

-----------------------------------------------------------------------------
(* What callers may rely on. *)

HeldSince(k, v, s) == \E t \in s .. Now : history[t][k] = v

\* Nothing the cache holds, and nothing a call returns, is older than the last
\* reset: no answer asked for before the reset can be inserted after it, however
\* long it was under way (reset_cache, lines 56-58, and the inserts, lines
\* 100-101, 144-148).
FreshSinceReset ==
    /\ \A k \in Keys : cache[k] # Absent => HeldSince(k, cache[k], resetAt)
    /\ \A c \in Clients : call[c].at = "ok" =>
          \A k \in DOMAIN call[c].found : HeldSince(k, call[c].found[k], resetAt)

\* The accounts a call had to ask for are returned as they were at one moment
\* of the call, whatever other calls put into the map meanwhile: the result is
\* made of the answer, not of the map (lines 136-148).
AskedAreOneSnapshot ==
    \A c \in Clients : call[c].at = "ok" =>
        \E s \in call[c].since .. Now :
            \A k \in Range(call[c].ask) : call[c].found[k] = history[s][k]

\* A call that succeeds has a result for every key it was given, repeated keys
\* and keys cached as `None' included: the unwrap of line 155 never panics.
ResultComplete ==
    \A c \in Clients : call[c].at = "ok" => DOMAIN call[c].found = Range(call[c].keys)

\* The module's comment (rpc_cache.rs:5-6): the cache "ensures consistent
\* account snapshots".
ConsistentSnapshots ==
    \A c \in Clients : call[c].at = "ok" =>
        \E s \in 1 .. Now : \A k \in DOMAIN call[c].found : call[c].found[k] = history[s][k]

\* "Using `Option<Account>` avoids retrying missing accounts on every request"
\* (rpc_cache.rs:30): a key cached as `None' is not asked for.
MissingNotRetried ==
    [][\A c \in Clients :
          Len(call'[c].ask) > Len(call[c].ask)
             => cache[call'[c].ask[Len(call'[c].ask)]] # Missing]_cacheVars
=============================================================================
