------------------------ MODULE AccountsCacheProofs ------------------------
(***************************************************************************)
(* What callers of the account cache may rely on, for every set of keys    *)
(* and clients, every list of keys and every history of the chain: the     *)
(* proofs follow a call from the keys it reads to the answers it inserts.  *)
(***************************************************************************)
EXTENDS AccountsCache, SequenceTheorems, TLAPS

Values == Content \cup {Missing}
AllKeyed(f) == \A k \in DOMAIN f : Keyed(k, f[k])
Maps == {f \in UNION {[S -> Values] : S \in SUBSET Keys} : AllKeyed(f)}
States == {f \in [Keys -> Values] : AllKeyed(f)}
CallType == [at : CallStages, keys : Seq(Keys), i : Nat, ask : Seq(Keys), found : Maps,
             response : Maps, since : Nat]

\* The chain keeps every state it went through.
HistoryInv == /\ history \in Seq(States) /\ Now \in 1 .. MaxSlot
              /\ resetAt \in 1 .. Now /\ faults \in 0 .. MaxFaults

Fresh(k, v) == HeldSince(k, v, resetAt)

MapInv == /\ cache \in [Keys -> Values \cup {Absent}]
          /\ \A k \in Keys : cache[k] # Absent => Keyed(k, cache[k]) /\ Fresh(k, cache[k])

\* What a call has found so far, and of what moment its answer is.
OneSnapshot(x, f) == \E s \in x.since .. Now : \A k \in Range(x.ask) : f[k] = history[s][k]
Read(x) == {x.keys[j] : j \in 1 .. x.i - 1}
Inserted(x) == \A j \in 1 .. x.i - 1 : x.ask[j] \in DOMAIN x.found /\ x.found[x.ask[j]] = x.response[x.ask[j]]

CallInv(x) ==
    /\ x.since <= Now
    /\ x.at # "idle" => resetAt <= x.since
    /\ \A k \in DOMAIN x.found : Fresh(k, x.found[k])
    /\ x.at \in {"idle", "sentOne", "servedOne"} => DOMAIN x.found = {}
    /\ x.at \in {"sentOne", "servedOne"} => x.ask = x.keys /\ Len(x.keys) = 1
    /\ x.at = "read" => /\ x.i \in 1 .. Len(x.keys) + 1
                        /\ DOMAIN x.found \cup Range(x.ask) = Read(x)
    /\ x.at = "sentMany" => x.i = 1
    /\ x.at \in {"sentMany", "servedMany"} =>
         /\ x.i \in 1 .. Len(x.ask)
         /\ DOMAIN x.found \cup Range(x.ask) = Range(x.keys)
    /\ x.at \in {"servedOne", "servedMany"} =>
         DOMAIN x.response = Range(x.ask) /\ OneSnapshot(x, x.response)
    /\ x.at = "servedMany" => Inserted(x)
    /\ x.at = "ok" => DOMAIN x.found = Range(x.keys) /\ OneSnapshot(x, x.found)

CallsInv == call \in [Clients -> CallType] /\ \A c \in Clients : CallInv(call[c])

CInv == HistoryInv /\ MapInv /\ CallsInv

-----------------------------------------------------------------------------
(* The operators the calls are built from. *)

\* What is written at a key is missing or an account of that key.
LEMMA WrittenKeyed ==
    ASSUME NEW k \in Keys, NEW s \in 1 .. MaxSlot, NEW d \in Data \cup {Missing}
    PROVE  Written(k, s, d) \in Values /\ Keyed(k, Written(k, s, d))
BY DEF Written, Values, Content, Keyed

\* Adding an entry to a map.
LEMMA WithFacts ==
    ASSUME NEW f \in Maps, NEW k \in Keys, NEW v \in Values, Keyed(k, v)
    PROVE  /\ With(f, k, v) \in Maps
           /\ DOMAIN With(f, k, v) = DOMAIN f \cup {k}
           /\ With(f, k, v)[k] = v
           /\ \A j \in DOMAIN f \ {k} : With(f, k, v)[j] = f[j]
<1> DEFINE D == DOMAIN f \cup {k}
<1>1. PICK S \in SUBSET Keys : f \in [S -> Values]
  BY DEF Maps
<1>2. D \in SUBSET Keys /\ \A j \in DOMAIN f : f[j] \in Values /\ Keyed(j, f[j])
  BY <1>1 DEF Maps, AllKeyed
<1>3. With(f, k, v) \in [D -> Values]
  BY <1>2 DEF With
<1>4. \A j \in D : With(f, k, v)[j] = IF j = k THEN v ELSE f[j]
  BY DEF With
<1>5. AllKeyed(With(f, k, v))
  BY <1>2, <1>3, <1>4 DEF AllKeyed
<1> QED
  BY <1>2, <1>3, <1>4, <1>5 DEF Maps

LEMMA EmptyMap == NoValues \in Maps /\ DOMAIN NoValues = {}
<1>1. DOMAIN NoValues = {}
  BY DEF NoValues
<1>2. NoValues \in [{} -> Values]
  BY <1>1, EmptySeq, LenProperties DEF NoValues
<1> QED
  BY <1>1, <1>2 DEF Maps, AllKeyed

LEMMA MapFacts ==
    ASSUME NEW f \in Maps
    PROVE  DOMAIN f \subseteq Keys /\ \A k \in DOMAIN f : f[k] \in Values /\ Keyed(k, f[k])
BY DEF Maps, AllKeyed

\* One more key is asked for.
LEMMA AppendRange ==
    ASSUME NEW s \in Seq(Keys), NEW k \in Keys
    PROVE  Append(s, k) \in Seq(Keys) /\ Range(Append(s, k)) = Range(s) \cup {k}
<1>1. /\ Append(s, k) \in Seq(Keys) /\ Len(Append(s, k)) = Len(s) + 1
      /\ \A i \in 1 .. Len(s) : Append(s, k)[i] = s[i]
      /\ Append(s, k)[Len(s) + 1] = k
  BY AppendProperties
<1>2. /\ DOMAIN s = 1 .. Len(s) /\ DOMAIN Append(s, k) = 1 .. Len(s) + 1
      /\ Len(s) \in Nat
  BY <1>1, LenProperties
<1> HIDE DEF Range
<1>3. \A x \in Range(Append(s, k)) : x \in Range(s) \cup {k}
  BY <1>1, <1>2 DEF Range
<1>4. \A x \in Range(s) \cup {k} : x \in Range(Append(s, k))
  BY <1>1, <1>2 DEF Range
<1> QED
  BY <1>1, <1>3, <1>4

LEMMA KeysRange ==
    ASSUME NEW s \in Seq(Keys)
    PROVE  /\ Range(s) \subseteq Keys /\ Len(s) \in Nat
           /\ \A i \in 1 .. Len(s) : s[i] \in Range(s) /\ s[i] \in Keys
           /\ Range(s) = {s[i] : i \in 1 .. Len(s)}
BY LenProperties DEF Range

LEMMA IdleCall == NoCall \in CallType /\ NoCall.at = "idle" /\ NoCall.found = NoValues /\ NoCall.since = 0
<1>1. <<>> \in Seq(Keys)
  BY EmptySeq
<1> QED
  BY <1>1, EmptyMap DEF NoCall, CallType, CallStages

-----------------------------------------------------------------------------
(* The chain. *)

\* States that a chain went through stay known.
LEMMA ChainGrows ==
    ASSUME HistoryInv, NEW w \in Writes, ChainStep(w)
    PROVE  /\ HistoryInv' /\ Now' = Now + 1
           /\ \A t \in 1 .. Now : history'[t] = history[t]
<1> DEFINE next == [k \in Keys |-> IF k \in DOMAIN w THEN Written(k, Now + 1, w[k]) ELSE Chain[k]]
<1>1. Now \in 1 .. MaxSlot /\ Now < MaxSlot /\ history \in Seq(States) /\ MaxSlot \in Nat
      /\ Now \in Nat
  BY CacheAssumption DEF HistoryInv, ChainStep
<1>2. Chain \in States
  BY <1>1, ElementOfSeq DEF Chain, Now
<1>3. \A k \in DOMAIN w : k \in Keys /\ w[k] \in Data \cup {Missing}
  BY CacheAssumption DEF Range
<1>4. Now + 1 \in 1 .. MaxSlot
  BY <1>1
<1>5. ASSUME NEW k \in Keys
      PROVE  next[k] \in Values /\ Keyed(k, next[k])
  BY <1>2, <1>3, <1>4, WrittenKeyed DEF States, AllKeyed
<1>6. next \in States
  BY <1>5 DEF States, AllKeyed
<1>7. history' = Append(history, next)
  BY DEF ChainStep
<1> HIDE DEF next
<1>8. /\ history' \in Seq(States) /\ Len(history') = Len(history) + 1
      /\ \A t \in 1 .. Len(history) : history'[t] = history[t]
  BY <1>1, <1>6, <1>7, AppendProperties
<1> QED
  BY <1>1, <1>4, <1>8 DEF HistoryInv, ChainStep, Now

LEMMA ChainFacts ==
    ASSUME HistoryInv
    PROVE  /\ Now \in Nat /\ Now >= 1 /\ resetAt \in Nat /\ resetAt <= Now /\ resetAt >= 1
           /\ Chain \in States /\ history[Now] = Chain
           /\ \A k \in Keys : Chain[k] \in Values /\ Keyed(k, Chain[k]) /\ Fresh(k, Chain[k])
<1>1. Now \in 1 .. MaxSlot /\ history \in Seq(States) /\ MaxSlot \in Nat /\ resetAt \in 1 .. Now
  BY CacheAssumption DEF HistoryInv
<1>2. Chain \in States
  BY <1>1, ElementOfSeq DEF Chain, Now
<1> QED
  BY <1>1, <1>2 DEF States, AllKeyed, Chain, Fresh, HeldSince

-----------------------------------------------------------------------------
(* The steps of a call. *)

\* A step of one call leaves the others as they are.
LEMMA CallChanges ==
    ASSUME CInv, NEW c \in Clients, NEW y \in CallType, CallInv(y), call' = [call EXCEPT ![c] = y],
           UNCHANGED <<history, resetAt>>, faults' \in 0 .. MaxFaults, MapInv'
    PROVE  CInv'
<1>1. HistoryInv'
  BY DEF CInv, HistoryInv, Now
<1>2. call' \in [Clients -> CallType] /\ call'[c] = y
  BY DEF CInv, CallsInv
<1>3. ASSUME NEW d \in Clients PROVE CallInv(call[d])'
  <2>1. CallInv(call'[d])
    BY <1>2 DEF CInv, CallsInv
  <2>2. history' = history /\ resetAt' = resetAt
    OBVIOUS
  <2> QED
    BY <2>1, <2>2 DEF CallInv, OneSnapshot, Read, Inserted, Fresh, HeldSince, Now
<1> QED
  BY <1>1, <1>2, <1>3 DEF CInv, CallsInv

LEMMA MapUnchanged == ASSUME MapInv, UNCHANGED <<history, resetAt, cache>> PROVE MapInv'
BY DEF MapInv, Fresh, HeldSince, Now

\* An entry that is as fresh as a call's answer may be put into the map.
LEMMA MapInsert ==
    ASSUME MapInv, NEW k \in Keys, NEW v \in Values, Keyed(k, v), Fresh(k, v),
           cache' = [cache EXCEPT ![k] = v], UNCHANGED <<history, resetAt>>
    PROVE  MapInv'
BY DEF MapInv, Fresh, HeldSince, Now

\* What a call knows of itself.
LEMMA CallFacts ==
    ASSUME CInv, NEW c \in Clients
    PROVE  LET x == call[c]
           IN  /\ HistoryInv /\ MapInv
               /\ x \in CallType /\ CallInv(x) /\ x.at \in CallStages
               /\ x.i \in Nat /\ x.since \in Nat /\ x.keys \in Seq(Keys) /\ x.ask \in Seq(Keys)
               /\ x.found \in Maps /\ x.response \in Maps
               /\ faults \in 0 .. MaxFaults
BY DEF CInv, CallsInv, CallType, HistoryInv

\* What a call was answered is no older than the call, hence than the reset.
LEMMA AnswerFresh ==
    ASSUME CInv, NEW c \in Clients, call[c].at \in {"servedOne", "servedMany"},
           NEW k \in Range(call[c].ask)
    PROVE  LET v == call[c].response[k]
           IN  k \in Keys /\ v \in Values /\ Keyed(k, v) /\ Fresh(k, v)
<1> DEFINE x == call[c]
<1>1. /\ x.ask \in Seq(Keys) /\ x.response \in Maps /\ x.since \in Nat /\ CallInv(x)
  BY CallFacts
<1>2. k \in Keys
  BY <1>1, KeysRange
<1>3. /\ resetAt <= x.since /\ DOMAIN x.response = Range(x.ask)
      /\ OneSnapshot(x, x.response)
  BY <1>1 DEF CallInv
<1> HIDE DEF x
<1>4. x.response[k] \in Values /\ Keyed(k, x.response[k])
  BY <1>1, <1>3, MapFacts DEF x
<1>5. PICK s \in x.since .. Now : \A j \in Range(x.ask) : x.response[j] = history[s][j]
  BY <1>3 DEF OneSnapshot
<1>6. s \in resetAt .. Now
  BY <1>1, <1>3, <1>5, ChainFacts DEF CInv
<1>7. Fresh(k, x.response[k])
  BY <1>5, <1>6 DEF Fresh, HeldSince, x
<1> QED
  BY <1>2, <1>4, <1>7 DEF x

LEMMA ServeSteps == ASSUME CInv, NEW c \in Clients, Serve(c) PROVE CInv'
<1> DEFINE x == call[c]
           y == [x EXCEPT !.response = Answer(x.ask),
                          !.at = IF @ = "sentOne" THEN "servedOne" ELSE "servedMany"]
<1>1. /\ x.at \in {"sentOne", "sentMany"} /\ call' = [call EXCEPT ![c] = y]
      /\ UNCHANGED <<history, cache, resetAt, faults>>
  BY DEF Serve
<1>2. /\ x \in CallType /\ CallInv(x) /\ x.ask \in Seq(Keys) /\ x.since \in Nat
      /\ MapInv /\ faults \in 0 .. MaxFaults
  BY CallFacts
<1>3. Answer(x.ask) \in Maps
  <2>1. Range(x.ask) \in SUBSET Keys
    BY <1>2, KeysRange
  <2>2. \A k \in Range(x.ask) : Chain[k] \in Values /\ Keyed(k, Chain[k])
    BY <2>1, ChainFacts DEF CInv
  <2> QED
    BY <2>1, <2>2 DEF Answer, Maps, AllKeyed
<1>4. y \in CallType
  BY <1>2, <1>3 DEF CallType, CallStages
<1>5. /\ y.keys = x.keys /\ y.i = x.i /\ y.ask = x.ask /\ y.found = x.found
      /\ y.since = x.since /\ y.response = Answer(x.ask)
      /\ y.at = IF x.at = "sentOne" THEN "servedOne" ELSE "servedMany"
  BY <1>2 DEF CallType
<1>6. DOMAIN y.response = Range(y.ask) /\ OneSnapshot(y, y.response)
  <2>1. /\ Now \in y.since .. Now
        /\ \A k \in Range(y.ask) : y.response[k] = history[Now][k]
    BY <1>2, <1>5, ChainFacts DEF CInv, CallInv, Answer
  <2> QED
    BY <1>5, <2>1 DEF OneSnapshot, Answer
<1> HIDE DEF x, y
<1>7. CallInv(y)
  <2>1. x.at = "sentMany" => x.i = 1
    BY <1>2 DEF CallInv
  <2>2. x.at = "sentMany" => Inserted(y)
    BY <1>5, <2>1 DEF Inserted
  <2> QED
    BY <1>1, <1>2, <1>5, <1>6, <2>2 DEF CallInv
<1>8. MapInv'
  BY <1>1, <1>2, MapUnchanged
<1> QED
  BY <1>1, <1>2, <1>4, <1>7, <1>8, CallChanges

\* A call that ends, well or not, is forgotten.
LEMMA ReturnSteps == ASSUME CInv, NEW c \in Clients, Return(c) \/ Drop(c) PROVE CInv'
<1>1. /\ call' = [call EXCEPT ![c] = NoCall] /\ UNCHANGED <<history, cache, resetAt>>
      /\ faults' \in 0 .. MaxFaults
  BY CallFacts, CacheAssumption DEF Return, Drop
<1>2. CallInv(NoCall)
  BY IdleCall, EmptyMap, ChainFacts DEF CallInv, CInv
<1>3. MapInv'
  BY <1>1, MapUnchanged DEF CInv
<1> QED
  BY <1>1, <1>2, <1>3, IdleCall, CallChanges

LEMMA RpcFailSteps == ASSUME CInv, NEW c \in Clients, RpcFail(c) PROVE CInv'
<1> DEFINE x == call[c]
           y == [x EXCEPT !.at = "err"]
<1>1. /\ call' = [call EXCEPT ![c] = y] /\ UNCHANGED <<history, cache, resetAt>>
      /\ faults' \in 0 .. MaxFaults /\ x.at # "idle"
  BY CallFacts, CacheAssumption DEF RpcFail
<1>2. x \in CallType /\ CallInv(x)
  BY CallFacts
<1>3. y \in CallType /\ y.at = "err" /\ y.since = x.since /\ y.found = x.found
  BY <1>2 DEF CallType, CallStages
<1> HIDE DEF x, y
<1>4. CallInv(y)
  BY <1>1, <1>2, <1>3 DEF CallInv
<1>5. MapInv'
  BY <1>1, MapUnchanged DEF CInv
<1> QED
  BY <1>1, <1>3, <1>4, <1>5, CallChanges

\* One key: an entry of the map is the result, its absence is asked about.
LEMMA GetAccountSteps == ASSUME CInv, NEW c \in Clients, NEW k \in Keys, GetAccount(c, k) PROVE CInv'
<1> DEFINE ks == <<k>>
           hit == [NoCall EXCEPT !.at = "ok", !.keys = ks, !.found = With(NoValues, k, cache[k]),
                                 !.since = Now]
           miss == [NoCall EXCEPT !.at = "sentOne", !.keys = ks, !.ask = ks, !.since = Now]
<1>1. /\ call' = [call EXCEPT ![c] = IF cache[k] # Absent THEN hit ELSE miss]
      /\ UNCHANGED <<history, cache, resetAt, faults>>
  BY DEF GetAccount
<1>2. MapInv' /\ faults' \in 0 .. MaxFaults
  BY <1>1, CallFacts, MapUnchanged
<1>3. ks \in Seq(Keys) /\ Len(ks) = 1 /\ Range(ks) = {k}
  <2>1. ks \in Seq(Keys) /\ Len(ks) = 1 /\ ks[1] = k
    OBVIOUS
  <2> HIDE DEF ks
  <2> QED
    BY <2>1, KeysRange
<1> HIDE DEF ks
<1>4. /\ NoCall.ask = <<>> /\ Range(NoCall.ask) = {} /\ NoCall \in CallType
      /\ NoCall.at = "idle" /\ NoCall.found = NoValues
  BY IdleCall, EmptySeq, KeysRange DEF NoCall, Range
<1>5. /\ Now \in Nat /\ resetAt <= Now /\ Now \in Now .. Now
  BY ChainFacts DEF CInv
<1>6. CASE cache[k] # Absent
  <2>1. cache[k] \in Values /\ Keyed(k, cache[k]) /\ Fresh(k, cache[k])
    BY <1>6 DEF CInv, MapInv
  <2> DEFINE f == With(NoValues, k, cache[k])
  <2>2. f \in Maps /\ DOMAIN f = {k} /\ f[k] = cache[k]
    <3>1. f \in Maps /\ DOMAIN f = DOMAIN NoValues \cup {k} /\ f[k] = cache[k]
      BY <2>1, EmptyMap, WithFacts
    <3> HIDE DEF f
    <3> QED
      BY <3>1, EmptyMap
  <2> HIDE DEF f
  <2>3. hit \in CallType
    BY <1>3, <1>4, <1>5, <2>2 DEF CallType, CallStages, f
  <2>4. /\ hit.at = "ok" /\ hit.keys = ks /\ hit.ask = NoCall.ask /\ hit.found = f
        /\ hit.since = Now
    BY <1>4 DEF CallType, f
  <2> HIDE DEF hit
  <2>5. CallInv(hit)
    BY <1>3, <1>4, <1>5, <2>1, <2>2, <2>4 DEF CallInv, OneSnapshot
  <2> QED
    BY <1>1, <1>2, <1>6, <2>3, <2>5, CallChanges
<1>7. CASE cache[k] = Absent
  <2>1. miss \in CallType
    BY <1>3, <1>4, <1>5 DEF CallType, CallStages
  <2>2. /\ miss.at = "sentOne" /\ miss.keys = ks /\ miss.ask = ks /\ miss.found = NoValues
        /\ miss.since = Now
    BY <1>4 DEF CallType
  <2> HIDE DEF miss
  <2>3. CallInv(miss)
    BY <1>3, <1>5, <2>2, EmptyMap DEF CallInv
  <2> QED
    BY <1>1, <1>2, <1>7, <2>1, <2>3, CallChanges
<1> QED
  BY <1>6, <1>7

LEMMA ReceiveOneSteps == ASSUME CInv, NEW c \in Clients, ReceiveOne(c) PROVE CInv'
<1> DEFINE x == call[c]
           k == x.ask[1]
           v == x.response[k]
           f == With(x.found, k, v)
           good == [x EXCEPT !.at = "ok", !.found = f]
           bad == [x EXCEPT !.at = "err"]
<1>1. /\ x.at = "servedOne" /\ UNCHANGED <<history, resetAt, faults>>
      /\ cache' = IF v = Missing THEN cache ELSE [cache EXCEPT ![k] = v]
      /\ call' = [call EXCEPT ![c].at = IF v = Missing THEN "err" ELSE "ok",
                              ![c].found = IF v = Missing THEN @ ELSE With(@, k, v)]
  BY DEF ReceiveOne
<1>2. /\ x \in CallType /\ CallInv(x) /\ x.ask \in Seq(Keys) /\ x.keys \in Seq(Keys)
      /\ x.found \in Maps /\ MapInv /\ faults' \in 0 .. MaxFaults
  BY <1>1, CallFacts
<1>3. x.ask = x.keys /\ Len(x.ask) = 1 /\ DOMAIN x.found = {} /\ OneSnapshot(x, x.response)
  BY <1>1, <1>2 DEF CallInv
<1>4. Range(x.ask) = {k}
  BY <1>2, <1>3, KeysRange
<1>5. k \in Keys /\ v \in Values /\ Keyed(k, v) /\ Fresh(k, v)
  BY <1>1, <1>4, AnswerFresh
<1>6. MapInv'
  BY <1>1, <1>2, <1>5, MapUnchanged, MapInsert
<1>7. CASE v = Missing
  <2>1. call' = [call EXCEPT ![c] = bad]
    BY <1>1, <1>2, <1>7 DEF CInv, CallsInv, CallType
  <2>2. bad \in CallType /\ bad.at = "err" /\ bad.since = x.since /\ bad.found = x.found
    BY <1>2 DEF CallType, CallStages
  <2> HIDE DEF x, bad
  <2>3. CallInv(bad)
    BY <1>1, <1>2, <2>2 DEF CallInv
  <2> QED
    BY <1>1, <1>2, <1>6, <2>1, <2>2, <2>3, CallChanges
<1>8. CASE v # Missing
  <2>1. call' = [call EXCEPT ![c] = good]
    BY <1>1, <1>8
  <2>2. f \in Maps /\ DOMAIN f = {k} /\ f[k] = v
    <3> HIDE DEF v, k, x
    <3>1. f \in Maps /\ DOMAIN f = DOMAIN x.found \cup {k} /\ f[k] = v
      BY <1>2, <1>5, WithFacts
    <3> HIDE DEF f
    <3> QED
      BY <1>3, <3>1
  <2> HIDE DEF f
  <2>3. /\ good \in CallType /\ good.at = "ok" /\ good.since = x.since /\ good.found = f
        /\ good.keys = x.keys /\ good.ask = x.ask
    BY <1>2, <2>2 DEF CallType, CallStages
  <2> HIDE DEF good
  <2>4. OneSnapshot(good, good.found)
    BY <1>3, <1>4, <2>2, <2>3 DEF OneSnapshot
  <2>5. CallInv(good)
    <3>1. x.since <= Now /\ resetAt <= x.since
      BY <1>1, <1>2 DEF CallInv
    <3>2. DOMAIN good.found = Range(good.keys) /\ \A j \in DOMAIN good.found : Fresh(j, good.found[j])
      BY <1>3, <1>4, <1>5, <2>2, <2>3
    <3> QED
      BY <2>3, <2>4, <3>1, <3>2 DEF CallInv
  <2> QED
    BY <1>1, <1>2, <1>6, <2>1, <2>3, <2>5, CallChanges
<1> QED
  BY <1>7, <1>8

\* Several keys: nothing has been read yet.
LEMMA GetAccountsSteps == ASSUME CInv, NEW c \in Clients, NEW ks \in Seq(Keys), GetAccounts(c, ks) PROVE CInv'
<1> DEFINE y == [NoCall EXCEPT !.at = "read", !.keys = ks, !.i = 1, !.since = Now]
<1>1. call' = [call EXCEPT ![c] = y] /\ UNCHANGED <<history, cache, resetAt, faults>>
  BY DEF GetAccounts
<1>2. MapInv' /\ faults' \in 0 .. MaxFaults
  BY <1>1, CallFacts, MapUnchanged
<1>3. ks \in Seq(Keys) /\ Len(ks) \in Nat
  BY KeysRange
<1>4. Now \in Nat /\ resetAt <= Now
  BY ChainFacts DEF CInv
<1>5. y \in CallType
  BY <1>3, <1>4, IdleCall DEF CallType, CallStages
<1>6. /\ y.at = "read" /\ y.keys = ks /\ y.i = 1 /\ y.since = Now /\ DOMAIN y.found = {}
      /\ Range(y.ask) = {}
  BY IdleCall, EmptyMap, EmptySeq DEF NoCall, Range
<1> HIDE DEF y
<1>7. CallInv(y)
  BY <1>3, <1>4, <1>6 DEF CallInv, Read
<1> QED
  BY <1>1, <1>2, <1>5, <1>7, CallChanges

\* A key is found or asked for.
LEMMA ReadKeySteps == ASSUME CInv, NEW c \in Clients, ReadKey(c) PROVE CInv'
<1> DEFINE x == call[c]
           k == x.keys[x.i]
           f == IF Hit(k) THEN With(x.found, k, cache[k]) ELSE x.found
           a == IF Hit(k) THEN x.ask ELSE Append(x.ask, k)
           y == [x EXCEPT !.i = @ + 1, !.found = f, !.ask = a]
<1>1. /\ x.at = "read" /\ x.i <= Len(x.keys) /\ call' = [call EXCEPT ![c] = y]
      /\ UNCHANGED <<history, cache, resetAt, faults>>
  BY DEF ReadKey
<1>2. /\ x \in CallType /\ CallInv(x) /\ x.ask \in Seq(Keys) /\ x.keys \in Seq(Keys) /\ x.i \in Nat
      /\ x.found \in Maps /\ MapInv /\ faults' \in 0 .. MaxFaults
  BY <1>1, CallFacts
<1>3. MapInv'
  BY <1>1, <1>2, MapUnchanged
<1>4. /\ x.i \in 1 .. Len(x.keys) /\ Len(x.keys) \in Nat
      /\ DOMAIN x.found \cup Range(x.ask) = Read(x)
  BY <1>1, <1>2, KeysRange DEF CallInv
<1>5. k \in Keys
  BY <1>2, <1>4, KeysRange
<1>6. /\ f \in Maps /\ a \in Seq(Keys)
      /\ DOMAIN f \cup Range(a) = DOMAIN x.found \cup Range(x.ask) \cup {k}
      /\ \A j \in DOMAIN f : Fresh(j, f[j])
  <2>1. CASE Hit(k)
    <3> DEFINE g == With(x.found, k, cache[k])
    <3>1. cache[k] \in Values /\ Keyed(k, cache[k]) /\ Fresh(k, cache[k])
      BY <1>2, <1>5, <2>1 DEF Hit, MapInv
    <3> HIDE DEF k, x
    <3>2. /\ g \in Maps /\ DOMAIN g = DOMAIN x.found \cup {k} /\ g[k] = cache[k]
          /\ \A j \in DOMAIN x.found \ {k} : g[j] = x.found[j]
      BY <1>2, <1>5, <3>1, WithFacts
    <3> HIDE DEF g
    <3>3. f = g /\ a = x.ask
      BY <2>1 DEF g
    <3>4. \A j \in DOMAIN x.found : Fresh(j, x.found[j])
      BY <1>2 DEF CallInv
    <3> HIDE DEF f, a
    <3>5. \A j \in DOMAIN g : Fresh(j, g[j])
      BY <3>1, <3>2, <3>4
    <3>6. DOMAIN g \cup Range(x.ask) = DOMAIN x.found \cup Range(x.ask) \cup {k}
      BY <3>2
    <3> QED
      BY <1>2, <3>2, <3>3, <3>5, <3>6
  <2>2. CASE ~ Hit(k)
    <3> HIDE DEF k, x
    <3>1. f = x.found /\ a = Append(x.ask, k)
      BY <2>2
    <3> HIDE DEF f, a
    <3>2. a \in Seq(Keys) /\ Range(a) = Range(x.ask) \cup {k}
      BY <1>2, <1>5, <3>1, AppendRange
    <3>3. \A j \in DOMAIN x.found : Fresh(j, x.found[j])
      BY <1>2 DEF CallInv
    <3> QED
      BY <1>2, <3>1, <3>2, <3>3
  <2> QED
    BY <2>1, <2>2
<1> HIDE DEF f, a
<1>7. /\ y \in CallType /\ y.at = "read" /\ y.i = x.i + 1 /\ y.found = f /\ y.ask = a
      /\ y.keys = x.keys /\ y.since = x.since
  <2>1. x \in CallType /\ x.i + 1 \in Nat /\ f \in Maps /\ a \in Seq(Keys) /\ x.at = "read"
    BY <1>1, <1>2, <1>6
  <2> HIDE DEF x
  <2> QED
    BY ONLY <2>1 DEF CallType, y
<1>8. Read(y) = Read(x) \cup {k}
  <2>1. \A j : j \in 1 .. y.i - 1 <=> j \in 1 .. x.i - 1 \/ j = x.i
    BY <1>4, <1>7
  <2> HIDE DEF y
  <2> QED
    BY <1>7, <2>1 DEF Read
<1> HIDE DEF k, y
<1>9. CallInv(y)
  <2>1. x.since <= Now /\ resetAt <= x.since
    BY <1>1, <1>2 DEF CallInv
  <2>2. y.i \in 1 .. Len(y.keys) + 1 /\ DOMAIN y.found \cup Range(y.ask) = Read(y)
    BY <1>4, <1>6, <1>7, <1>8
  <2> QED
    BY <1>6, <1>7, <2>1, <2>2 DEF CallInv
<1> QED
  BY <1>1, <1>2, <1>3, <1>7, <1>9, CallChanges

\* When every key has been read, those not found are asked for.
LEMMA AskSteps == ASSUME CInv, NEW c \in Clients, Ask(c) PROVE CInv'
<1> DEFINE x == call[c]
           y == [x EXCEPT !.at = IF x.ask = <<>> THEN "ok" ELSE "sentMany", !.i = 1]
<1>1. /\ x.at = "read" /\ x.i > Len(x.keys) /\ call' = [call EXCEPT ![c] = y]
      /\ UNCHANGED <<history, cache, resetAt, faults>>
  BY DEF Ask
<1>2. /\ x \in CallType /\ CallInv(x) /\ x.ask \in Seq(Keys) /\ x.keys \in Seq(Keys) /\ x.i \in Nat
      /\ x.since \in Nat /\ MapInv /\ faults' \in 0 .. MaxFaults
  BY <1>1, CallFacts
<1>3. MapInv'
  BY <1>1, <1>2, MapUnchanged
<1>4. y \in CallType
  BY <1>2 DEF CallType, CallStages
<1>5. /\ y.at = (IF x.ask = <<>> THEN "ok" ELSE "sentMany") /\ y.i = 1 /\ y.found = x.found
      /\ y.ask = x.ask /\ y.keys = x.keys /\ y.since = x.since
  BY <1>2 DEF CallType
<1> HIDE DEF x, y
<1>6. DOMAIN x.found \cup Range(x.ask) = Range(x.keys)
  <2>1. x.i = Len(x.keys) + 1
    BY <1>1, <1>2, KeysRange DEF CallInv
  <2>2. Read(x) = Range(x.keys)
    BY <1>2, <2>1, KeysRange DEF Read
  <2> QED
    BY <1>1, <1>2, <2>2 DEF CallInv
<1>7. /\ x.since <= Now /\ resetAt <= x.since /\ Now \in Nat
      /\ \A j \in DOMAIN x.found : Fresh(j, x.found[j])
  BY <1>1, <1>2, ChainFacts DEF CallInv, CInv
<1>8. CallInv(y)
  <2>1. CASE x.ask = <<>>
    <3>1. Range(x.ask) = {}
      BY <2>1, EmptySeq DEF Range
    <3>2. OneSnapshot(y, y.found)
      BY <1>2, <1>5, <1>7, <3>1 DEF OneSnapshot
    <3> QED
      BY <1>5, <1>6, <1>7, <2>1, <3>1, <3>2 DEF CallInv
  <2>2. CASE x.ask # <<>>
    <3>1. 1 \in 1 .. Len(x.ask)
      BY <1>2, <2>2, EmptySeq
    <3> QED
      BY <1>5, <1>6, <1>7, <2>2, <3>1 DEF CallInv
  <2> QED
    BY <2>1, <2>2
<1> QED
  BY <1>1, <1>2, <1>3, <1>4, <1>8, CallChanges

\* An answer goes to the result and to the map.
LEMMA InsertKeySteps == ASSUME CInv, NEW c \in Clients, InsertKey(c) PROVE CInv'
<1> DEFINE x == call[c]
           k == x.ask[x.i]
           v == x.response[k]
           f == With(x.found, k, v)
           at == IF x.i = Len(x.ask) THEN "ok" ELSE x.at
           y == [x EXCEPT !.found = f, !.i = @ + 1, !.at = at]
<1>1. /\ x.at = "servedMany" /\ cache' = [cache EXCEPT ![k] = v]
      /\ call' = [call EXCEPT ![c] = y] /\ UNCHANGED <<history, resetAt, faults>>
  BY DEF InsertKey
<1>2. /\ x \in CallType /\ CallInv(x) /\ x.ask \in Seq(Keys) /\ x.keys \in Seq(Keys) /\ x.i \in Nat
      /\ x.found \in Maps /\ MapInv /\ faults' \in 0 .. MaxFaults
  BY <1>1, CallFacts
<1>3. /\ x.i \in 1 .. Len(x.ask) /\ DOMAIN x.found \cup Range(x.ask) = Range(x.keys)
      /\ DOMAIN x.response = Range(x.ask) /\ OneSnapshot(x, x.response) /\ Inserted(x)
      /\ x.since <= Now /\ resetAt <= x.since
      /\ \A j \in DOMAIN x.found : Fresh(j, x.found[j])
  BY <1>1, <1>2 DEF CallInv
<1>4. k \in Range(x.ask)
  BY <1>2, <1>3, KeysRange
<1>5. k \in Keys /\ v \in Values /\ Keyed(k, v) /\ Fresh(k, v)
  BY <1>1, <1>4, AnswerFresh
<1>6. MapInv'
  BY <1>1, <1>2, <1>5, MapInsert
<1>7. /\ f \in Maps /\ DOMAIN f = DOMAIN x.found \cup {k} /\ f[k] = v
      /\ \A j \in DOMAIN x.found \ {k} : f[j] = x.found[j]
  <2> HIDE DEF v, k, x
  <2> QED
    BY <1>2, <1>5, WithFacts
<1> HIDE DEF f
<1>8. /\ y \in CallType /\ y.at = at /\ y.i = x.i + 1 /\ y.found = f
      /\ y.ask = x.ask /\ y.keys = x.keys /\ y.since = x.since /\ y.response = x.response
  <2>1. x \in CallType /\ x.i + 1 \in Nat /\ f \in Maps /\ at \in CallStages
    BY <1>1, <1>2, <1>7 DEF CallStages
  <2> HIDE DEF x, at
  <2> QED
    BY ONLY <2>1 DEF CallType, y
<1> HIDE DEF y
<1>9. Inserted(y)
  <2> SUFFICES ASSUME NEW j \in 1 .. x.i
               PROVE  x.ask[j] \in DOMAIN f /\ f[x.ask[j]] = x.response[x.ask[j]]
    BY <1>2, <1>8 DEF Inserted
  <2>1. CASE x.ask[j] = k
    BY <1>7, <2>1
  <2>2. CASE x.ask[j] # k
    <3>1. j \in 1 .. x.i - 1
      BY <1>2, <2>2
    <3> QED
      BY <1>3, <1>7, <2>2, <3>1 DEF Inserted
  <2> QED
    BY <2>1, <2>2
<1>10. DOMAIN f \cup Range(x.ask) = Range(x.keys) /\ \A j \in DOMAIN f : Fresh(j, f[j])
  <2> HIDE DEF v, k
  <2> QED
    BY <1>3, <1>4, <1>5, <1>7
<1> HIDE DEF k, v, x
<1>11. CallInv(y)
  <2>1. CASE x.i = Len(x.ask)
    <3>1. \A j \in 1 .. Len(x.ask) : x.ask[j] \in DOMAIN f /\ f[x.ask[j]] = x.response[x.ask[j]]
      BY <1>2, <1>8, <1>9, <2>1 DEF Inserted
    <3>2. \A j \in Range(x.ask) : j \in DOMAIN f /\ f[j] = x.response[j]
      BY <1>2, <3>1, KeysRange
    <3>3. DOMAIN f = Range(x.keys)
      BY <1>10, <3>2
    <3>4. OneSnapshot(y, y.found)
      BY <1>3, <1>8, <3>2 DEF OneSnapshot
    <3> QED
      BY <1>3, <1>8, <1>10, <2>1, <3>3, <3>4 DEF CallInv
  <2>2. CASE x.i # Len(x.ask)
    <3>1. y.i \in 1 .. Len(y.ask)
      BY <1>2, <1>3, <1>8, <2>2, KeysRange
    <3>2. OneSnapshot(y, y.response)
      BY <1>3, <1>8 DEF OneSnapshot
    <3> QED
      BY <1>1, <1>3, <1>8, <1>9, <1>10, <2>2, <3>1, <3>2 DEF CallInv
  <2> QED
    BY <2>1, <2>2
<1> QED
  BY <1>1, <1>2, <1>6, <1>8, <1>11, CallChanges DEF x

\* The cache is cleared when no call is under way, so no call remembers what
\* was true before.
LEMMA ResetSteps == ASSUME CInv, Reset PROVE CInv'
<1>1. /\ \A c \in Clients : call[c].at = "idle"
      /\ cache' = [k \in Keys |-> Absent] /\ resetAt' = Now
      /\ UNCHANGED <<history, call, faults>>
  BY DEF Reset, NoneUnderWay
<1>2. Now' = Now
  BY <1>1 DEF Now
<1>3. HistoryInv'
  BY <1>1, <1>2, ChainFacts DEF CInv, HistoryInv
<1>4. MapInv'
  BY <1>1 DEF MapInv
<1>5. ASSUME NEW c \in Clients PROVE CallInv(call[c])'
  <2>1. CallInv(call[c]) /\ call[c].at = "idle"
    BY <1>1, CallFacts
  <2> QED
    BY <1>1, <1>2, <2>1 DEF CallInv
<1> QED
  BY <1>1, <1>3, <1>4, <1>5 DEF CInv, CallsInv

\* What was true of the chain's past stays true.
LEMMA ChainSteps == ASSUME CInv, NEW w \in Writes, ChainStep(w) PROVE CInv'
<1>1. /\ HistoryInv' /\ Now' = Now + 1 /\ \A t \in 1 .. Now : history'[t] = history[t]
  BY ChainGrows DEF CInv
<1>2. UNCHANGED <<cache, call, resetAt, faults>>
  BY DEF ChainStep
<1>3. Now \in Nat /\ resetAt \in Nat /\ resetAt >= 1
  BY ChainFacts DEF CInv
<1>4. \A k, v : Fresh(k, v) => Fresh(k, v)'
  <2> SUFFICES ASSUME NEW k, NEW v, Fresh(k, v) PROVE Fresh(k, v)'
    OBVIOUS
  <2>1. PICK t \in resetAt .. Now : history[t][k] = v
    BY DEF Fresh, HeldSince
  <2>2. t \in resetAt' .. Now' /\ history'[t][k] = v
    BY <1>1, <1>2, <1>3, <2>1
  <2> QED
    BY <2>2 DEF Fresh, HeldSince
<1>5. MapInv'
  BY <1>2, <1>4 DEF CInv, MapInv
<1>6. ASSUME NEW c \in Clients PROVE CallInv(call[c])'
  <2> DEFINE x == call[c]
  <2>1. x' = x
    BY <1>2
  <2>2. x \in CallType /\ CallInv(x) /\ x.since \in Nat
    BY CallFacts
  <2> HIDE DEF x
  <2>3. ASSUME NEW f, OneSnapshot(x, f), x.at # "idle"
        PROVE  \E s \in x.since .. Now' : \A k \in Range(x.ask) : f[k] = history'[s][k]
    <3>1. PICK s \in x.since .. Now : \A k \in Range(x.ask) : f[k] = history[s][k]
      BY <2>3 DEF OneSnapshot
    <3>2. s \in 1 .. Now /\ s \in x.since .. Now'
      BY <1>1, <1>3, <2>2, <2>3, <3>1 DEF CallInv
    <3> QED
      BY <1>1, <3>1, <3>2
  <2>4. \A k \in DOMAIN x.found : Fresh(k, x.found[k])'
    BY <1>4, <2>1, <2>2 DEF CallInv
  <2>5. x.at \in {"servedOne", "servedMany"} => OneSnapshot(x, x.response)'
    BY <2>1, <2>2, <2>3 DEF CallInv, OneSnapshot
  <2>6. x.at = "ok" => OneSnapshot(x, x.found)'
    BY <2>1, <2>2, <2>3 DEF CallInv, OneSnapshot
  <2>7. x.since <= Now'
    BY <1>1, <1>3, <2>2 DEF CallInv
  <2>8. CallInv(x)'
    BY <1>2, <2>1, <2>2, <2>4, <2>5, <2>6, <2>7 DEF CallInv, Read, Inserted
  <2> QED
    BY <2>8 DEF x
<1> QED
  BY <1>1, <1>2, <1>5, <1>6 DEF CInv, CallsInv

LEMMA CacheInitInv == CacheInit => CInv
<1> SUFFICES ASSUME CacheInit PROVE CInv
  OBVIOUS
<1> DEFINE first == [k \in Keys |-> Written(k, 1, Genesis[k])]
<1>1. first \in States
  <2>1. \A k \in Keys : Written(k, 1, Genesis[k]) \in Values /\ Keyed(k, Written(k, 1, Genesis[k]))
    BY CacheAssumption, WrittenKeyed
  <2> QED
    BY <2>1 DEF States, AllKeyed
<1>2. history = <<first>> /\ resetAt = 1 /\ faults = 0
  BY DEF CacheInit
<1> HIDE DEF first
<1>3. history \in Seq(States) /\ Now = 1
  BY <1>1, <1>2 DEF Now
<1>4. HistoryInv
  BY <1>2, <1>3, CacheAssumption DEF HistoryInv
<1>5. MapInv
  BY DEF CacheInit, MapInv
<1>6. CallInv(NoCall)
  BY <1>4, IdleCall, EmptyMap, ChainFacts DEF CallInv
<1>7. CallsInv
  BY <1>6, IdleCall DEF CacheInit, CallsInv
<1> QED
  BY <1>4, <1>5, <1>7 DEF CInv

LEMMA CacheNextInv == CInv /\ [CacheNext]_cacheVars => CInv'
<1> SUFFICES ASSUME CInv, [CacheNext]_cacheVars PROVE CInv'
  OBVIOUS
<1>1. CASE \E w \in Writes : ChainStep(w)
  BY <1>1, ChainSteps
<1>2. ASSUME NEW c \in Clients,
             \/ \E k \in Keys : GetAccount(c, k)
             \/ \E ks \in Requests : GetAccounts(c, ks)
             \/ CallStep(c) \/ RpcFail(c) \/ Return(c) \/ Drop(c)
      PROVE  CInv'
  BY <1>2, GetAccountSteps, GetAccountsSteps, ReadKeySteps, AskSteps, InsertKeySteps,
     ReceiveOneSteps, ServeSteps, RpcFailSteps, ReturnSteps, CacheAssumption DEF CallStep
<1>3. CASE Reset
  BY <1>3, ResetSteps
<1>4. CASE UNCHANGED cacheVars
  BY <1>4 DEF cacheVars, CInv, HistoryInv, MapInv, CallsInv, CallInv, OneSnapshot, Read, Inserted,
     Fresh, HeldSince, Now
<1> QED
  BY <1>1, <1>2, <1>3, <1>4 DEF CacheNext

LEMMA CacheInductive == CacheSpec => []CInv
BY CacheInitInv, CacheNextInv, PTL DEF CacheSpec

\* The invariant gives the types.
LEMMA CacheInvTypes == CInv => CacheTypeOK
<1> SUFFICES ASSUME CInv PROVE CacheTypeOK
  OBVIOUS
<1>1. /\ history \in Seq(States) /\ Now \in 1 .. MaxSlot /\ resetAt \in 1 .. Now
      /\ faults \in 0 .. MaxFaults
  BY DEF CInv, HistoryInv
<1>2. ASSUME NEW t \in 1 .. Now PROVE DOMAIN history[t] = Keys /\ IsMap(history[t])
  <2>1. history[t] \in States
    BY <1>1, ElementOfSeq DEF Now
  <2> QED
    BY <2>1 DEF States, AllKeyed, IsMap
<1>3. DOMAIN cache = Keys /\ \A k \in Keys : cache[k] = Absent \/ Keyed(k, cache[k])
  BY DEF CInv, MapInv
<1>4. ASSUME NEW c \in Clients PROVE CallTypeOK(call[c])
  <2>1. IsMap(call[c].found) /\ IsMap(call[c].response)
    BY CallFacts, MapFacts DEF IsMap
  <2>2. call[c].since \in 0 .. Now
    BY CallFacts, ChainFacts DEF CallInv
  <2> QED
    BY <2>1, <2>2, CallFacts DEF CallTypeOK
<1> QED
  BY <1>1, <1>2, <1>3, <1>4 DEF CacheTypeOK

-----------------------------------------------------------------------------
(* What callers may rely on. *)

\* Every entry of the map, every answer and every result of a key is that key's
\* account as some transaction wrote it, or the news that it is missing: the
\* answers of a batched request are never paired with the wrong keys, whatever
\* keys are repeated and however calls interleave (rpc_cache.rs:136-148).
THEOREM CacheTypes == CacheSpec => []CacheTypeOK
BY CacheInductive, CacheInvTypes, PTL

\* No entry and no result is older than the last reset, however long the answer
\* was under way: an answer belongs to a call, and the reset's exclusive borrow
\* waits for every call to end (lines 56-58, 100-101, 144-148).
THEOREM CacheStaysFresh == CacheSpec => []FreshSinceReset
<1>1. CInv => FreshSinceReset
  BY CallFacts DEF CInv, MapInv, CallInv, Fresh, FreshSinceReset
<1> QED
  BY CacheInductive, <1>1, PTL

\* What a call had to ask for is returned as it was at one moment of the call,
\* whatever other calls put into the map between its inserts (lines 136-148).
THEOREM AskedAtOnce == CacheSpec => []AskedAreOneSnapshot
<1>1. CInv => AskedAreOneSnapshot
  BY CallFacts DEF CallInv, OneSnapshot, AskedAreOneSnapshot
<1> QED
  BY CacheInductive, <1>1, PTL

\* A call that succeeds has found every key it was given, repeated ones and ones
\* cached as `None' included: the unwrap of line 155 never panics.
THEOREM EveryKeyAnswered == CacheSpec => []ResultComplete
<1>1. CInv => ResultComplete
  BY CallFacts DEF CallInv, ResultComplete
<1> QED
  BY CacheInductive, <1>1, PTL
=============================================================================
