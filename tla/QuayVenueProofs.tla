-------------------------- MODULE QuayVenueProofs --------------------------
(***************************************************************************)
(* What a venue that quotes is made of, for every set of venues that share *)
(* a cache, every binding and every history of the chain.                  *)
(***************************************************************************)
EXTENDS QuayVenue, AccountsCacheProofs

\* A venue's fields; it is being refreshed only after it was built, and an
\* update asks for the binding that it will compare the answer with.
FieldsInv ==
    /\ venue = [v \in Venues |-> venue[v]]
    /\ \A v \in Venues : venue[v] \in VenueType(v)
    /\ loaded \subseteq Venues
    /\ \A v \in Venues : v \notin loaded => venue[v] = Unbuilt(v)
    /\ \A v \in Venues : call[v].at # "idle" => v \in loaded /\ call[v].keys = Required(v)

\* What the fields say of the accounts they were decoded from.
Strategy(v) == venue[v].blob[StrategyOf(v)]
DecodedInv ==
    \A v \in Venues :
        /\ venue[v].halts = {} => \A k \in Core(v) : /\ venue[v].blob[k] # Empty
                                                   /\ ~ venue[v].blob[k].data.halted
        /\ venue[v].routed => Strategy(v) # Empty /\ Strategy(v).data.routed
        /\ Strategy(v) # Empty => venue[v].extKeys = Strategy(v).data.binding
        /\ Len(venue[v].extData) = Len(venue[v].extKeys) =>
             \A i \in DOMAIN venue[v].extKeys : venue[v].extData[i].key = venue[v].extKeys[i]

VInv == CInv /\ FieldsInv /\ DecodedInv

\* When nobody else fills the cache, a call that found it empty asks for
\* everything.
OneVenue == \A u, v \in Venues : u = v
AllAsked(x) ==
    /\ x.at \notin {"sentOne", "servedOne"}
    /\ x.at = "read" => DOMAIN x.found = {} /\ \A k \in Keys : cache[k] = Absent
    /\ x.at \in {"sentMany", "servedMany", "ok"} => Range(x.ask) = Range(x.keys)

\* The moment that a venue's accounts were read at.
PricedAt(v, s) ==
    /\ \A k \in Core(v) : venue[v].blob[k] = history[s][k]
    /\ \A i \in DOMAIN venue[v].extKeys : venue[v].extData[i] = history[s][venue[v].extKeys[i]]

PricedInv == OneVenue /\ ResetEach => \A v \in Venues :
    /\ AllAsked(call[v])
    /\ venue[v].halts = {} /\ Len(venue[v].extData) = Len(venue[v].extKeys)
         => \E s \in 1 .. Now : PricedAt(v, s)

-----------------------------------------------------------------------------
(* What a venue asks for and what it is answered. *)

\* The fixed slots are keys, the strategy first.
LEMMA CoreFacts ==
    ASSUME NEW v \in Venues
    PROVE  /\ CoreOf[v] \in Seq(Keys) /\ Core(v) \subseteq Keys
           /\ StrategyOf(v) \in Core(v) /\ Core(v) # {} /\ BlobsOf[v] \subseteq Core(v)
<1>1. CoreOf[v] \in Seq(Keys) /\ CoreOf[v] # <<>> /\ BlobsOf[v] \subseteq Core(v)
  BY VenueAssumption DEF Core
<1>2. 1 \in 1 .. Len(CoreOf[v])
  BY <1>1, EmptySeq
<1> QED
  BY <1>1, <1>2, KeysRange DEF Core, StrategyOf

\* What an account says of the venue.
LEMMA DataFacts ==
    ASSUME NEW a \in Content
    PROVE  /\ a # Missing /\ a # Empty /\ a.key \in Keys
           /\ a.data.ok \in BOOLEAN /\ a.data.halted \in BOOLEAN /\ a.data.routed \in BOOLEAN
           /\ a.data.binding \in Seq(Keys)
<1>1. a.key \in Keys /\ a.data \in Data
  BY DEF Content
<1>2. a.data \in DataType
  BY <1>1, VenueAssumption
<1> QED
  BY <1>1, <1>2, VenueAssumption, CacheAssumption DEF DataType

\* A refresh asks for the fixed slots and for the binding.
LEMMA RequiredFacts ==
    ASSUME NEW v \in Venues, venue[v].extKeys \in Seq(Keys)
    PROVE  /\ Required(v) \in Seq(Keys)
           /\ Core(v) \subseteq Range(Required(v))
           /\ Range(venue[v].extKeys) \subseteq Range(Required(v))
<1> DEFINE s == CoreOf[v]
           t == venue[v].extKeys
           r == s \o t
<1>1. s \in Seq(Keys) /\ t \in Seq(Keys)
  BY CoreFacts
<1> HIDE DEF s, t
<1>2. /\ r \in Seq(Keys) /\ Len(r) = Len(s) + Len(t)
      /\ \A i \in 1 .. Len(s) + Len(t) : r[i] = IF i <= Len(s) THEN s[i] ELSE t[i - Len(s)]
  BY <1>1, ConcatProperties
<1>3. Len(s) \in Nat /\ Len(t) \in Nat
  BY <1>1, LenProperties
<1> HIDE DEF r
<1>4. ASSUME NEW k \in Range(s) PROVE k \in Range(r)
  <2>1. PICK i \in 1 .. Len(s) : k = s[i]
    BY <1>1, KeysRange
  <2>2. i \in 1 .. Len(r) /\ r[i] = k
    BY <1>2, <1>3, <2>1
  <2> QED
    BY <1>2, <2>2, KeysRange
<1>5. ASSUME NEW k \in Range(t) PROVE k \in Range(r)
  <2>1. PICK i \in 1 .. Len(t) : k = t[i]
    BY <1>1, KeysRange
  <2>2. Len(s) + i \in 1 .. Len(r) /\ r[Len(s) + i] = k
    BY <1>2, <1>3, <2>1
  <2> QED
    BY <1>2, <2>2, KeysRange
<1> QED
  BY <1>2, <1>4, <1>5 DEF Required, Core, r, s, t

\* A refresh that was answered has every fixed slot and every account of the
\* binding it was asked under, each an account of its key or missing.
LEMMA Answered ==
    ASSUME CInv, FieldsInv, NEW v \in Venues, call[v].at = "ok"
    PROVE  /\ Core(v) \subseteq DOMAIN call[v].found
           /\ Range(venue[v].extKeys) \subseteq DOMAIN call[v].found
           /\ DOMAIN call[v].found = Range(Required(v))
           /\ \A k \in DOMAIN call[v].found : Keyed(k, Fetched(v, k))
<1>1. /\ call[v].found \in Maps /\ CallInv(call[v])
  BY CallFacts DEF Venues
<1>2. call[v].keys = Required(v) /\ venue[v].extKeys \in Seq(Keys)
  BY DEF FieldsInv, VenueType
<1>3. DOMAIN call[v].found = Range(Required(v))
  BY <1>1, <1>2 DEF CallInv
<1> QED
  BY <1>1, <1>2, <1>3, RequiredFacts, MapFacts DEF Fetched

\* A step of the cache leaves the keys of the calls under way alone, and starts
\* none.
LEMMA KeepsKeys ==
    ASSUME CInv, NEW v \in Venues, CallStep(v) \/ RpcFail(v) \/ Drop(v) \/ Return(v)
    PROVE  \A u \in Venues : call'[u].at # "idle" =>
               call[u].at # "idle" /\ call'[u].keys = call[u].keys
<1>1. call \in [Clients -> CallType]
  BY DEF CInv, CallsInv
<1>2. NoCall.at = "idle"
  BY IdleCall
<1>3. CASE Drop(v) \/ Return(v)
  BY <1>1, <1>2, <1>3 DEF Drop, Return, Venues
<1>4. CASE RpcFail(v)
  BY <1>1, <1>4 DEF RpcFail, CallType, Venues
<1>5. CASE Serve(v)
  BY <1>1, <1>5 DEF Serve, CallType, Venues
<1>6. CASE ReceiveOne(v)
  BY <1>1, <1>6 DEF ReceiveOne, CallType, Venues
<1>7. CASE ReadKey(v)
  BY <1>1, <1>7 DEF ReadKey, CallType, Venues
<1>8. CASE Ask(v)
  BY <1>1, <1>8 DEF Ask, CallType, Venues
<1>9. CASE InsertKey(v)
  BY <1>1, <1>9 DEF InsertKey, CallType, Venues
<1> QED
  BY <1>3, <1>4, <1>5, <1>6, <1>7, <1>8, <1>9 DEF CallStep

\* The venues use the cache as any client does.
LEMMA VenueUsesCache ==
    ASSUME CInv, FieldsInv, [VenueNext]_venueVars
    PROVE  CInv'
<1>1. CASE CacheAlone
  BY <1>1, ChainSteps, ReadKeySteps, AskSteps, InsertKeySteps, ReceiveOneSteps, ServeSteps,
     RpcFailSteps, ReturnSteps, ResetSteps DEF CacheAlone, CallStep, Venues
<1>2. ASSUME NEW v \in Venues, Update(v) PROVE CInv'
  <2>1. Required(v) \in Seq(Keys)
    BY RequiredFacts DEF FieldsInv, VenueType
  <2> QED
    BY <1>2, <2>1, GetAccountsSteps DEF Update, Venues
<1>3. ASSUME NEW v \in Venues, Commit(v) \/ Refuse(v) PROVE CInv'
  BY <1>3, ReturnSteps DEF Commit, Refuse, Venues
<1>4. CASE UNCHANGED cacheVars
  BY <1>4, CacheNextInv
<1> QED
  BY <1>1, <1>2, <1>3, <1>4 DEF VenueNext, Load, venueVars

-----------------------------------------------------------------------------
(* The fields, and the accounts they were decoded from. *)

\* One venue's fields are what they should be.
DecodedOf(v, f) ==
    /\ f.halts = {} => \A k \in Core(v) : f.blob[k] # Empty /\ ~ f.blob[k].data.halted
    /\ f.routed => f.blob[StrategyOf(v)] # Empty /\ f.blob[StrategyOf(v)].data.routed
    /\ f.blob[StrategyOf(v)] # Empty => f.extKeys = f.blob[StrategyOf(v)].data.binding
    /\ Len(f.extData) = Len(f.extKeys) =>
         \A i \in DOMAIN f.extKeys : f.extData[i].key = f.extKeys[i]

LEMMA DecodedEach == DecodedInv <=> \A v \in Venues : DecodedOf(v, venue[v])
BY DEF DecodedInv, DecodedOf, Strategy

\* A venue that was not built yet has no account, and does not quote.
LEMMA UnbuiltFacts ==
    ASSUME NEW v \in Venues
    PROVE  Unbuilt(v) \in VenueType(v) /\ DecodedOf(v, Unbuilt(v))
<1>1. /\ <<>> \in Seq(Keys) /\ <<>> \in Seq(Content) /\ DOMAIN <<>> = {}
  BY EmptySeq, LenProperties
<1>2. Unbuilt(v) \in VenueType(v)
  BY <1>1 DEF Unbuilt, VenueType
<1>3. Unbuilt(v).halts # {} /\ Unbuilt(v).blob[StrategyOf(v)] = Empty
  BY CoreFacts DEF Unbuilt
<1> QED
  BY <1>1, <1>2, <1>3 DEF DecodedOf, Unbuilt

\* from_account takes the strategy's flags and binding; the other slots stay
\* empty and halted.
LEMMA LoadFacts ==
    ASSUME NEW v \in Venues, NEW a \in Content, NEW f,
           f = [Unbuilt(v) EXCEPT !.blob[StrategyOf(v)] = a, !.routed = a.data.routed,
                                  !.extKeys = a.data.binding]
    PROVE  f \in VenueType(v) /\ DecodedOf(v, f)
<1>1. /\ a # Empty /\ a.data.routed \in BOOLEAN /\ a.data.binding \in Seq(Keys)
  BY DataFacts
<1>2. /\ f.blob = [Unbuilt(v).blob EXCEPT ![StrategyOf(v)] = a] /\ f.halts = Core(v)
      /\ f.routed = a.data.routed /\ f.extKeys = a.data.binding /\ f.extData = <<>>
  BY DEF Unbuilt
<1>3. /\ f.blob \in [Core(v) -> Content \cup {Empty}] /\ f.blob[StrategyOf(v)] = a
  BY <1>2, CoreFacts DEF Unbuilt
<1>4. f \in VenueType(v)
  <2>1. <<>> \in Seq(Content)
    BY EmptySeq
  <2>2. f = [blob |-> f.blob, halts |-> f.halts, routed |-> f.routed, extKeys |-> f.extKeys,
             extData |-> f.extData]
    BY DEF Unbuilt
  <2> QED
    BY <1>1, <1>2, <1>3, <2>1, <2>2 DEF VenueType
<1>5. Len(f.extData) = Len(f.extKeys) => DOMAIN f.extKeys = {}
  BY <1>1, <1>2, EmptySeq, LenProperties
<1> QED
  BY <1>1, <1>2, <1>3, <1>4, <1>5, CoreFacts DEF DecodedOf

\* What a commit writes.
Committed(v) == [blob |-> [k \in Core(v) |-> Fetched(v, k)], halts |-> HaltsIn(v),
                 routed |-> Fetched(v, StrategyOf(v)).data.routed,
                 extKeys |-> FreshKeys(v), extData |-> ExtData(v)]

\* The external accounts are those of the fresh binding, in its order, or none.
LEMMA ExtFacts ==
    ASSUME CInv, FieldsInv, NEW v \in Venues, call[v].at = "ok", \A k \in Core(v) : Resolves(v, k)
    PROVE  /\ FreshKeys(v) \in Seq(Keys) /\ ExtData(v) \in Seq(Content)
           /\ Len(ExtData(v)) = Len(FreshKeys(v)) =>
                \A i \in DOMAIN FreshKeys(v) :
                    /\ FreshKeys(v)[i] \in Range(Required(v))
                    /\ ExtData(v)[i] = Fetched(v, FreshKeys(v)[i])
                    /\ ExtData(v)[i].key = FreshKeys(v)[i]
<1> DEFINE b == FreshKeys(v)
           d == [i \in DOMAIN b |-> Fetched(v, b[i])]
<1>1. /\ \A k \in DOMAIN call[v].found : Keyed(k, Fetched(v, k))
      /\ Core(v) \subseteq DOMAIN call[v].found
      /\ Range(venue[v].extKeys) \subseteq DOMAIN call[v].found
      /\ DOMAIN call[v].found = Range(Required(v))
  BY Answered
<1>2. b \in Seq(Keys)
  BY <1>1, CoreFacts, DataFacts DEF FreshKeys, Resolves, Keyed
<1> HIDE DEF b
<1>3. DOMAIN b = 1 .. Len(b) /\ Len(b) \in Nat /\ \A i \in DOMAIN b : b[i] \in Range(b)
  BY <1>2, LenProperties, KeysRange
<1>4. CASE b = venue[v].extKeys /\ \A i \in DOMAIN b : Fetched(v, b[i]) # Missing
  <2>1. ExtData(v) = d
    BY <1>4 DEF ExtData, b
  <2>2. \A i \in DOMAIN b : /\ b[i] \in Range(Required(v))
                            /\ Fetched(v, b[i]) \in Content /\ Fetched(v, b[i]).key = b[i]
    BY <1>1, <1>3, <1>4 DEF Keyed
  <2>3. d \in [1 .. Len(b) -> Content]
    BY <1>3, <2>2
  <2>4. d \in Seq(Content)
    BY <1>3, <2>3, IsASeq
  <2> QED
    BY <1>2, <2>1, <2>2, <2>4 DEF b
<1>5. CASE ~ (b = venue[v].extKeys /\ \A i \in DOMAIN b : Fetched(v, b[i]) # Missing)
  <2>1. ExtData(v) = <<>>
    BY <1>5 DEF ExtData, b
  <2>2. <<>> \in Seq(Content) /\ Len(<<>>) = 0
    BY EmptySeq
  <2>3. Len(b) = 0 => DOMAIN b = {}
    BY <1>3
  <2> QED
    BY <1>2, <2>1, <2>2, <2>3 DEF b
<1> QED
  BY <1>4, <1>5

LEMMA CommitFacts ==
    ASSUME CInv, FieldsInv, NEW v \in Venues, call[v].at = "ok", \A k \in Core(v) : Resolves(v, k)
    PROVE  Committed(v) \in VenueType(v) /\ DecodedOf(v, Committed(v))
<1>1. \A k \in Core(v) : Fetched(v, k) \in Content
  BY Answered DEF Resolves, Keyed
<1>2. \A k \in Core(v) : Fetched(v, k) # Empty /\ Fetched(v, k).data.routed \in BOOLEAN
  BY <1>1, DataFacts
<1>3. /\ FreshKeys(v) \in Seq(Keys) /\ ExtData(v) \in Seq(Content)
      /\ Len(ExtData(v)) = Len(FreshKeys(v)) =>
           \A i \in DOMAIN FreshKeys(v) : ExtData(v)[i].key = FreshKeys(v)[i]
  BY ExtFacts
<1>4. StrategyOf(v) \in Core(v) /\ HaltsIn(v) \subseteq Core(v)
  BY CoreFacts DEF HaltsIn
<1>5. HaltsIn(v) = {} => \A k \in Core(v) : ~ Fetched(v, k).data.halted
  BY DEF HaltsIn
<1>6. FreshKeys(v) = Fetched(v, StrategyOf(v)).data.binding
  BY DEF FreshKeys
<1>7. Committed(v) \in VenueType(v)
  BY <1>1, <1>2, <1>3, <1>4 DEF Committed, VenueType
<1> QED
  BY <1>2, <1>3, <1>4, <1>5, <1>6, <1>7 DEF Committed, DecodedOf

-----------------------------------------------------------------------------
(* Every step keeps the fields. *)

\* Only one venue's fields change at a time.
LEMMA FieldsChange ==
    ASSUME FieldsInv, DecodedInv, NEW v \in Venues, NEW f \in VenueType(v), DecodedOf(v, f),
           venue' = [venue EXCEPT ![v] = f]
    PROVE  /\ venue' = [u \in Venues |-> venue'[u]]
           /\ \A u \in Venues : venue'[u] \in VenueType(u)
           /\ \A u \in Venues : u # v => venue'[u] = venue[u]
           /\ venue'[v] = f /\ DecodedInv'
<1>1. /\ venue = [u \in Venues |-> venue[u]] /\ \A u \in Venues : venue[u] \in VenueType(u)
      /\ \A u \in Venues : DecodedOf(u, venue[u])
  BY DecodedEach DEF FieldsInv
<1>2. /\ venue' = [u \in Venues |-> venue'[u]] /\ venue'[v] = f
      /\ \A u \in Venues : u # v => venue'[u] = venue[u]
  <2>1. DOMAIN venue = Venues
    BY <1>1
  <2> QED
    BY <2>1
<1>3. \A u \in Venues : venue'[u] \in VenueType(u) /\ DecodedOf(u, venue'[u])
  <2> SUFFICES ASSUME NEW u \in Venues
               PROVE  venue'[u] \in VenueType(u) /\ DecodedOf(u, venue'[u])
    OBVIOUS
  <2>1. CASE u = v
    BY <1>2, <2>1
  <2>2. CASE u # v
    BY <1>1, <1>2, <2>2
  <2> QED
    BY <2>1, <2>2
<1>4. DecodedInv'
  BY <1>3 DEF DecodedInv, DecodedOf, Strategy
<1> QED
  BY <1>2, <1>3, <1>4

\* from_account: the venue was not built before, and no refresh of it is under way.
LEMMA LoadSteps ==
    ASSUME CInv, FieldsInv, DecodedInv, NEW v \in Venues, Load(v)
    PROVE  FieldsInv' /\ DecodedInv'
<1>1. v \notin loaded /\ venue[v] = Unbuilt(v) /\ loaded' = loaded \cup {v} /\ call' = call
  BY DEF Load, FieldsInv, cacheVars
<1>2. PICK s \in 1 .. Now :
         LET a == history[s][StrategyOf(v)] IN
         /\ a # Missing /\ a.data.ok
         /\ venue' = [venue EXCEPT ![v].blob[StrategyOf(v)] = a,
                                   ![v].routed = a.data.routed,
                                   ![v].extKeys = a.data.binding]
  BY DEF Load
<1> DEFINE a == history[s][StrategyOf(v)]
           f == [Unbuilt(v) EXCEPT !.blob[StrategyOf(v)] = a, !.routed = a.data.routed,
                                   !.extKeys = a.data.binding]
<1>3. a \in Content
  <2>1. history \in Seq(States)
    BY DEF CInv, HistoryInv
  <2>2. history[s] \in States
    BY <2>1, ElementOfSeq DEF Now
  <2> QED
    BY <1>2, <2>2, CoreFacts DEF States, AllKeyed, Keyed
<1> HIDE DEF a
<1>4. DOMAIN venue = Venues
  BY DEF FieldsInv
<1>5. venue' = [venue EXCEPT ![v].blob[StrategyOf(v)] = a, ![v].routed = a.data.routed,
                             ![v].extKeys = a.data.binding]
  BY <1>2 DEF a
<1>6. venue' = [venue EXCEPT ![v] = f]
  BY <1>1, <1>4, <1>5
<1>7. f \in VenueType(v) /\ DecodedOf(v, f)
  BY <1>3, LoadFacts
<1> HIDE DEF f
<1>8. /\ venue' = [u \in Venues |-> venue'[u]] /\ \A u \in Venues : venue'[u] \in VenueType(u)
      /\ \A u \in Venues : u # v => venue'[u] = venue[u]
      /\ DecodedInv'
  BY <1>6, <1>7, FieldsChange
<1>9. \A u \in Venues : u \notin loaded' => u # v /\ venue'[u] = Unbuilt(u)
  BY <1>1, <1>8 DEF FieldsInv
<1>10. \A u \in Venues : call'[u].at # "idle" => u \in loaded /\ u # v /\ call'[u].keys = Required(u)
  BY <1>1 DEF FieldsInv
<1>11. \A u \in Venues : u # v => Required(u)' = Required(u)
  BY <1>8 DEF Required
<1> QED
  BY <1>1, <1>8, <1>9, <1>10, <1>11 DEF FieldsInv, Unbuilt, Required

\* A refresh ends by writing all the fields or none.
LEMMA CommitSteps ==
    ASSUME CInv, FieldsInv, DecodedInv, NEW v \in Venues, Commit(v)
    PROVE  FieldsInv' /\ DecodedInv'
<1>1. /\ venue' = [venue EXCEPT ![v] = Committed(v)] /\ loaded' = loaded
      /\ call[v].at = "ok" /\ \A k \in Core(v) : Resolves(v, k)
      /\ call' = [call EXCEPT ![v] = NoCall]
  BY DEF Commit, Committed, Return
<1>2. Committed(v) \in VenueType(v) /\ DecodedOf(v, Committed(v))
  BY <1>1, CommitFacts
<1>3. /\ venue' = [u \in Venues |-> venue'[u]] /\ \A u \in Venues : venue'[u] \in VenueType(u)
      /\ \A u \in Venues : u # v => venue'[u] = venue[u]
      /\ DecodedInv'
  BY <1>1, <1>2, FieldsChange
<1>4. v \in loaded
  BY <1>1 DEF FieldsInv
<1>5. call'[v].at = "idle" /\ \A u \in Venues : u # v => call'[u] = call[u]
  BY <1>1, IdleCall DEF CInv, CallsInv, Venues
<1> QED
  BY <1>1, <1>3, <1>4, <1>5 DEF FieldsInv, Required, Unbuilt

\* The other steps leave the fields alone.
LEMMA CacheKeepsFields ==
    ASSUME FieldsInv, DecodedInv, UNCHANGED <<venue, loaded>>,
           \A u \in Venues : call'[u].at # "idle" =>
               call[u].at # "idle" /\ call'[u].keys = call[u].keys
    PROVE  FieldsInv' /\ DecodedInv'
BY DEF FieldsInv, DecodedInv, Strategy, Required, Unbuilt

LEMMA UpdateSteps ==
    ASSUME CInv, FieldsInv, DecodedInv, NEW v \in Venues, Update(v)
    PROVE  FieldsInv' /\ DecodedInv'
<1>1. /\ v \in loaded /\ UNCHANGED <<venue, loaded>>
      /\ call' = [call EXCEPT ![v] = [NoCall EXCEPT !.at = "read", !.keys = Required(v), !.i = 1,
                                                    !.since = Now]]
  BY DEF Update, GetAccounts
<1>2. call'[v].keys = Required(v) /\ \A u \in Venues : u # v => call'[u] = call[u]
  <2>1. DOMAIN call = Venues
    BY DEF CInv, CallsInv, Venues
  <2> QED
    BY <1>1, <2>1 DEF NoCall
<1>3. \A u \in Venues : call'[u].at # "idle" => u \in loaded' /\ call'[u].keys = Required(u)'
  BY <1>1, <1>2 DEF FieldsInv, Required
<1> QED
  BY <1>1, <1>3 DEF FieldsInv, DecodedInv, Strategy, Unbuilt

LEMMA VenueInitInv == VenueInit => VInv
<1> SUFFICES ASSUME VenueInit PROVE VInv
  OBVIOUS
<1>1. CInv
  BY CacheInitInv DEF VenueInit
<1>2. venue = [v \in Venues |-> Unbuilt(v)] /\ loaded = {} /\ \A v \in Venues : call[v] = NoCall
  BY DEF VenueInit, CacheInit, Venues
<1>3. FieldsInv
  BY <1>2, UnbuiltFacts, IdleCall DEF FieldsInv
<1>4. DecodedInv
  BY <1>2, UnbuiltFacts, DecodedEach
<1> QED
  BY <1>1, <1>3, <1>4 DEF VInv

LEMMA VenueNextInv == VInv /\ [VenueNext]_venueVars => VInv'
<1> SUFFICES ASSUME CInv, FieldsInv, DecodedInv, [VenueNext]_venueVars PROVE FieldsInv' /\ DecodedInv'
  BY VenueUsesCache DEF VInv
<1>1. CASE CacheAlone
  <2>1. UNCHANGED <<venue, loaded>>
    BY <1>1 DEF CacheAlone
  <2>2. CASE call' = call
    BY <2>1, <2>2, CacheKeepsFields
  <2>3. ASSUME NEW v \in Venues, CallStep(v) \/ RpcFail(v) \/ Drop(v) PROVE FieldsInv' /\ DecodedInv'
    BY <2>1, <2>3, KeepsKeys, CacheKeepsFields
  <2> QED
    BY <1>1, <2>2, <2>3 DEF CacheAlone, ChainStep, Reset
<1>2. ASSUME NEW v \in Venues, Refuse(v) PROVE FieldsInv' /\ DecodedInv'
  BY <1>2, KeepsKeys, CacheKeepsFields DEF Refuse
<1>3. CASE UNCHANGED venueVars
  BY <1>3, CacheKeepsFields DEF venueVars, cacheVars
<1> QED
  BY <1>1, <1>2, <1>3, LoadSteps, UpdateSteps, CommitSteps DEF VenueNext

LEMMA VenueInductive == VenueSpec => []VInv
BY VenueInitInv, VenueNextInv, PTL DEF VenueSpec

-----------------------------------------------------------------------------
(* The moment a venue's accounts are from. *)

\* The states the chain went through are still known.
HistoryKept == /\ Now' \in Nat /\ Now <= Now'
               /\ \A s \in 1 .. Now : history'[s] = history[s]

LEMMA StepKeepsHistory == ASSUME CInv, [VenueNext]_venueVars PROVE HistoryKept
<1>1. CASE \E w \in Writes : ChainStep(w)
  BY <1>1, ChainGrows, ChainFacts DEF CInv, HistoryKept
<1>2. CASE UNCHANGED history
  BY <1>2, ChainFacts DEF CInv, HistoryKept, Now
<1> QED
  BY <1>1, <1>2 DEF VenueNext, CacheAlone, CallStep, ReadKey, Ask, InsertKey, ReceiveOne, Serve,
     RpcFail, Drop, Reset, Load, Update, GetAccounts, Commit, Refuse, Return, venueVars, cacheVars

\* A call that found the cache empty still finds it empty while it reads, and
\* asks for every key.
LEMMA AskedForAll ==
    ASSUME VInv, VInv', PricedInv, OneVenue, ResetEach, [VenueNext]_venueVars, NEW v \in Venues
    PROVE  AllAsked(call[v])'
<1> DEFINE x == call[v]
<1>1. /\ x \in CallType /\ x.at \in CallStages /\ CallInv(x) /\ AllAsked(x)
      /\ x.ask \in Seq(Keys) /\ x.keys \in Seq(Keys) /\ x.i \in Nat
      /\ call = [u \in Venues |-> call[u]]
  BY CallFacts DEF PricedInv, VInv, CInv, CallsInv, Venues
<1>2. \A u \in Venues : u = v
  BY DEF OneVenue
<1>3. CASE x' = x /\ cache' = cache
  BY <1>1, <1>3 DEF AllAsked
<1>4. CASE Reset
  BY <1>1, <1>4 DEF Reset, NoneUnderWay, AllAsked, Venues
<1>5. CASE ReadKey(v)
  <2>1. /\ x.at = "read" /\ x.i <= Len(x.keys) /\ cache' = cache
        /\ call' = [call EXCEPT ![v].i = @ + 1,
                       ![v].found = IF Hit(x.keys[x.i]) THEN With(@, x.keys[x.i], cache[x.keys[x.i]]) ELSE @,
                       ![v].ask = IF Hit(x.keys[x.i]) THEN @ ELSE Append(@, x.keys[x.i])]
    BY <1>5 DEF ReadKey
  <2>2. x.i \in 1 .. Len(x.keys)
    BY <1>1, <2>1, KeysRange DEF CallInv
  <2>3. x.keys[x.i] \in Keys
    BY <1>1, <2>2, KeysRange
  <2>4. ~ Hit(x.keys[x.i])
    BY <1>1, <2>1, <2>3 DEF AllAsked, Hit
  <2>5. x'.at = "read" /\ x'.found = x.found
    BY <1>1, <2>1, <2>4 DEF CallType
  <2> HIDE DEF x
  <2> QED
    BY <1>1, <2>1, <2>5 DEF AllAsked, x
<1>6. CASE Ask(v)
  <2>1. /\ x.at = "read"
        /\ call' = [call EXCEPT ![v].at = IF x.ask = <<>> THEN "ok" ELSE "sentMany", ![v].i = 1]
    BY <1>6 DEF Ask
  <2>2. /\ x'.at = (IF x.ask = <<>> THEN "ok" ELSE "sentMany")
        /\ x'.ask = x.ask /\ x'.keys = x.keys /\ x'.found = x.found
    BY <1>1, <2>1 DEF CallType
  <2>3. DOMAIN x.found = {}
    BY <1>1, <2>1 DEF AllAsked
  <2>4. x' \in CallType /\ CallInv(x)'
    BY DEF VInv, CInv, CallsInv, Venues
  <2> HIDE DEF x
  <2>5. CASE x.ask = <<>>
    <3>1. Range(x.ask) = {}
      BY <2>5, EmptySeq DEF Range
    <3>2. {} = Range(x.keys)
      BY <2>2, <2>3, <2>4, <2>5 DEF CallInv
    <3> QED
      BY <2>2, <2>5, <3>1, <3>2 DEF AllAsked, x
  <2>6. CASE x.ask # <<>>
    <3>1. {} \cup Range(x.ask) = Range(x.keys)
      BY <2>2, <2>3, <2>4, <2>6 DEF CallInv
    <3> QED
      BY <2>2, <2>6, <3>1 DEF AllAsked, x
  <2> QED
    BY <2>5, <2>6
<1>7. CASE Serve(v)
  <2>1. x.at = "sentMany"
    BY <1>1, <1>7 DEF Serve, AllAsked
  <2>2. x'.at = "servedMany" /\ x'.ask = x.ask /\ x'.keys = x.keys
    BY <1>1, <1>7, <2>1 DEF Serve, CallType
  <2> QED
    BY <1>1, <2>1, <2>2 DEF AllAsked
<1>8. CASE InsertKey(v)
  <2>1. x.at = "servedMany"
    BY <1>8 DEF InsertKey
  <2>2. x'.at \in {"servedMany", "ok"} /\ x'.ask = x.ask /\ x'.keys = x.keys
    BY <1>1, <1>8, <2>1 DEF InsertKey, CallType
  <2> QED
    BY <1>1, <2>1, <2>2 DEF AllAsked
<1>9. CASE ReceiveOne(v)
  BY <1>1, <1>9 DEF ReceiveOne, AllAsked
<1>10. CASE RpcFail(v)
  <2>1. x'.at = "err"
    BY <1>1, <1>10 DEF RpcFail, CallType
  <2> QED
    BY <2>1 DEF AllAsked
<1>11. CASE Drop(v) \/ Return(v)
  <2>1. x'.at = "idle"
    BY <1>1, <1>11, IdleCall DEF Drop, Return
  <2> QED
    BY <2>1 DEF AllAsked
<1>12. CASE Update(v)
  <2>1. /\ \A k \in Keys : cache[k] = Absent
        /\ call' = [call EXCEPT ![v] = [NoCall EXCEPT !.at = "read", !.keys = Required(v), !.i = 1,
                                                      !.since = Now]]
        /\ cache' = cache
    BY <1>12 DEF Update, GetAccounts
  <2>2. x'.at = "read" /\ x'.found = NoValues
    BY <1>1, <2>1, IdleCall DEF NoCall
  <2> QED
    BY <2>1, <2>2, EmptyMap DEF AllAsked
<1>13. CASE \E w \in Writes : ChainStep(w)
  BY <1>3, <1>13 DEF ChainStep
<1>14. CASE UNCHANGED cacheVars
  BY <1>3, <1>14 DEF cacheVars
<1>15. CASE CacheAlone
  BY <1>2, <1>4, <1>5, <1>6, <1>7, <1>8, <1>9, <1>10, <1>11, <1>13, <1>15 DEF CacheAlone, CallStep
<1> QED
  BY <1>2, <1>11, <1>12, <1>14, <1>15 DEF VenueNext, Load, Commit, Refuse, venueVars

Priced(v) == venue[v].halts = {} /\ Len(venue[v].extData) = Len(venue[v].extKeys)
               => \E s \in 1 .. Now : PricedAt(v, s)

\* A moment that a venue's accounts were read at stays in the chain's past.
LEMMA PricedStays ==
    ASSUME CInv, HistoryKept, NEW v \in Venues, venue'[v] = venue[v], Priced(v)
    PROVE  Priced(v)'
<1> SUFFICES ASSUME venue[v].halts = {}, Len(venue[v].extData) = Len(venue[v].extKeys)
             PROVE  \E s \in 1 .. Now' : PricedAt(v, s)'
  BY DEF Priced
<1>1. PICK s \in 1 .. Now : PricedAt(v, s)
  BY DEF Priced
<1>2. s \in 1 .. Now' /\ history'[s] = history[s]
  BY ChainFacts DEF HistoryKept, CInv
<1> QED
  BY <1>1, <1>2 DEF PricedAt

\* A venue is built without its other slots: it is not priced yet.
LEMMA LoadPriced ==
    ASSUME FieldsInv, NEW v \in Venues, Load(v)
    PROVE  Priced(v)'
<1>1. DOMAIN venue = Venues /\ venue[v] = Unbuilt(v)
  BY DEF Load, FieldsInv
<1>2. venue'[v].halts = Core(v)
  BY <1>1 DEF Load, Unbuilt
<1> QED
  BY <1>2, CoreFacts DEF Priced

\* What a call that asked for everything returns is of one moment.
LEMMA CommitPriced ==
    ASSUME CInv, FieldsInv, NEW v \in Venues, Commit(v), AllAsked(call[v])
    PROVE  Priced(v)'
<1>1. /\ venue' = [venue EXCEPT ![v] = Committed(v)]
      /\ call[v].at = "ok" /\ \A k \in Core(v) : Resolves(v, k)
      /\ history' = history
  BY DEF Commit, Committed, Return
<1>2. venue'[v] = Committed(v)
  BY <1>1 DEF FieldsInv
<1>3. /\ Core(v) \subseteq Range(Required(v)) /\ call[v].keys = Required(v)
      /\ venue[v].extKeys \in Seq(Keys)
  BY <1>1, RequiredFacts DEF FieldsInv, VenueType
<1>4. Range(call[v].ask) = Range(Required(v)) /\ OneSnapshot(call[v], call[v].found)
      /\ resetAt <= call[v].since /\ call[v].since \in Nat
  BY <1>1, <1>3, CallFacts DEF AllAsked, CallInv, Venues
<1>5. PICK s \in call[v].since .. Now : \A k \in Range(call[v].ask) : call[v].found[k] = history[s][k]
  BY <1>4 DEF OneSnapshot
<1>6. s \in 1 .. Now' /\ Now' = Now
  BY <1>1, <1>4, <1>5, ChainFacts DEF CInv, Now
<1>7. \A k \in Range(Required(v)) : Fetched(v, k) = history[s][k]
  BY <1>4, <1>5 DEF Fetched
<1>8. ASSUME Len(venue'[v].extData) = Len(venue'[v].extKeys) PROVE PricedAt(v, s)'
  <2>1. \A i \in DOMAIN FreshKeys(v) : /\ FreshKeys(v)[i] \in Range(Required(v))
                                       /\ ExtData(v)[i] = Fetched(v, FreshKeys(v)[i])
    BY <1>1, <1>2, <1>8, ExtFacts DEF Committed
  <2>2. \A i \in DOMAIN venue'[v].extKeys :
            venue'[v].extData[i] = history'[s][venue'[v].extKeys[i]]
    BY <1>1, <1>2, <1>7, <2>1 DEF Committed
  <2>3. \A k \in Core(v) : venue'[v].blob[k] = history'[s][k]
    BY <1>1, <1>2, <1>3, <1>7 DEF Committed
  <2> QED
    BY <2>2, <2>3 DEF PricedAt
<1> QED
  BY <1>6, <1>8 DEF Priced

LEMMA PricedNextInv == VInv /\ PricedInv /\ [VenueNext]_venueVars => PricedInv'
<1> SUFFICES ASSUME VInv, PricedInv, [VenueNext]_venueVars, OneVenue, ResetEach, NEW v \in Venues
             PROVE  AllAsked(call[v])' /\ Priced(v)'
  BY DEF PricedInv, Priced, OneVenue
<1>1. VInv' /\ CInv /\ FieldsInv /\ DecodedInv
  BY VenueNextInv DEF VInv
<1>2. AllAsked(call[v]) /\ Priced(v)
  BY DEF PricedInv, Priced
<1>3. AllAsked(call[v])'
  BY <1>1, AskedForAll
<1>4. HistoryKept
  BY <1>1, StepKeepsHistory
<1>5. CASE venue' = venue
  BY <1>1, <1>2, <1>3, <1>4, <1>5, PricedStays
<1>6. CASE Load(v)
  BY <1>1, <1>3, <1>6, LoadPriced
<1>7. CASE Commit(v)
  BY <1>1, <1>2, <1>3, <1>7, CommitPriced
<1>8. \A u \in Venues : u = v
  BY DEF OneVenue
<1> QED
  BY <1>5, <1>6, <1>7, <1>8 DEF VenueNext, CacheAlone, Update, Refuse, venueVars

LEMMA PricedInitInv == VenueInit => PricedInv
<1> SUFFICES ASSUME VenueInit, NEW v \in Venues PROVE AllAsked(call[v]) /\ Priced(v)
  BY DEF PricedInv, Priced
<1>1. call[v] = NoCall /\ venue[v] = Unbuilt(v)
  BY DEF VenueInit, CacheInit, Venues
<1>2. venue[v].halts # {}
  BY <1>1, CoreFacts DEF Unbuilt
<1> QED
  BY <1>1, <1>2, IdleCall DEF AllAsked, Priced

LEMMA PricedInductive == VenueSpec => [](VInv /\ PricedInv)
BY VenueInitInv, VenueNextInv, PricedInitInv, PricedNextInv, PTL DEF VenueSpec

-----------------------------------------------------------------------------
(* What the router may rely on. *)

\* The fields hold what their types say after any history of builds, refreshes,
\* failures and dropped futures: a halt byte is kept only for a slot of the
\* keyset, and external data is never a missing account (state.rs:109-229).
THEOREM VenueTypes == VenueSpec => []VenueTypeOK
<1>1. CInv /\ FieldsInv => VenueTypeOK
  BY CacheInvTypes DEF FieldsInv, VenueTypeOK
<1> QED
  BY VenueInductive, <1>1, PTL DEF VInv

\* A venue that quotes has decoded every slot, and none of the halt and freeze
\* bytes of the accounts it prices from is set: a refresh writes all of its
\* fields or none, and what from_account leaves is halted (state.rs:61-69,
\* 102-108, 207-228).
THEOREM LiveVenuesDecoded == VenueSpec => []LiveIsDecoded
<1>1. DecodedInv => LiveIsDecoded
  BY DEF DecodedInv, LiveIsDecoded, Initialized, HaltsClear, Strategy
<1> QED
  BY VenueInductive, <1>1, PTL DEF VInv

\* The external accounts of a venue that quotes are those that its strategy
\* binds, in their order, though they were asked for under an earlier binding
\* (state.rs:178-205).
THEOREM LiveVenuesPaired == VenueSpec => []ExtPaired
<1>1. FieldsInv /\ DecodedInv => ExtPaired
  BY DEF FieldsInv, VenueType, DecodedInv, ExtPaired, Initialized, HaltsClear, HasAllState, Strategy
<1> QED
  BY VenueInductive, <1>1, PTL DEF VInv

\* When a venue alone fills the cache, and each refresh finds the cache empty,
\* a venue that quotes prices from one state of the chain: a refresh of an empty
\* cache asks for every key in one request (state.rs:169-170,
\* rpc_cache.rs:120-148).
THEOREM OneVenuePricedAtOnce == VenueSpec => [](OneVenue => PricedFromOneSnapshot)
<1>1. PricedInv => (OneVenue => PricedFromOneSnapshot)
  BY DEF PricedInv, PricedFromOneSnapshot, PricedAt, Initialized, HaltsClear, HasAllState
<1> QED
  BY PricedInductive, <1>1, PTL
=============================================================================
