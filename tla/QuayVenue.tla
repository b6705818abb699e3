----------------------------- MODULE QuayVenue -----------------------------
(***************************************************************************)
(* QuayVenue's life (src/quay/state.rs, src/quay/mod.rs): built from a     *)
(* strategy account, then refreshed again and again through the shared     *)
(* cache of AccountsCache, quoting whenever it is `initialized'.           *)
(*                                                                         *)
(* The nine fixed slots of the keyset are the keys CoreOf[v], the strategy *)
(* first; behind them come the accounts the strategy binds.  An account    *)
(* holds a record: does it decode, is one of its halt or freeze bytes set, *)
(* is ROUTE_TITAN set, which accounts does it bind.  What the pricing VM   *)
(* reads in it is opaque.                                                  *)
(***************************************************************************)
EXTENDS AccountsCache

CONSTANTS
    CoreOf,     \* per venue, the keys of slots 0 to 8
    BlobsOf,    \* per venue, the slots whose data has_all_state looks at
    Empty,      \* an empty blob
    ResetEach   \* is the cache cleared before each update?

Venues == Clients   \* each venue is a client of the cache

DataType == [ok : BOOLEAN, halted : BOOLEAN, routed : BOOLEAN, binding : Seq(Keys)]

ASSUME VenueAssumption ==
    /\ Data \subseteq DataType
    /\ \A v \in Venues : /\ CoreOf[v] \in Seq(Keys) /\ CoreOf[v] # <<>>
                         /\ BlobsOf[v] \subseteq Range(CoreOf[v])
    /\ Empty \notin Content
    /\ ResetEach \in BOOLEAN

VARIABLES
    venue,      \* per venue, the fields of the QuayVenue
    loaded      \* the venues that were built

venueVars == <<cacheVars, venue, loaded>>

StrategyOf(v) == CoreOf[v][1]
Core(v) == Range(CoreOf[v])

VenueType(v) ==
    [blob : [Core(v) -> Content \cup {Empty}],   \* strategy_data, mm_data, quotes_data, tokens, clock...
     halts : SUBSET Core(v),                     \* the slots a halt or freeze byte of which is set
     routed : BOOLEAN,                           \* routing_flags & ROUTE_TITAN # 0
     extKeys : Seq(Keys),
     extData : Seq(Content)]

Unbuilt(v) == [blob |-> [k \in Core(v) |-> Empty], halts |-> Core(v), routed |-> FALSE,
               extKeys |-> <<>>, extData |-> <<>>]

VenueInit == /\ CacheInit
             /\ venue = [v \in Venues |-> Unbuilt(v)]
             /\ loaded = {}

-----------------------------------------------------------------------------
(* What the router sees.                                                   *)

\* has_all_state
HasAllState(v) == /\ Len(venue[v].extData) = Len(venue[v].extKeys)
                  /\ \A k \in BlobsOf[v] : venue[v].blob[k] # Empty

\* halts_clear
HaltsClear(v) == venue[v].halts = {}

Initialized(v) == venue[v].routed /\ HasAllState(v) /\ HaltsClear(v)

-----------------------------------------------------------------------------
(* Building and refreshing.                                                *)

\* from_account, of a strategy account read some time ago.
Load(v) ==
    /\ v \notin loaded
    /\ \E s \in 1 .. Now :
         LET a == history[s][StrategyOf(v)] IN
         /\ a # Missing /\ a.data.ok
         /\ venue' = [venue EXCEPT ![v].blob[StrategyOf(v)] = a,
                                   ![v].routed = a.data.routed,
                                   ![v].extKeys = a.data.binding]
    /\ loaded' = loaded \cup {v}
    /\ UNCHANGED cacheVars

\* required_update_pubkeys
Required(v) == CoreOf[v] \o venue[v].extKeys

\* update_state borrows the venue: one refresh at a time.
Update(v) ==
    /\ v \in loaded
    /\ ResetEach => \A k \in Keys : cache[k] = Absent
    /\ GetAccounts(v, Required(v))
    /\ UNCHANGED <<venue, loaded>>

Fetched(v, k) == call[v].found[k]

\* Lines 119-188: each slot is present and decodes.
Resolves(v, k) == Fetched(v, k) # Missing /\ Fetched(v, k).data.ok

FreshKeys(v) == Fetched(v, StrategyOf(v)).data.binding

\* Variants of ExtData with a bug: a missing account is not looked for; the old
\* data is kept when an account is missing; the accounts fetched under the
\* old binding are published for the new one.
ExtDataUnchecked(v) ==
    IF FreshKeys(v) = venue[v].extKeys
    THEN [i \in DOMAIN FreshKeys(v) |-> Fetched(v, FreshKeys(v)[i])]
    ELSE <<>>
ExtDataKept(v) ==
    IF FreshKeys(v) # venue[v].extKeys THEN <<>>
    ELSE IF \A i \in DOMAIN FreshKeys(v) : Fetched(v, FreshKeys(v)[i]) # Missing
    THEN [i \in DOMAIN FreshKeys(v) |-> Fetched(v, FreshKeys(v)[i])]
    ELSE venue[v].extData
ExtDataUnpaired(v) ==
    IF \A i \in DOMAIN venue[v].extKeys : Fetched(v, venue[v].extKeys[i]) # Missing
    THEN [i \in DOMAIN venue[v].extKeys |-> Fetched(v, venue[v].extKeys[i])]
    ELSE <<>>

\* Lines 178-205: the accounts were fetched under the previous binding.
ExtData(v) ==
    IF /\ FreshKeys(v) = venue[v].extKeys
       /\ \A i \in DOMAIN FreshKeys(v) : Fetched(v, FreshKeys(v)[i]) # Missing
    THEN [i \in DOMAIN FreshKeys(v) |-> Fetched(v, FreshKeys(v)[i])]
    ELSE <<>>

\* A variant of HaltsIn with a bug: the market maker's and the protocol's bytes
\* are not refreshed.
HaltsInStrategy(v) == {k \in {StrategyOf(v)} : Fetched(v, k).data.halted}

HaltsIn(v) == {k \in Core(v) : Fetched(v, k).data.halted}

\* A variant of Commit with a bug: the binding is that of from_account for ever.
CommitOldKeys(v) ==
    /\ call[v].at = "ok"
    /\ \A k \in Core(v) : Resolves(v, k)
    /\ venue' = [venue EXCEPT ![v] =
                   [blob |-> [k \in Core(v) |-> Fetched(v, k)],
                    halts |-> HaltsIn(v),
                    routed |-> Fetched(v, StrategyOf(v)).data.routed,
                    extKeys |-> venue[v].extKeys,
                    extData |-> ExtData(v)]]
    /\ Return(v)
    /\ UNCHANGED loaded

\* Lines 207-228: every slot resolved, and all is written at once.
Commit(v) ==
    /\ call[v].at = "ok"
    /\ \A k \in Core(v) : Resolves(v, k)
    /\ venue' = [venue EXCEPT ![v] =
                   [blob |-> [k \in Core(v) |-> Fetched(v, k)],
                    halts |-> HaltsIn(v),
                    routed |-> Fetched(v, StrategyOf(v)).data.routed,
                    extKeys |-> FreshKeys(v),
                    extData |-> ExtData(v)]]
    /\ Return(v)
    /\ UNCHANGED loaded

\* A variant of Refuse with a bug: the slots that resolved are written as they
\* are decoded, before the one that does not.
RefusePartly(v) ==
    /\ \/ call[v].at = "err"
       \/ call[v].at = "ok" /\ \E k \in Core(v) : ~ Resolves(v, k)
    /\ venue' = IF call[v].at = "err" THEN venue ELSE
                [venue EXCEPT ![v].blob = [k \in Core(v) |-> IF Resolves(v, k) THEN Fetched(v, k) ELSE @[k]],
                              ![v].halts = {k \in Core(v) : IF Resolves(v, k) THEN Fetched(v, k).data.halted ELSE FALSE}]
    /\ Return(v)
    /\ UNCHANGED loaded

\* An early return: the fetch failed, or a slot is missing or does not decode.
Refuse(v) ==
    /\ \/ call[v].at = "err"
       \/ call[v].at = "ok" /\ \E k \in Core(v) : ~ Resolves(v, k)
    /\ Return(v)
    /\ UNCHANGED <<venue, loaded>>

-----------------------------------------------------------------------------
\* The chain, and the calls under way.
CacheAlone ==
    /\ \/ \E w \in Writes : ChainStep(w)
       \/ \E v \in Venues : CallStep(v) \/ RpcFail(v) \/ Drop(v)
       \/ Reset
    /\ UNCHANGED <<venue, loaded>>

VenueNext == \/ CacheAlone
             \/ \E v \in Venues : Load(v) \/ Update(v) \/ Commit(v) \/ Refuse(v)

VenueSpec == VenueInit /\ [][VenueNext]_venueVars

\* The router keeps building and refreshing its venues and clearing the cache
\* (`update_state' runs every slot), and the RPC node answers; nothing obliges
\* the chain to move or a call to fail.
Fairness == /\ WF_venueVars(Reset /\ UNCHANGED <<venue, loaded>>)
            /\ \A v \in Venues : /\ WF_venueVars(Load(v))
                                 /\ WF_venueVars(Update(v))
                                 /\ WF_venueVars(CallStep(v) /\ UNCHANGED <<venue, loaded>>)
                                 /\ WF_venueVars(Commit(v) \/ Refuse(v))

FairVenueSpec == VenueSpec /\ Fairness

-----------------------------------------------------------------------------
\* The type invariant.
VenueTypeOK ==
    /\ CacheTypeOK
    /\ \A v \in Venues : venue[v] \in VenueType(v)
    /\ loaded \subseteq Venues

\* A venue that quotes has every slot, the token metadata and the clock that
\* has_all_state does not look at included, and none of the halt bytes of the
\* very accounts it prices from is set: neither the failure of a refresh
\* half-way nor the warm-up values of from_account can be live (state.rs:102-108,
\* 61-69).
LiveIsDecoded ==
    \A v \in Venues : Initialized(v) =>
        /\ \A k \in Core(v) : venue[v].blob[k] # Empty /\ ~ venue[v].blob[k].data.halted
        /\ venue[v].blob[StrategyOf(v)].data.routed

\* A venue that quotes pairs its external data with the binding of the very
\* strategy account it prices from, position by position, though the accounts
\* were asked for under an earlier binding (state.rs:178-205).
ExtPaired ==
    \A v \in Venues : Initialized(v) =>
        LET b == venue[v].blob[StrategyOf(v)].data.binding IN
        /\ Len(venue[v].extData) = Len(b)
        /\ \A i \in DOMAIN b : venue[v].extData[i].key = b[i]

\* When each update starts from an empty cache that nobody else fills, a venue
\* that quotes prices from the accounts as they were together at one moment:
\* "freshness budget is one batch" (state.rs:169-170).
PricedFromOneSnapshot ==
    ResetEach => \A v \in Venues : Initialized(v) =>
        \E s \in 1 .. Now :
            /\ \A k \in Core(v) : venue[v].blob[k] = history[s][k]
            /\ \A i \in DOMAIN venue[v].extKeys : venue[v].extData[i] = history[s][venue[v].extKeys[i]]

\* What the chain says of the venue: every slot and bound account is there, and
\* it may trade; or every slot is there and one of them forbids trading.
Present(v) == \A k \in Core(v) : Chain[k] # Missing /\ Chain[k].data.ok
Barred(v) == (\E k \in Core(v) : Chain[k].data.halted) \/ ~ Chain[StrategyOf(v)].data.routed
Tradable(v) == /\ Present(v) /\ ~ Barred(v)
               /\ \A i \in DOMAIN Chain[StrategyOf(v)].data.binding :
                    Chain[Chain[StrategyOf(v)].data.binding[i]] # Missing

\* A venue that the chain lets trade ends up quoting, and one that is halted,
\* frozen or opted out stops, after rebinds, failed refreshes and dropped
\* futures (state.rs:109-229, mod.rs:173-177).
GoesLive == \A v \in Venues : <>[]Tradable(v) => <>[]Initialized(v)
GoesDark == \A v \in Venues : <>[](Present(v) /\ Barred(v)) => <>[]~ Initialized(v)
=============================================================================
