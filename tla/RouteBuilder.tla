---------------------------- MODULE RouteBuilder ----------------------------
(***************************************************************************)
(* From new pools to the calls of a route.  parse_pool_creations           *)
(* (src/quay/creation.rs) finds venues in transactions, build_swap_ix      *)
(* (src/quay/swap.rs) lists a swap's accounts, build_swap_leg              *)
(* (src/swap_route/mod.rs) makes a leg of them, a router concatenates the  *)
(* legs of a route and encodes what is to be done with them, and the route *)
(* program (swap_route_v3.rs) decodes it and walks the concatenation, leg  *)
(* by leg.  Venues are refreshed, and strategies rebound, meanwhile.       *)
(***************************************************************************)
EXTENDS Integers, Sequences, FiniteSets, Functions

CONSTANTS
    Venues,     \* the quoter venues
    BaseOf,     \* per venue, base_mint
    QuoteOf,    \* per venue, quote_mint
    ProgramOf,  \* per venue, program_id, the owner of its strategy account
    QuayProgram,\* QUAY_PROGRAM_ID of the client, PROGRAM_ID of the program
    OwnerOf,    \* per mint, the owner of its account: a token program
    Token2022,  \* spl_token_2022's id
    Token,      \* spl_token's id
    Bindings,   \* the external accounts that strategies bind
    Configured, \* venues that a router is given, whatever their program
    Transactions,   \* the transactions that it watches, as sets of ParsedInstructions
    Titan,      \* TitanPDA
    RouteMints, \* the route's mints, in the order of its slots
    Amount,     \* the amount a route is sent with
    Weights,    \* the weights its legs are given, first to last
    ByteMod,    \* the values of a byte, 2^8 in the code
    MaxLegs     \* bound on the legs of a route, below MAX_SWAPS

Slots == DOMAIN RouteMints
Word == ByteMod * ByteMod * ByteMod * ByteMod   \* 2^32 in the code

ASSUME LegAssumption ==
    \* the longest leg: twelve accounts, two token programs, a binding, the program
    /\ \A b \in Bindings : b \in Seq(Range(b)) /\ 12 + 2 + Len(b) + 1 < ByteMod
    /\ Configured \subseteq Venues
    /\ Token # Token2022

\* The mints of a route are those of token programs; the numbers fit their types.
ASSUME RouteAssumption ==
    /\ RouteMints \in Seq(Range(RouteMints))
    /\ \A i \in Slots : OwnerOf[RouteMints[i]] \in {Token, Token2022}
    /\ ByteMod \in Nat /\ ByteMod > 1
    /\ Amount \in Nat /\ Amount \div Word < Word
    /\ MaxLegs \in Nat /\ MaxLegs < Word
    /\ \A i \in 1 .. MaxLegs : Weights[i] \in Nat /\ Weights[i] < Word

VARIABLES
    found,      \* the PoolCreations of the venues that were discovered
    tokens,     \* per venue, get_token_info(): empty until the first refresh
    ext,        \* per venue, ext_keys
    legs,       \* the legs built so far
    list,       \* the route's remaining accounts
    sent,       \* the data of the instruction
    args,       \* the arguments that the program made of it
    pc,         \* "build", "sent", "walk" or "done"
    at,         \* remaining_account_index
    leg,        \* index of the next leg
    calls       \* what venues were called with

venueVars == <<found, tokens, ext>>
routeVars == <<legs, list, sent, args, pc, at, leg, calls>>
vars == <<venueVars, routeVars>>

\* An account of an instruction, its key and is_signer.
Meta(key, signer) == [key |-> key, signer |-> signer]
Key(kind, of) == <<kind, of>>
Unsigned(keys) == [i \in DOMAIN keys |-> Meta(keys[i], FALSE)]
KeysOf(metas) == [i \in DOMAIN metas |-> metas[i].key]

Vault(v, m) == <<"vault", v, m>>
Instructions == Key("sysvar", "instructions")

\* get_associated_token_address_with_program_id for TitanPDA
Ata(m, program) == <<"ata", m, program>>

\* TokenInfo::new, of which routes use the mint and the token program.
TokenInfo(m) == [pubkey |-> m, is_token_2022 |-> OwnerOf[m] = Token2022]
Infos(v) == <<TokenInfo(BaseOf[v]), TokenInfo(QuoteOf[v])>>

\* get_token_program
TokenProgram(info) == IF info.is_token_2022 THEN Token2022 ELSE Token

-----------------------------------------------------------------------------
(* Discovery. *)

\* A variant of Creates with a bug: anybody's instruction will do.
CreatesAny(ix) == ix.data = "init_strategy"

\* The first byte of the data is DISC_INIT_STRATEGY.
Creates(ix) == ix.program = QuayProgram /\ ix.data = "init_strategy"

\* parse_pool_creations; a short list of accounts is passed over.
PoolCreations(tx) ==
    {[pool |-> ix.accounts[1], mints |-> {ix.accounts[6], ix.accounts[7]}] :
        ix \in {ix \in tx : Creates(ix) /\ Len(ix.accounts) >= 7}}

Pools(creations) == {c.pool : c \in creations}
Known == Configured \cup Pools(found)

\* A strategy belongs to the program that created it.
ASSUME CreationAssumption ==
    \A tx \in Transactions : \A ix \in tx :
        /\ ix.program = QuayProgram /\ ix.data = "init_strategy" /\ Len(ix.accounts) >= 7
        /\ ix.accounts[1] \in Venues
        => ProgramOf[ix.accounts[1]] = QuayProgram

-----------------------------------------------------------------------------
(* The swap of one venue. *)

\* A variant of TakerAta with a bug: both accounts under the base's program.
TakerAtaBase(infos, m) == Ata(m, TokenProgram(infos[1]))

\* The taker's account, under the program of its own mint (token_program_for).
TakerAta(infos, m) == Ata(m, TokenProgram(infos[IF infos[1].pubkey = m THEN 1 ELSE 2]))

\* The token programs of base and quote, one if they are the same.
Programs(infos) ==
    LET base == TokenProgram(infos[1])
        quote == TokenProgram(infos[2])
    IN  IF base = quote THEN <<base>> ELSE <<base, quote>>

\* The accounts of ix::swap_with_ext, `in' and `out' by the side of the swap.
SwapKeys(v, infos, in, out, binding) ==
    <<Key("config", v), Key("strategy", v), Key("mm", v), Key("quotes", v),
      Vault(v, in), Vault(v, out), TakerAta(infos, in), TakerAta(infos, out), Titan,
      Key("mint", in), Key("mint", out), Instructions>> \o Programs(infos) \o binding

\* The accounts that a swap has of its own, whatever it binds, are not programs
\* that routes call.
ASSUME AddressAssumption ==
    \A v \in Venues : \A in, out \in {BaseOf[v], QuoteOf[v]} :
        QuayProgram \notin Range(SwapKeys(v, Infos(v), in, out, <<>>))

\* build_swap_ix: the taker signs.
SwapMetas(v, in, out) ==
    LET keys == SwapKeys(v, tokens[v], in, out, ext[v])
    IN  [i \in DOMAIN keys |-> Meta(keys[i], keys[i] = Titan)]

\* The sides that are not refused with InvalidMint.
Trades(v, in, out) == <<in, out>> \in {<<BaseOf[v], QuoteOf[v]>>, <<QuoteOf[v], BaseOf[v]>>}

\* program_dependencies
Dependencies == {Token, Token2022, Key("program", "system")}

Fixed(v) ==
    {ProgramOf[v], Key("config", v), Key("strategy", v), Key("mm", v), Key("quotes", v),
     Vault(v, BaseOf[v]), Vault(v, QuoteOf[v]), Key("mint", BaseOf[v]), Key("mint", QuoteOf[v]),
     Instructions}

\* A variant of LookupKeys with a bug: the bound accounts are left out.
LookupKeysFixed(v) == Fixed(v) \cup Dependencies

\* get_lookup_table_keys
LookupKeys(v) == Fixed(v) \cup Range(ext[v]) \cup Dependencies

-----------------------------------------------------------------------------
(* Legs. *)

\* A variant of Assemble with a bug: TitanPDA's signer flag is kept.
AssembleSigned(v, metas) == metas \o <<Meta(ProgramOf[v], FALSE)>>

\* assemble_leg_accounts
Assemble(v, metas) ==
    [i \in DOMAIN metas |-> IF metas[i].key = Titan THEN Meta(Titan, FALSE) ELSE metas[i]]
    \o <<Meta(ProgramOf[v], FALSE)>>

\* A variant of SellBase with a bug: the quote mint is looked at.
SellBaseLast(v, in) == in = tokens[v][2].pubkey

\* protocol_to_venue reads the pair again, from the token metadata.
SellBase(v, in) == in = tokens[v][1].pubkey

\* A variant of Count with a bug: the program account is forgotten.
CountVenue(accounts) == (Len(accounts) - 1) % ByteMod

\* accounts.len() as u8
Count(accounts) == Len(accounts) % ByteMod

-----------------------------------------------------------------------------
(* The arguments of a route, as bytes: the client writes with one set of    *)
(* types (src/swap_route/mod.rs), the program reads with another (state.rs). *)

Discriminator == 42
QuayTag == 0

\* Little-endian digits of a u32 and of a u64, and the numbers read back at a
\* position.
U32Bytes(n) ==
    LET b == n \div ByteMod
        c == b \div ByteMod
        d == c \div ByteMod
    IN  <<n % ByteMod, b % ByteMod, c % ByteMod, d % ByteMod>>
U64Bytes(n) == U32Bytes(n % Word) \o U32Bytes(n \div Word)
U32At(b, i) == b[i] + ByteMod * (b[i + 1] + ByteMod * (b[i + 2] + ByteMod * b[i + 3]))
U64At(b, i) == U32At(b, i) + Word * U32At(b, i + 4)

\* A variant of SpecBytes with a bug: the fields of the leg change places.
SpecBytesReordered(s) ==
    <<QuayTag, IF s.sellBase THEN 1 ELSE 0, s.from, s.to, s.n>> \o U32Bytes(s.weight)

\* Borsh of SwapSpecInputV2.
SpecBytes(s) ==
    <<QuayTag, IF s.sellBase THEN 1 ELSE 0, s.from, s.to>> \o U32Bytes(s.weight) \o <<s.n>>

SpecSize == 9
HeaderSize == 14

\* encode_swap_route_v3_data
Encode(amount, mints, specs) ==
    <<Discriminator>> \o U64Bytes(amount) \o <<mints>> \o U32Bytes(Len(specs))
    \o [k \in 1 .. SpecSize * Len(specs) |->
            SpecBytes(specs[(k - 1) \div SpecSize + 1])[((k - 1) % SpecSize) + 1]]

\* What Anchor reads: the program's SwapSpecInputV2, and swap_route_v3's arguments.
SpecAt(b, i) == [sellBase |-> b[i + 1] = 1, from |-> b[i + 2], to |-> b[i + 3],
                 weight |-> U32At(b, i + 4), n |-> b[i + 8]]

Start(i) == HeaderSize + SpecSize * (i - 1) + 1
SpecCount(data) == U32At(data, 11)

Decodes(data) ==
    /\ Len(data) >= HeaderSize /\ data[1] = Discriminator
    /\ Len(data) >= HeaderSize + SpecSize * SpecCount(data)
    /\ \A i \in 1 .. SpecCount(data) : data[Start(i)] = QuayTag /\ data[Start(i) + 1] \in {0, 1}

Decode(data) ==
    [amount |-> U64At(data, 2), mints |-> data[10],
     swaps |-> [i \in 1 .. SpecCount(data) |-> SpecAt(data, Start(i))]]

NoArgs == [amount |-> 0, mints |-> 0, swaps |-> <<>>]

-----------------------------------------------------------------------------
Init == /\ found = {}
        /\ tokens = [v \in Venues |-> <<>>]
        /\ ext \in {e \in [Venues -> Bindings] : \A v \in Venues \ Configured : e[v] = <<>>}
        /\ legs = <<>> /\ list = <<>>
        /\ sent = <<>> /\ args = NoArgs
        /\ pc = "build"
        /\ at = 0 /\ leg = 1
        /\ calls = <<>>

\* A router makes venues of the pools a transaction created (from_account), which
\* read their bindings; what is not a strategy does not become one.
Discover(tx, binding) ==
    LET new == {c \in PoolCreations(tx) : c.pool \in Venues} \ found IN
    /\ new # {}
    /\ found' = found \cup new
    /\ tokens' = [v \in Venues |-> IF v \in Pools(new) THEN <<>> ELSE tokens[v]]
    /\ ext' = [v \in Venues |-> IF v \in Pools(new) THEN binding ELSE ext[v]]
    /\ UNCHANGED routeVars

\* update_state, whatever the strategy binds by now.
Refresh(v, binding) ==
    /\ v \in Known
    /\ tokens' = [tokens EXCEPT ![v] = Infos(v)]
    /\ ext' = [ext EXCEPT ![v] = binding]
    /\ UNCHANGED <<found, routeVars>>

\* A route's list begins with TitanPDA's accounts, which the program opens under
\* the owner of the mint if they are missing, and the mints.
RouteAccounts ==
    Unsigned([i \in DOMAIN RouteMints |-> Ata(RouteMints[i], OwnerOf[RouteMints[i]])]
             \o [i \in DOMAIN RouteMints |-> Key("mint", RouteMints[i])])

SlotOf(m) == (CHOOSE i \in Slots : RouteMints[i] = m) - 1

\* build_swap_leg, and the router appends what it returns.
BuildLeg(v, in, out) ==
    LET accounts == Assemble(v, SwapMetas(v, in, out)) IN
    /\ pc = "build" /\ Len(legs) < MaxLegs
    /\ v \in Known /\ Trades(v, in, out) /\ tokens[v] # <<>>
    /\ legs' = Append(legs, [venue |-> v, in |-> in, out |-> out, binding |-> ext[v],
                             spec |-> [sellBase |-> SellBase(v, in), from |-> SlotOf(in),
                                       to |-> SlotOf(out), weight |-> Weights[Len(legs) + 1],
                                       n |-> Count(accounts)]])
    /\ list' = (IF legs = <<>> THEN RouteAccounts ELSE list) \o accounts
    /\ UNCHANGED <<venueVars, sent, args, pc, at, leg, calls>>

Specs == [i \in DOMAIN legs |-> legs[i].spec]

\* The route is sent; no account but the user's and the payer's signs for it.
Submit ==
    /\ pc = "build" /\ legs # <<>>
    /\ sent' = Encode(Amount, Len(RouteMints), Specs)
    /\ pc' = "sent"
    /\ UNCHANGED <<venueVars, legs, list, args, at, leg, calls>>

-----------------------------------------------------------------------------
(* The program's walk. *)

\* Anchor decodes the arguments; execute sets out behind the mints.
Receive ==
    /\ pc = "sent" /\ Decodes(sent)
    /\ args' = Decode(sent) /\ sent' = <<>>
    /\ Len(list) >= 2 * args'.mints
    /\ pc' = "walk" /\ at' = 2 * args'.mints /\ leg' = 1
    /\ UNCHANGED <<venueVars, legs, list, calls>>

Swap == args.swaps[leg]

Walking == /\ pc = "walk" /\ leg <= Len(args.swaps)
           /\ Swap.n > 0
           /\ at + Swap.n <= Len(list)

Slice == SubSeq(list, at + 1, at + Swap.n)

\* The accounts of the call: the leg's last account, its program, is left out,
\* and TitanPDA signs.
CallMetas(slice) == [i \in 1 .. Len(slice) - 1 |->
                       Meta(slice[i].key, slice[i].key = Titan \/ slice[i].signer)]

\* quay::swap names the program and the side, and asks for no minimum.
QuaySwap(sellBase, metas) ==
    [leg |-> leg, program |-> QuayProgram, metas |-> metas, side |-> IF sellBase THEN 0 ELSE 1]

\* invoke_signed looks for the program among the leg's accounts.
Callable == QuayProgram \in Range(KeysOf(Slice))

Call ==
    /\ Walking /\ Callable
    /\ calls' = Append(calls, QuaySwap(Swap.sellBase, CallMetas(Slice)))
    /\ at' = at + Swap.n /\ leg' = leg + 1
    /\ UNCHANGED <<venueVars, legs, list, sent, args, pc>>

\* A variant of Skip with a bug: the leg's accounts are not passed over.
SkipInPlace ==
    /\ Walking
    /\ leg' = leg + 1
    /\ UNCHANGED <<venueVars, legs, list, sent, args, pc, at, calls>>

\* A leg whose input is zero.
Skip ==
    /\ Walking
    /\ at' = at + Swap.n /\ leg' = leg + 1
    /\ UNCHANGED <<venueVars, legs, list, sent, args, pc, calls>>

Finish ==
    /\ pc = "walk" /\ leg > Len(args.swaps)
    /\ pc' = "done"
    /\ UNCHANGED <<venueVars, legs, list, sent, args, at, leg, calls>>

\* The route is over, or failed and was rolled back; the next one is built.
NextRoute ==
    /\ pc # "build"
    /\ legs' = <<>> /\ list' = <<>> /\ sent' = <<>> /\ args' = NoArgs
    /\ pc' = "build" /\ at' = 0 /\ leg' = 1 /\ calls' = <<>>
    /\ UNCHANGED venueVars

Next == \/ \E tx \in Transactions, b \in Bindings : Discover(tx, b)
        \/ \E v \in Venues, b \in Bindings : Refresh(v, b)
        \/ \E v \in Venues, in, out \in Range(RouteMints) : BuildLeg(v, in, out)
        \/ Submit \/ Receive \/ Call \/ Skip \/ Finish \/ NextRoute

Spec == Init /\ [][Next]_vars

-----------------------------------------------------------------------------
(* What the route program relies on. *)

\* Each venue is called with the accounts its own instruction listed when the
\* leg was built, in that order, under its own program, whatever was skipped
\* before it and however the bindings changed between the legs; the venue of
\* another deployment is not called at all, although its legs can be built
\* (swap_route/mod.rs:133-165, swap_route_v3.rs:207-250, venues/quay.rs:34-38).
OwnAccounts ==
    \A i \in DOMAIN calls :
        LET l == legs[calls[i].leg] IN
        /\ KeysOf(calls[i].metas) = SwapKeys(l.venue, Infos(l.venue), l.in, l.out, l.binding)
        /\ calls[i].program = ProgramOf[l.venue]

\* The walk ends where the list ends: the counts of the legs add up.
ListConsumed == pc = "done" => at = Len(list)

\* Nobody but the program signs for TitanPDA: no account of the list asks for a
\* signature of the transaction, and in a call TitanPDA alone signs
\* (swap_route/mod.rs:153-158, swap_route_v3.rs:233-237).
OnlyTitanSigns ==
    /\ \A i \in DOMAIN list : ~ list[i].signer
    /\ \A i \in DOMAIN calls :
          {m \in Range(calls[i].metas) : m.signer} = {Meta(Titan, TRUE)}

\* The side byte agrees with the order of the accounts, though the two are
\* derived from different fields of the venue (quay/swap.rs:40-47,
\* swap_route/mod.rs:97-104): sell base exactly when the base vault is `in'.
SideAgrees ==
    \A i \in DOMAIN calls :
        LET v == legs[calls[i].leg].venue
        IN  calls[i].side = 0 <=> calls[i].metas[5].key = Vault(v, BaseOf[v])

\* "Everything except the taker and its two ATAs" (quay/swap.rs:91-93): the
\* lookup table made from a venue covers the swaps built from it.
TableCovers ==
    \A v \in Known :
        LET infos == Infos(v)
            keys == Range(SwapKeys(v, infos, BaseOf[v], QuoteOf[v], ext[v]))
        IN  keys \ LookupKeys(v) = {Titan, TakerAta(infos, BaseOf[v]), TakerAta(infos, QuoteOf[v])}

\* The program decodes the route that was built, whatever bytes its numbers
\* take: two sets of types agree on every field, its order and its width
\* (swap_route/mod.rs:44-48, 66-81, state.rs:6-22).
ProgramReadsRoute ==
    pc \in {"walk", "done"} =>
        args = [amount |-> Amount, mints |-> Len(RouteMints), swaps |-> Specs]

\* A call moves tokens between the accounts whose balances the program reads for
\* the leg, `from' and `to' of the route's list, under either token program:
\* the client derives one from the mint's TokenInfo, the program another from
\* the owner of the mint (quay/swap.rs:50-62, swap_route_v3.rs:216-221).
LegsUseSlots ==
    \A i \in DOMAIN calls :
        LET swap == args.swaps[calls[i].leg] IN
        /\ calls[i].metas[7].key = list[swap.from + 1].key
        /\ calls[i].metas[8].key = list[swap.to + 1].key

\* A route over venues that were all discovered never stops on its way: the
\* strategies that parse_pool_creations accepts belong to the one program that
\* routes can call, although venues take theirs from the strategy's owner
\* (quay/creation.rs:27, quay/state.rs:22, venues/quay.rs:4).
DiscoveredCallable ==
    pc = "walk" /\ (\A i \in DOMAIN legs : legs[i].venue \in Pools(found)) /\ leg <= Len(args.swaps)
        => Walking /\ Callable
=============================================================================
