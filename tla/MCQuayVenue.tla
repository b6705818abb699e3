---------------------------- MODULE MCQuayVenue ----------------------------
(***************************************************************************)
(* Instances of QuayVenue: one venue that binds none, one or two external  *)
(* accounts and is halted and rebound as it is refreshed; two venues that  *)
(* share the clock.                                                        *)
(***************************************************************************)
EXTENDS QuayVenue, TLC

CONSTANTS st, mm, clock, x, y, st2, v1, v2

Plain == [ok |-> TRUE, halted |-> FALSE, routed |-> TRUE, binding |-> <<>>]
Halted == [Plain EXCEPT !.halted = TRUE]
Garbled == [Plain EXCEPT !.ok = FALSE]
Unrouted == [Plain EXCEPT !.routed = FALSE]
BindX == [Plain EXCEPT !.binding = <<x>>]
BindY == [Plain EXCEPT !.binding = <<y>>]
BindXY == [Plain EXCEPT !.binding = <<x, y>>]

SoloData == {Plain, Halted, Garbled, Unrouted, BindX, BindY, BindXY}

BindClock == [Plain EXCEPT !.binding = <<clock>>]
PairData == {Plain, Halted, Garbled, BindX, BindClock}

SoloCore == (v1 :> <<st, mm, clock>>)
SoloBlobs == (v1 :> {mm})

SoloGenesis == (st :> BindX @@ mm :> Plain @@ clock :> Plain @@ x :> Plain @@ y :> Plain)

SoloWrites == {st :> BindY, st :> BindXY, st :> Plain, st :> Unrouted,
               mm :> Halted, mm :> Plain @@ clock :> Plain, clock :> Garbled,
               x :> Plain @@ st :> BindX, x :> Missing}

PairCore == (v1 :> <<st, clock>> @@ v2 :> <<st2, clock>>)
PairBlobs == (v1 :> {st} @@ v2 :> {st2})
PairGenesis == (st :> BindX @@ st2 :> Plain @@ clock :> Plain @@ x :> Plain)
PairWrites == {st2 :> BindX, st2 :> Missing, st :> BindClock, clock :> Plain @@ x :> Plain, st :> Halted, clock :> Garbled}

NoRequests == {}
=============================================================================
