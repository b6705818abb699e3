-------------------------- MODULE MCRouteBuilder --------------------------
(***************************************************************************)
(* Routes of up to three legs over three mints of two token programs,      *)
(* through two venues that are discovered and a configured one of another  *)
(* deployment, whose strategies bind none or two external accounts.        *)
(***************************************************************************)
EXTENDS RouteBuilder, TLC

CONSTANTS A, B, C, v1, v2, v3, e1, e2, QuayDev, mm, system

ThreeMints == <<A, B, C>>
Bases == (v1 :> A @@ v2 :> C @@ v3 :> B)
Quotes == (v1 :> B @@ v2 :> A @@ v3 :> A)
ProgramsOf == (v1 :> QuayProgram @@ v2 :> QuayProgram @@ v3 :> QuayDev)
Owners == (A :> Token @@ B :> Token2022 @@ C :> Token)
SomeBindings == {<<>>, <<e1, e2>>}

\* Amounts and weights of one to four digits.
ThreeWeights == <<7, ByteMod + 1, 2 * ByteMod ^ 3 + 5>>

InitStrategy(v) == [program |-> ProgramsOf[v], data |-> "init_strategy",
                    accounts |-> <<v, mm, mm, mm, system, Bases[v], Quotes[v]>>]

\* Strategies of either deployment, a swap, and an instruction cut short.
SomeTransactions ==
    {{InitStrategy(v1)},
     {InitStrategy(v2), [InitStrategy(v1) EXCEPT !.accounts = <<v1, mm>>]},
     {InitStrategy(v3), [InitStrategy(v2) EXCEPT !.data = "swap"]}}
=============================================================================
