---------------------------- MODULE MCPreflight ----------------------------
(* Finite instances of Preflight, and with it of SafeFetch. *)
EXTENDS Preflight

CONSTANTS home, other, plain, inner, base, solana, usdc, token

TestOrigins == {home, other, plain, inner}
TestSecure == {home, other}
TestBarred == {inner}
TestNetworks == {base, solana}
TestAssets == {usdc, token}
TestPolicies == [network : {base, Missing}, price : {1, Missing}]

Good == [network |-> base, asset |-> usdc, amount |-> 1, text |-> TRUE,
         rest |-> TRUE]
Fair == [status |-> 402, challenge |-> "sound", offers |-> <<Good>>,
         bazaar |-> TRUE, cors |-> TRUE, json |-> TRUE, noStore |-> TRUE]

\* One thing wrong in a single option, and a second option that differs.
Variants ==
    {[Good EXCEPT !.network = n] : n \in TestNetworks \cup {None}}
    \cup {[Good EXCEPT !.asset = a] : a \in {token, None}}
    \cup {[Good EXCEPT !.amount = p, !.text = t] : p \in {2, None}, t \in BOOLEAN}
    \cup {[Good EXCEPT !.rest = FALSE]}
TestTargets ==
    {[Fair EXCEPT !.offers = <<o>>] : o \in Variants}
    \cup {[Fair EXCEPT !.offers = <<Good, o>>] : o \in Variants}
    \cup {[Fair EXCEPT !.offers = <<>>, !.bazaar = FALSE, !.challenge = c] : c \in {"none", "garbled"}}
    \cup {[Fair EXCEPT !.status = 200], [Fair EXCEPT !.bazaar = FALSE],
          [Fair EXCEPT !.cors = FALSE, !.json = FALSE],
          [Fair EXCEPT !.noStore = FALSE]}
=============================================================================
