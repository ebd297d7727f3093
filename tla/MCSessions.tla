----------------------------- MODULE MCSessions -----------------------------
(***************************************************************************)
(* Four requests, two spellings of one address, two passwords, and         *)
(* sessions that last two ticks of a clock that runs for three: time for a *)
(* sign-up, a sign-in and two requests that race on its token.             *)
(***************************************************************************)
EXTENDS Sessions, TLC

CONSTANTS ada, Ada

MCEmails == {ada, Ada}
MCNormal == [e \in MCEmails |-> ada]

Symmetry == Permutations(Requests) \union Permutations(Tokens)
=============================================================================
