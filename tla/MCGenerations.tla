---------------------------- MODULE MCGenerations ----------------------------
(* TLC instance of Generations: plain rows and one two-unit envelope. *)
EXTENDS Generations, TLC

CONSTANTS p, q, x, y

OnePlain == {p}
TwoPlain == {p, q}
OnePair == {{x, y}}
MCIds == PlainIds \cup UNION Envelopes
MCJobs == {{i} : i \in PlainIds} \cup Envelopes
=============================================================================
