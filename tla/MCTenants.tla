------------------------------ MODULE MCTenants ------------------------------
(***************************************************************************)
(* Instances of Tenants for TLC: two tenant ids, two API keys, two threads *)
(* at a time, and a quota of one request an hour and no limit of tokens    *)
(* for one tenant, one token a day and no limit of requests for the other. *)
(* And instances of Codec, which reads what a request authenticates with   *)
(* when that is a token: up to four bytes, of every kind and at every cut. *)
(***************************************************************************)
EXTENDS Tenants, Codec, TLC

CONSTANTS k1, k2, t1, t2

MCThreads == {t1, t2}
MCIds == 1 .. 2
MCKeys == {k1, k2}

MCMaxReqs == <<1, 0>>
MCMaxToks == <<0, 1>>

MCSymmetry == Permutations(MCThreads) \cup Permutations(MCKeys)

MCBytes == {0, 1, 62, 63, 64, 127, 192, 255}
MCData == UNION {[1 .. n -> MCBytes] : n \in 0 .. 4}

\* The encoding is the one of RFC 4648 without padding, and is decoded to
\* what it was made from.
ASSUME MCCodec == \A data \in MCData : EncodesBits(data) /\ RoundTrip(data)
=============================================================================
