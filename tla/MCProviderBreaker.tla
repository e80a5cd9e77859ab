-------------------------- MODULE MCProviderBreaker --------------------------
(* Instances of ProviderBreaker for TLC: the accounts c1 and c2 of a provider *)
(* and the proxy buckets they use.                                            *)
EXTENDS ProviderBreaker, TLC

CONSTANTS c1, c2, direct, proxy

OneBucket == c1 :> proxy
ProxyAndDirect == (c1 :> proxy) @@ (c2 :> direct)
=============================================================================
