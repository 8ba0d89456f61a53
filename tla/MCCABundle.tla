----------------------------- MODULE MCCABundle -----------------------------
(* Labelled ConfigMaps with a plain name and with one that is misread, and   *)
(* the trust store, whose name ends the reading, like the default "ca-certs". *)
EXTENDS CABundle

CONSTANTS corporate, partner, dotted, injected

MCNames == {corporate, partner, dotted, injected}
MCUnparsable == {injected}
MCMisread == {dotted}
=============================================================================
