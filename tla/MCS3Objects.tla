---------------------------- MODULE MCS3Objects ----------------------------
(***************************************************************************)
(* Two gateways each take a put with If-None-Match: * of the same key;     *)
(* nobody repartitions.                                                    *)
(***************************************************************************)
EXTENDS S3Objects

CONSTANTS g1, g2

TwoCreates == <<[gw |-> g1, op |-> "create", key |-> 1], [gw |-> g2, op |-> "create", key |-> 1]>>
Together == {[sent |-> {1, 2}, changers |-> {}, cached |-> FALSE]}
=============================================================================
