---------------------------- MODULE MCHandshake ----------------------------
(* Handshake with values for its constants. *)
EXTENDS Handshake

\* The server's algorithms, and clients that share none, one, or both.
EnabledAlgorithms == {"curve25519", "sntrup761"}
AllPreferences  == {<<"curve25519">>, <<"ecdh", "curve25519">>,
                    <<"sntrup761", "curve25519">>, <<"ecdh">>}
============================================================================
