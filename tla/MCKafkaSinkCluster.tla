------------------------- MODULE MCKafkaSinkCluster -------------------------
(* Small instances of KafkaSinkCluster. *)
EXTENDS KafkaSinkCluster

CONSTANTS b1, b2

MCBrokers == {b1, b2}

\* Clients that authenticate and then fetch, produce, or send three requests,
\* enough to replace a connection twice.
MCKinds == {<<"handshake", "fetch", "other">>, <<"handshake", "split">>,
            <<"handshake", "other", "other", "other">>}

\* A handshake request and one behind it; two ordinary requests; either.
HandshakeKinds == {<<"handshake", "other">>}
PlainKinds == {<<"other", "other">>}
ShortKinds == HandshakeKinds \cup PlainKinds
=============================================================================
