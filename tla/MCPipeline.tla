----------------------------- MODULE MCPipeline ------------------------------
(***************************************************************************)
(* Instances of Pipeline for TLC: two keys of each kind, three addresses.  *)
(***************************************************************************)
EXTENDS Pipeline

CONSTANTS s1, s2, k1, k2, lo, a1, a2

\* Clients that ask every route, with and without packing, encryption and
\* signature, and some whose headers do not fit the body.
MCOther(route, enc, coding, sig, accepts, body) ==
    [route |-> route, encrypted |-> enc, encoding |-> coding, signature |-> sig,
     ip |-> a1, acceptsGzip |-> accepts, body |-> body]

MCOtherRequests ==
    {MCOther(r, "", c, Sign(s, <<>>), acc, b) :
        r \in Routes \ {"grpc"}, c \in {"", "gzip"}, s \in {s1, s2, None}, acc \in BOOLEAN, b \in {<<>>, <<Gzip>>}}
    \union {MCOther(r, e, "gzip", NoSignature, TRUE, b) :
        r \in Routes \ {"grpc"}, e \in {"rsa-aes-gcm", "other"}, b \in {<<RSA(k1), Gzip>>, <<Gzip, RSA(k1)>>, <<Gzip>>}}
    \union {[MCOther("grpc", "", "", NoSignature, FALSE, <<>>) EXCEPT !.ip = i] : i \in {a1, NoAddress}}
    \union {[MCOther("update", "", "", NoSignature, FALSE, <<>>) EXCEPT !.ip = NoAddress]}
=============================================================================
