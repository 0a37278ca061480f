------------------------------ MODULE Pipeline ------------------------------
(***************************************************************************)
(* One request on its way through the filters of the server and its reply  *)
(* on the way back: for HTTP, cmd/server/main.go puts decryption,          *)
(* unpacking, the check of the signature, packing and, on the update       *)
(* routes, the subnet before the handlers (internal/middleware); for gRPC  *)
(* there is the subnet alone (internal/grpcserver). The agent encodes its  *)
(* reports to match and announces its address (internal/agent/sender.go,   *)
(* grpc.go); the two are configured independently, and other clients send  *)
(* what they like. A body is the JSON, or the gRPC message, in layers of   *)
(* encoding, outermost first; an encrypted layer opens with its key only,  *)
(* and nothing else opens a layer.                                         *)
(***************************************************************************)
EXTENDS Naturals, Sequences

CONSTANTS
    SignKeys,   \* keys for signatures
    CryptKeys,  \* key pairs for encryption
    None,       \* a key, or a gRPC address, that is not configured
    Addresses,  \* addresses of hosts
    Loopback,   \* 127.0.0.1
    NoAddress,  \* no address, or one that does not parse
    OtherRequests \* what clients other than the agent send

OrNone(keys) == keys \union {None}

Routes == {"updates", "update", "path", "value", "get", "list", "ping", "grpc"}
Posts == {"updates", "update", "path", "value"}
Guarded == {"updates", "update", "path"}
ReadsJSON == {"updates", "update", "value"}

Gzip == [tool |-> "gzip", key |-> None]
RSA(k) == [tool |-> "rsa-aes-gcm", key |-> k]
Layer == {Gzip} \union {RSA(k) : k \in CryptKeys}
Body == UNION {[1..n -> Layer] : n \in 0..2}

\* The HMAC of a body; hash.go has none without a key.
Sign(k, b) == IF k = None THEN <<>> ELSE <<k, b>>
NoSignature == <<>>
Signature == {NoSignature} \union (SignKeys \X Body)

Request ==
    [route : Routes, encrypted : {"", "rsa-aes-gcm", "other"}, encoding : {"", "gzip"},
     signature : Signature, ip : Addresses \union {NoAddress}, acceptsGzip : BOOLEAN, body : Body]

ASSUME NoneAssumption == None \notin SignKeys \union CryptKeys
ASSUME AddressAssumption == Loopback \in Addresses /\ NoAddress \notin Addresses
ASSUME RequestsAssumption == OtherRequests \subseteq Request

VARIABLES
    agent,   \* the agent's keys, its connections and its interface
    server,  \* the server's keys and its trusted subnet, in a set of at most one
    sender,  \* who has sent the request
    request, \* its headers and its body, as the next filter finds them
    pc,      \* the next filter, "intercept" for gRPC; "pack" and "sign" on the way back
    handled, \* history: a handler has taken the request's JSON
    headers, \* header map of the reply
    wire     \* what leaves the server: the headers as sent, and the body

config == <<agent, server, sender>>
vars == <<config, request, pc, handled, headers, wire>>

Headers == [type : {"json", "html", "text", "none"}, encoding : {"", "gzip"}, signature : Signature]
NoHeaders == [type |-> "none", encoding |-> "", signature |-> NoSignature]
NoReply == [status |-> "none", headers |-> NoHeaders, layers |-> <<>>, whole |-> TRUE, empty |-> TRUE]

-----------------------------------------------------------------------------
(* The agent *)

\* resolveLocalIP, when the sender is made: a peer stands for the address from
\* which it is reached, Loopback for localhost, NoAddress when it cannot be dialled.
LocalIP(peer, interface) ==
    IF peer # NoAddress THEN peer ELSE IF interface # NoAddress THEN interface ELSE Loopback

\* The address stays that of the HTTP connection.
RealIP_Once(a) == LocalIP(a.http, a.interface)

\* SetGRPCAddress looks for the address anew.
RealIP(a) == LocalIP(IF a.grpc = None THEN a.http ELSE a.grpc, a.interface)

\* encodeRequestBody: packed, and encrypted when there is a key.
Encoded(a) == IF a.cryptKey = None THEN <<Gzip>> ELSE <<RSA(a.cryptKey), Gzip>>

\* The payload is signed as it is sent.
Signed_Payload(a) == Sign(a.signKey, Encoded(a))

\* The signature is that of the JSON, not of the payload.
Signed(a) == Sign(a.signKey, <<>>)

\* SendMetricsBatch: a batch goes over gRPC as soon as that is configured, and
\* then neither key is used.
Report(a) ==
    IF a.grpc # None
      THEN [route |-> "grpc", encoding |-> "", acceptsGzip |-> FALSE, ip |-> RealIP(a),
            encrypted |-> "", signature |-> NoSignature, body |-> <<>>]
      ELSE [route |-> "updates", encoding |-> "gzip", acceptsGzip |-> TRUE, ip |-> RealIP(a),
            encrypted |-> IF a.cryptKey = None THEN "" ELSE "rsa-aes-gcm",
            signature |-> Signed(a), body |-> Encoded(a)]

Agents ==
    [signKey : OrNone(SignKeys), cryptKey : OrNone(CryptKeys),
     http : Addresses \union {NoAddress}, grpc : Addresses \union {NoAddress, None},
     interface : (Addresses \ {Loopback}) \union {NoAddress}]

Init ==
    /\ server \in [signKey : OrNone(SignKeys), cryptKey : OrNone(CryptKeys),
                   subnet : {{}} \union {{{a}} : a \in Addresses}]
    /\ \/ sender = "agent" /\ agent \in Agents /\ request = Report(agent)
       \/ sender = "other" /\ agent = None /\ request \in OtherRequests
    /\ pc = IF request.route = "grpc" THEN "intercept" ELSE "decrypt"
    /\ handled = FALSE
    /\ headers = NoHeaders
    /\ wire = NoReply

-----------------------------------------------------------------------------
(* Replies *)

\* http.Error of a filter that nothing wraps: the reply is finished.
Refuse ==
    /\ headers' = [headers EXCEPT !.type = "text"]
    /\ wire' = [status |-> "error", headers |-> headers', layers |-> <<>>, whole |-> TRUE, empty |-> FALSE]
    /\ pc' = "done"
    /\ UNCHANGED <<config, request, handled>>

\* shouldCompress, for a client that accepts it.
Packs(type) == request.acceptsGzip /\ type \in {"json", "html"}

\* WriteHeader and Write, through gzipWriter and hashResponseWriter, which sends
\* the headers; a packed body stays open.
Reply(status, type, empty) ==
    /\ headers' = [headers EXCEPT !.type = type, !.encoding = IF Packs(type) THEN "gzip" ELSE ""]
    /\ wire' = [status |-> status, headers |-> headers', empty |-> empty,
                layers |-> IF Packs(type) THEN <<Gzip>> ELSE <<>>, whole |-> ~Packs(type)]

-----------------------------------------------------------------------------
(* The filters, outermost first *)

Opens(k, b) == b # <<>> /\ Head(b) = RSA(k)

Decrypt ==
    /\ pc = "decrypt"
    /\ IF request.encrypted = ""
         THEN pc' = "decompress" /\ UNCHANGED <<config, request, handled, headers, wire>>
         ELSE IF request.encrypted = "rsa-aes-gcm" /\ server.cryptKey # None
                 /\ Opens(server.cryptKey, request.body)
         THEN /\ request' = [request EXCEPT !.body = Tail(@), !.encrypted = ""]
              /\ pc' = "decompress"
              /\ UNCHANGED <<config, handled, headers, wire>>
         ELSE Refuse

Decompress ==
    /\ pc = "decompress"
    /\ IF request.encoding = ""
         THEN pc' = "verify" /\ UNCHANGED <<config, request, handled, headers, wire>>
         ELSE IF request.body # <<>> /\ Head(request.body) = Gzip
         THEN /\ request' = [request EXCEPT !.body = Tail(@), !.encoding = ""]
              /\ pc' = "verify"
              /\ UNCHANGED <<config, handled, headers, wire>>
         ELSE Refuse

\* A request without a signature passes, as one to a server without a key.
SignatureFits ==
    \/ server.signKey = None
    \/ request.route \notin Posts
    \/ request.signature \in {NoSignature, Sign(server.signKey, request.body)}

Verify ==
    /\ pc = "verify"
    /\ IF SignatureFits
         THEN pc' = "subnet" /\ UNCHANGED <<config, request, handled, headers, wire>>
         ELSE Refuse

Trusted == server.subnet = {} \/ \E net \in server.subnet : request.ip \in net

\* TrustedSubnetInterceptor, which is all that stands before the gRPC handler.
Intercept ==
    /\ pc = "intercept"
    /\ IF Trusted
         THEN pc' = "handler" /\ UNCHANGED <<headers, wire>>
         ELSE Reply("forbidden", "none", TRUE) /\ pc' = "done"
    /\ UNCHANGED <<config, request, handled>>

\* TrustedSubnet stands before the routes that update.
Subnet ==
    /\ pc = "subnet"
    /\ IF request.route \in Guarded /\ ~Trusted
         THEN Reply("forbidden", "text", FALSE) /\ pc' = "pack"
         ELSE pc' = "handler" /\ UNCHANGED <<headers, wire>>
    /\ UNCHANGED <<config, request, handled>>

OKType(route) ==
    CASE route \in {"updates", "update", "value"} -> "json"
      [] route = "list" -> "html"
      [] route \in {"path", "get"} -> "text"
      [] route \in {"ping", "grpc"} -> "none"
OKEmpty(route) == route \in {"updates", "path", "ping", "grpc"}

\* A handler that needs JSON refuses what is not; any may refuse what it reads.
Handler ==
    /\ pc = "handler"
    /\ LET readable == request.route \in ReadsJSON => request.body = <<>>
       IN  /\ handled' = readable
           /\ \/ readable /\ Reply("ok", OKType(request.route), OKEmpty(request.route))
              \/ Reply("error", "text", FALSE)
    /\ pc' = IF request.route = "grpc" THEN "done" ELSE "pack"
    /\ UNCHANGED <<config, request>>

-----------------------------------------------------------------------------
(* The way back *)

\* GzipCompress does not close its writer.
Pack_NoClose == pc = "pack" /\ pc' = "sign" /\ UNCHANGED <<config, request, handled, headers, wire>>

\* gz.Close ends a packed body, and makes one where nothing was written.
Pack ==
    /\ pc = "pack"
    /\ wire' = [wire EXCEPT !.whole = TRUE, !.empty = @ /\ wire.layers = <<>>]
    /\ pc' = "sign"
    /\ UNCHANGED <<config, request, handled, headers>>

\* HashVerify sets its header after the body; the headers have been sent.
SignReply ==
    /\ pc = "sign"
    /\ headers' = IF wire.empty THEN headers
                  ELSE [headers EXCEPT !.signature = Sign(server.signKey, wire.layers)]
    /\ pc' = "done"
    /\ UNCHANGED <<config, request, handled, wire>>

Next ==
    \/ Intercept
    \/ Decrypt \/ Decompress \/ Verify \/ Subnet \/ Handler
    \/ Pack \/ SignReply

Spec == Init /\ [][Next]_vars

-----------------------------------------------------------------------------
(* Properties *)

\* The address from which the agent's connection leaves, if it has one.
Source == IF agent.grpc = None THEN agent.http ELSE agent.grpc

Compatible ==
    /\ agent.grpc = None =>
        /\ agent.cryptKey \in {None, server.cryptKey}
        /\ agent.signKey = None \/ server.signKey \in {None, agent.signKey}
    /\ server.subnet = {} \/ {Source} \in server.subnet

\* A handler takes a report of the agent exactly when the two configurations fit,
\* and then it reads what the agent has built, all layers off. The subnet looks
\* at the address that the agent announces, found once when the sender is made
\* (sender.go 259-281): it is the one the agent really uses, unless the
\* server could not be dialled then.
AgentUnderstood ==
    sender = "agent" /\ pc = "done" =>
        /\ Source # NoAddress => (handled <=> Compatible)
        /\ wire.status = "ok" => handled /\ request.body = <<>>

\* Whoever asks, the reply can be read: it is packed only for a client that
\* accepts it, its header says so, and the packed body is complete.
ReplyIsReadable ==
    pc = "done" =>
        /\ wire.headers.encoding = "gzip" <=> wire.layers = <<Gzip>>
        /\ wire.layers # <<>> => request.acceptsGzip
        /\ wire.whole

\* HashVerify "signs outgoing responses using the provided key" (hashverify.go
\* 22-23): the reply to a request it has passed on, if there is a body.
RepliesSigned ==
    pc = "done" /\ wire.status = "ok" /\ ~wire.empty =>
        wire.headers.signature = Sign(server.signKey, wire.layers)
=============================================================================
