--------------------------- MODULE PipelineProofs ----------------------------
(***************************************************************************)
(* Proofs about Pipeline: for any keys, any addresses and any requests of  *)
(* other clients, the agent is understood exactly when its configuration   *)
(* and the server's fit, a handler takes only what every filter before it  *)
(* has passed, and every reply can be read.                                *)
(***************************************************************************)
EXTENDS Pipeline, TLAPS

-----------------------------------------------------------------------------
(* The invariant *)

Servers == [signKey : OrNone(SignKeys), cryptKey : OrNone(CryptKeys),
            subnet : {{}} \union {{{a}} : a \in Addresses}]

OnTheWayIn == {"intercept", "decrypt", "decompress", "verify", "subnet", "handler"}
OnTheWayBack == {"pack", "sign", "done"}

\* What leaves the server has one layer at most.
Wires == [status : {"none", "ok", "error", "forbidden"}, headers : Headers,
          layers : {<<>>, <<Gzip>>}, whole : BOOLEAN, empty : BOOLEAN]

TypeOK ==
    /\ server \in Servers
    /\ \/ sender = "agent" /\ agent \in Agents
       \/ sender = "other" /\ agent = None
    /\ request \in Request
    /\ pc \in OnTheWayIn \union OnTheWayBack
    /\ handled \in BOOLEAN
    /\ headers \in Headers
    /\ wire \in Wires

\* Nothing is written before the reply, and a packed reply is whole once it is closed.
ReplyInv ==
    /\ pc \in OnTheWayIn => headers = NoHeaders /\ wire = NoReply /\ ~handled
    /\ wire.headers.encoding = "gzip" <=> wire.layers = <<Gzip>>
    /\ wire.layers # <<>> => request.acceptsGzip
    /\ pc \in {"sign", "done"} => wire.whole

\* What the filters have passed, whoever has sent it. SignatureFits goes on being
\* true of a request that has passed Verify, Trusted of one that has passed the subnet.
Checked ==
    /\ SignatureFits
    /\ request.route \in Guarded \union {"grpc"} => Trusted
    /\ request.route \in ReadsJSON => request.body = <<>>

CheckedInv ==
    /\ pc = "intercept" => request.route = "grpc"
    /\ pc \in {"decrypt", "decompress", "verify", "subnet"} => request.route # "grpc"
    /\ pc \in {"subnet", "handler"} => SignatureFits
    /\ pc = "handler" /\ request.route \in Guarded \union {"grpc"} => Trusted
    /\ handled => Checked

\* The two halves of Compatible; the server judges the address that is announced.
CryptFits == agent.cryptKey \in {None, server.cryptKey}
SignFits == agent.signKey = None \/ server.signKey \in {None, agent.signKey}
KeysFit == agent.grpc = None => CryptFits /\ SignFits
Admitted == server.subnet = {} \/ \E net \in server.subnet : RealIP(agent) \in net

\* The agent's report after Decrypt, and after Decompress.
Decrypted(a) == [Report(a) EXCEPT !.encrypted = "", !.body = <<Gzip>>]
Bare(a) == [Report(a) EXCEPT !.encrypted = "", !.encoding = "", !.body = <<>>]

\* How far the report has come says what fits; where it was refused, something does not.
AgentInv ==
    sender = "agent" =>
        /\ pc = "intercept" => agent.grpc # None /\ request = Report(agent)
        /\ pc \in {"decrypt", "decompress", "verify", "subnet"} => agent.grpc = None
        /\ pc = "decrypt" => request = Report(agent)
        /\ pc = "decompress" => request = Decrypted(agent) /\ CryptFits
        /\ pc = "verify" => request = Bare(agent) /\ CryptFits
        /\ pc \in {"subnet", "handler"} => request = Bare(agent) /\ KeysFit
        /\ pc = "handler" => Admitted
        /\ pc \in OnTheWayBack =>
              \/ handled /\ request.body = <<>> /\ KeysFit /\ Admitted
              \/ ~handled /\ wire.status # "ok" /\ ~(KeysFit /\ Admitted)

IInv == TypeOK /\ ReplyInv /\ CheckedInv /\ AgentInv

-----------------------------------------------------------------------------
(* Layers, bodies and signatures *)

LEMMA LayersDiffer ==
    /\ Gzip \in Layer
    /\ \A k : Gzip # RSA(k)
    /\ \A k, l : RSA(k) = RSA(l) <=> k = l
    /\ \A k \in CryptKeys : RSA(k) \in Layer
BY DEF Gzip, RSA, Layer

\* A body is a sequence of at most two layers.
LEMMA Bodies ==
    /\ <<>> \in Body
    /\ \A l \in Layer : <<l>> \in Body
    /\ \A l, m \in Layer : <<l, m>> \in Body
    /\ \A b \in Body : b # <<>> => Tail(b) \in Body
<1> DEFINE Long(n) == [1..n -> Layer]
<1>1. Body = UNION {Long(n) : n \in 0..2}
  BY DEF Body
<1>2. <<>> \in Long(0)
  OBVIOUS
<1>3. \A l \in Layer : <<l>> \in Long(1)
  OBVIOUS
<1>4. \A l, m \in Layer : <<l, m>> \in Long(2)
  OBVIOUS
<1>5. ASSUME NEW b \in Body, b # <<>>
      PROVE  Tail(b) \in Body
  <2>1. PICK n \in 0..2 : b \in Long(n)
    BY <1>1
  <2>2. b \in Seq(Layer) /\ Len(b) = n
    BY <2>1
  <2>3. n \in 1..2
    BY <2>1, <2>2, <1>5
  <2>4. Tail(b) \in Seq(Layer) /\ Len(Tail(b)) = n - 1
    BY <2>2, <2>3
  <2> DEFINE t == Tail(b)
  <2> HIDE DEF t
  <2>5. t \in Seq(Layer) /\ Len(t) = n - 1
    BY <2>4 DEF t
  <2>6. t \in [1..Len(t) -> Layer]
    BY <2>5
  <2>7. Tail(b) \in Long(n - 1)
    BY <2>5, <2>6 DEF t
  <2> QED
    BY <1>1, <2>3, <2>7
<1> HIDE DEF Long
<1> QED
  BY <1>1, <1>2, <1>3, <1>4, <1>5

\* Two keys sign a body alike only if they are the same key.
LEMMA Signatures ==
    /\ NoSignature \in Signature
    /\ \A k \in OrNone(SignKeys), b \in Body : Sign(k, b) \in Signature
    /\ \A k \in SignKeys, b \in Body : Sign(k, b) # NoSignature
    /\ \A k, l \in SignKeys, b \in Body : Sign(k, b) = Sign(l, b) <=> k = l
    /\ \A b \in Body : Sign(None, b) = NoSignature
BY NoneAssumption DEF Sign, NoSignature, Signature, OrNone

-----------------------------------------------------------------------------
(* The report of the agent *)

LEMMA ReportType ==
    ASSUME NEW a \in Agents
    PROVE  /\ Report(a) \in Request
           /\ Report(a).ip = RealIP(a)
           /\ a.grpc # None => Report(a).route = "grpc" /\ Report(a) = Bare(a)
           /\ a.grpc = None => Report(a).route = "updates" /\ Report(a).signature = Signed(a)
<1>1. RealIP(a) \in Addresses \union {NoAddress}
  BY AddressAssumption DEF RealIP, LocalIP, Agents
<1>2. Encoded(a) \in Body /\ <<>> \in Body
  BY LayersDiffer, Bodies DEF Encoded, Agents, OrNone
<1>3. Signed(a) \in Signature /\ NoSignature \in Signature
  BY <1>2, Signatures DEF Signed, Agents
<1>4. CASE a.grpc # None
  <2> DEFINE g == [route |-> "grpc", encoding |-> "", acceptsGzip |-> FALSE, ip |-> RealIP(a),
                   encrypted |-> "", signature |-> NoSignature, body |-> <<>>]
  <2>1. Report(a) = g
    BY <1>4 DEF Report
  <2>2. g \in Request
    BY <1>1, <1>2, <1>3 DEF Request, Routes
  <2>3. g.encrypted = "" /\ g.encoding = "" /\ g.body = <<>>
    OBVIOUS
  <2> HIDE DEF g
  <2>4. [g EXCEPT !.encrypted = "", !.encoding = "", !.body = <<>>] = g
    BY <2>2, <2>3 DEF Request
  <2>5. Report(a).route = "grpc" /\ Report(a).ip = RealIP(a)
    BY <1>4 DEF Report
  <2> QED
    BY <1>4, <2>1, <2>2, <2>4, <2>5 DEF Bare
<1>5. CASE a.grpc = None
  <2>1. Report(a) \in Request
    BY <1>1, <1>2, <1>3, <1>5 DEF Report, Request, Routes
  <2> QED
    BY <1>5, <2>1 DEF Report
<1> QED
  BY <1>4, <1>5

\* The address announced is the one used, if there is one.
LEMMA Announced ==
    ASSUME TypeOK, sender = "agent", Source # NoAddress
    PROVE  /\ RealIP(agent) = Source
           /\ Admitted <=> server.subnet = {} \/ {Source} \in server.subnet
<1>1. RealIP(agent) = Source
  BY DEF RealIP, LocalIP, Source
<1>2. PICK nets \in {{}} \union {{{a}} : a \in Addresses} : server.subnet = nets
  BY DEF TypeOK, Servers
<1> QED
  BY <1>1, <1>2 DEF Admitted

-----------------------------------------------------------------------------
(* What the two ways to answer do *)

LEMMA NoReplyFacts ==
    /\ NoReply.layers = <<>> /\ NoReply.headers.encoding = "" /\ NoReply.whole
    /\ <<>> # <<Gzip>>
<1>1. NoReply.headers = NoHeaders /\ NoReply.layers = <<>> /\ NoReply.whole
  BY DEF NoReply
<1>2. NoHeaders.encoding = ""
  BY DEF NoHeaders
<1>3. <<>> # <<Gzip>>
  OBVIOUS
<1> QED
  BY <1>1, <1>2, <1>3

LEMMA RefuseKeeps ==
    ASSUME TypeOK, headers = NoHeaders, Refuse
    PROVE  /\ headers' \in Headers /\ wire' \in Wires
           /\ wire'.headers.encoding = "" /\ wire'.layers = <<>> /\ wire'.whole
           /\ wire'.status = "error" /\ pc' = "done"
BY Signatures DEF Refuse, Headers, NoHeaders, Wires, TypeOK

LEMMA ReplyKeeps ==
    ASSUME TypeOK, headers = NoHeaders,
           NEW status \in {"ok", "error", "forbidden"}, NEW type \in {"json", "html", "text", "none"},
           NEW empty \in BOOLEAN, Reply(status, type, empty)
    PROVE  /\ headers' \in Headers /\ wire' \in Wires
           /\ wire'.headers.encoding = "gzip" <=> wire'.layers = <<Gzip>>
           /\ wire'.layers # <<>> => request.acceptsGzip
           /\ type \in {"text", "none"} => wire'.whole
           /\ wire'.status = status
BY Signatures DEF Reply, Packs, Headers, NoHeaders, Wires, TypeOK, Request

-----------------------------------------------------------------------------
(* What the filters ask, of the agent's report *)

\* The report with its layers off keeps the address, the route and the signature.
LEMMA BareReport ==
    ASSUME NEW a \in Agents
    PROVE  /\ Bare(a) \in Request
           /\ Bare(a).ip = RealIP(a) /\ Bare(a).body = <<>>
           /\ Bare(a).encoding = "" /\ Bare(a).encrypted = ""
           /\ a.grpc # None => Bare(a).route = "grpc"
           /\ a.grpc = None => Bare(a).route = "updates" /\ Bare(a).signature = Signed(a)
BY ReportType, Bodies DEF Bare, Request

\* Verify passes the report when the keys for signatures fit.
LEMMA VerifyAsks ==
    ASSUME TypeOK, sender = "agent", request = Bare(agent)
    PROVE  agent.grpc = None => (SignatureFits <=> SignFits)
<1> SUFFICES ASSUME agent.grpc = None PROVE SignatureFits <=> SignFits
  OBVIOUS
<1>1. agent \in Agents /\ server.signKey \in OrNone(SignKeys) /\ agent.signKey \in OrNone(SignKeys)
  BY DEF TypeOK, Servers, Agents
<1>2. request.route = "updates" /\ request.body = <<>> /\ request.signature = Sign(agent.signKey, <<>>)
  BY <1>1, BareReport DEF Signed
<1>3. request.route \in Posts
  BY <1>2 DEF Posts
<1>4. SignatureFits <=> \/ server.signKey = None
                        \/ Sign(agent.signKey, <<>>) \in {NoSignature, Sign(server.signKey, <<>>)}
  BY <1>2, <1>3 DEF SignatureFits
<1>5. CASE agent.signKey = None
  BY <1>4, <1>5, Signatures, Bodies DEF SignFits
<1>6. CASE server.signKey = None
  BY <1>4, <1>6 DEF SignFits
<1>7. CASE agent.signKey # None /\ server.signKey # None
  <2>1. agent.signKey \in SignKeys /\ server.signKey \in SignKeys
    BY <1>1, <1>7 DEF OrNone
  <2>2. /\ Sign(agent.signKey, <<>>) # NoSignature
        /\ Sign(agent.signKey, <<>>) = Sign(server.signKey, <<>>) <=> agent.signKey = server.signKey
    BY <2>1, Signatures, Bodies
  <2> QED
    BY <1>4, <1>7, <2>2 DEF SignFits
<1> QED
  BY <1>5, <1>6, <1>7

\* The subnet judges the address of the report.
LEMMA SubnetAsks ==
    ASSUME TypeOK, sender = "agent", request.ip = RealIP(agent)
    PROVE  Trusted <=> Admitted
BY DEF Trusted, Admitted

-----------------------------------------------------------------------------
(* Init and the steps *)

LEMMA InitInv ==
    ASSUME Init
    PROVE  IInv
<1>1. headers \in Headers /\ wire \in Wires
  BY Signatures DEF Init, Headers, NoHeaders, NoReply, Wires
<1>2. request \in Request
  BY ReportType, RequestsAssumption DEF Init
<1>3. TypeOK
  BY <1>1, <1>2 DEF Init, TypeOK, Servers, OnTheWayIn, OnTheWayBack
<1>4. ReplyInv
  BY NoReplyFacts DEF Init, ReplyInv
<1>5. CheckedInv
  BY DEF Init, CheckedInv
<1>6. AgentInv
  BY ReportType DEF Init, AgentInv, OnTheWayBack
<1> QED
  BY <1>3, <1>4, <1>5, <1>6 DEF IInv

\* A filter that refuses does so for a reason.
LEMMA RefuseInv ==
    ASSUME IInv, Refuse, pc \in OnTheWayIn, sender = "agent" => ~(KeysFit /\ Admitted)
    PROVE  IInv'
<1> USE DEF IInv
<1>1. headers = NoHeaders /\ ~handled
  BY DEF ReplyInv
<1>2. /\ headers' \in Headers /\ wire' \in Wires
      /\ wire'.headers.encoding = "" /\ wire'.layers = <<>> /\ wire'.whole
      /\ wire'.status = "error" /\ pc' = "done"
  BY <1>1, RefuseKeeps
<1>3. UNCHANGED <<config, request, handled>>
  BY DEF Refuse
<1>4. TypeOK'
  BY <1>2, <1>3 DEF TypeOK, OnTheWayBack, config
<1>5. ReplyInv'
  BY <1>2, <1>3, NoReplyFacts DEF ReplyInv, OnTheWayIn
<1>6. CheckedInv'
  BY <1>1, <1>2, <1>3 DEF CheckedInv
<1>7. AgentInv'
  BY <1>1, <1>2, <1>3 DEF AgentInv, KeysFit, CryptFits, SignFits, Admitted, config, RealIP, LocalIP, OnTheWayBack
<1> QED
  BY <1>4, <1>5, <1>6, <1>7

\* A filter that passes the request on writes nothing; what it does to the
\* request is left to each.
LEMMA PassKeeps ==
    ASSUME IInv, pc \in OnTheWayIn, request' \in Request, pc' \in OnTheWayIn,
           UNCHANGED <<config, handled, headers, wire>>
    PROVE  TypeOK' /\ ReplyInv'
<1> USE DEF IInv
<1>1. TypeOK'
  BY DEF TypeOK, config
<1>2. headers' = NoHeaders /\ wire' = NoReply /\ ~handled'
  BY DEF ReplyInv
<1>3. wire'.layers = <<>> /\ wire'.headers.encoding = "" /\ wire'.whole
  BY <1>2, NoReplyFacts
<1>4. ReplyInv'
  BY <1>2, <1>3, NoReplyFacts DEF ReplyInv
<1> QED
  BY <1>1, <1>4

LEMMA InterceptInv ==
    ASSUME IInv, Intercept
    PROVE  IInv'
<1> USE DEF IInv
<1>1. pc = "intercept" /\ UNCHANGED <<config, request, handled>> /\ ~handled /\ headers = NoHeaders
  BY DEF Intercept, ReplyInv, OnTheWayIn
<1>2. request.route = "grpc"
  BY <1>1 DEF CheckedInv
<1>3. sender = "agent" => /\ agent \in Agents /\ agent.grpc # None /\ request = Bare(agent)
                          /\ request.ip = RealIP(agent) /\ KeysFit /\ (Trusted <=> Admitted)
  BY <1>1, ReportType, SubnetAsks DEF AgentInv, TypeOK, KeysFit
<1>4. UNCHANGED <<SignatureFits, Trusted, KeysFit, Admitted>>
  BY <1>1 DEF config, SignatureFits, Trusted, KeysFit, CryptFits, SignFits, Admitted, RealIP, LocalIP
<1>5. CASE Trusted
  <2>1. pc' = "handler" /\ UNCHANGED <<headers, wire>>
    BY <1>5 DEF Intercept
  <2>2. TypeOK' /\ ReplyInv'
    BY <1>1, <2>1, PassKeeps DEF TypeOK, OnTheWayIn
  <2>3. SignatureFits
    BY <1>2 DEF SignatureFits, Posts
  <2>4. CheckedInv'
    BY <1>1, <1>2, <1>4, <1>5, <2>1, <2>3 DEF CheckedInv
  <2>5. AgentInv'
    BY <1>1, <1>3, <1>4, <1>5, <2>1 DEF AgentInv, config, OnTheWayBack, Bare, Report, RealIP, LocalIP, Signed, Encoded
  <2> QED
    BY <2>2, <2>4, <2>5
<1>6. CASE ~Trusted
  <2>1. Reply("forbidden", "none", TRUE) /\ pc' = "done"
    BY <1>6 DEF Intercept
  <2>2. /\ headers' \in Headers /\ wire' \in Wires
        /\ wire'.headers.encoding = "gzip" <=> wire'.layers = <<Gzip>>
        /\ wire'.layers # <<>> => request.acceptsGzip
        /\ wire'.whole
        /\ wire'.status = "forbidden"
    BY <1>1, <2>1, ReplyKeeps
  <2>3. TypeOK'
    BY <1>1, <2>1, <2>2 DEF TypeOK, OnTheWayBack, config
  <2>4. ReplyInv'
    BY <1>1, <2>1, <2>2 DEF ReplyInv, OnTheWayIn
  <2>5. CheckedInv'
    BY <1>1, <2>1 DEF CheckedInv
  <2>6. AgentInv'
    BY <1>1, <1>3, <1>4, <1>6, <2>1, <2>2 DEF AgentInv, config, OnTheWayBack
  <2> QED
    BY <2>3, <2>4, <2>5, <2>6
<1> QED
  BY <1>5, <1>6

LEMMA DecryptInv ==
    ASSUME IInv, Decrypt
    PROVE  IInv'
<1> USE DEF IInv
<1>1. pc = "decrypt" /\ pc \in OnTheWayIn /\ ~handled /\ request.route # "grpc" /\ request \in Request
  BY DEF Decrypt, ReplyInv, CheckedInv, OnTheWayIn, TypeOK
<1>2. sender = "agent" => agent \in Agents /\ agent.grpc = None /\ request = Report(agent)
  BY <1>1 DEF AgentInv, TypeOK
<1>3. sender = "agent" =>
        /\ agent.cryptKey = None => request.encrypted = "" /\ request.body = <<Gzip>>
        /\ agent.cryptKey # None => /\ request.encrypted = "rsa-aes-gcm"
                                    /\ request.body = <<RSA(agent.cryptKey), Gzip>>
  <2>1. SUFFICES ASSUME sender = "agent"
                 PROVE  /\ agent.cryptKey = None => request.encrypted = "" /\ request.body = <<Gzip>>
                        /\ agent.cryptKey # None => /\ request.encrypted = "rsa-aes-gcm"
                                                    /\ request.body = <<RSA(agent.cryptKey), Gzip>>
    OBVIOUS
  <2>2. request = Report(agent) /\ agent.grpc = None
    BY <1>2, <2>1
  <2>3. request.body = Encoded(agent)
    BY <2>2 DEF Report
  <2>4. agent.cryptKey = None => request.encrypted = ""
    BY <2>2 DEF Report
  <2>5. agent.cryptKey # None => request.encrypted = "rsa-aes-gcm"
    BY <2>2 DEF Report
  <2> QED
    BY <2>3, <2>4, <2>5 DEF Encoded
<1>4. ASSUME UNCHANGED config
      PROVE  UNCHANGED <<KeysFit, CryptFits>>
  BY <1>4 DEF config, KeysFit, CryptFits, SignFits
<1>5. CASE request.encrypted = ""
  <2>1. pc' = "decompress" /\ UNCHANGED <<config, request, handled, headers, wire>>
    BY <1>5 DEF Decrypt
  <2>2. TypeOK' /\ ReplyInv'
    BY <1>1, <2>1, PassKeeps DEF OnTheWayIn
  <2>3. CheckedInv'
    BY <1>1, <2>1 DEF CheckedInv
  <2>4. ASSUME sender = "agent"
        PROVE  request = Decrypted(agent) /\ CryptFits
    <3>1. agent.cryptKey = None /\ request.body = <<Gzip>>
      BY <1>3, <1>5, <2>4
    <3>2. request = [request EXCEPT !.encrypted = "", !.body = <<Gzip>>]
      BY <1>1, <1>5, <3>1 DEF Request
    <3> QED
      BY <1>2, <2>4, <3>1, <3>2 DEF Decrypted, CryptFits
  <2>5. AgentInv'
    BY <1>2, <1>4, <2>1, <2>4 DEF AgentInv, config, OnTheWayBack, Decrypted, Report, RealIP, LocalIP, Signed, Encoded
  <2> QED
    BY <2>2, <2>3, <2>5
<1>6. CASE /\ request.encrypted = "rsa-aes-gcm" /\ server.cryptKey # None
           /\ Opens(server.cryptKey, request.body)
  <2>1. /\ request' = [request EXCEPT !.body = Tail(@), !.encrypted = ""]
        /\ pc' = "decompress"
        /\ UNCHANGED <<config, handled, headers, wire>>
    BY <1>6 DEF Decrypt
  <2>2. Tail(request.body) \in Body
    BY <1>1, <1>6, Bodies DEF Opens, Request
  <2>3. request' \in Request /\ request'.route = request.route
    BY <1>1, <2>1, <2>2 DEF Request
  <2>4. TypeOK' /\ ReplyInv'
    BY <1>1, <2>1, <2>3, PassKeeps DEF OnTheWayIn
  <2>5. CheckedInv'
    BY <1>1, <2>1, <2>3 DEF CheckedInv
  <2>6. ASSUME sender = "agent"
        PROVE  request' = Decrypted(agent) /\ CryptFits
    <3>1. agent.cryptKey # None /\ request.body = <<RSA(agent.cryptKey), Gzip>>
      BY <1>3, <1>6, <2>6
    <3>2. Head(request.body) = RSA(agent.cryptKey) /\ Tail(request.body) = <<Gzip>>
      BY <3>1
    <3>3. agent.cryptKey = server.cryptKey
      BY <1>6, <3>2, LayersDiffer DEF Opens
    <3>4. request' = [request EXCEPT !.encrypted = "", !.body = <<Gzip>>]
      BY <1>1, <2>1, <3>2 DEF Request
    <3> QED
      BY <1>2, <2>6, <3>3, <3>4 DEF Decrypted, CryptFits
  <2>7. AgentInv'
    BY <1>2, <1>4, <2>1, <2>6 DEF AgentInv, config, OnTheWayBack, Decrypted, Report, RealIP, LocalIP, Signed, Encoded
  <2> QED
    BY <2>4, <2>5, <2>7
<1>7. CASE /\ request.encrypted # ""
           /\ ~(/\ request.encrypted = "rsa-aes-gcm" /\ server.cryptKey # None
                /\ Opens(server.cryptKey, request.body))
  <2>1. Refuse
    BY <1>7 DEF Decrypt
  <2>2. ASSUME sender = "agent"
        PROVE  ~KeysFit
    <3>1. agent.cryptKey # None /\ request.body = <<RSA(agent.cryptKey), Gzip>>
          /\ request.encrypted = "rsa-aes-gcm"
      BY <1>3, <1>7, <2>2
    <3>2. request.body # <<>> /\ Head(request.body) = RSA(agent.cryptKey)
      BY <3>1
    <3>3. agent.cryptKey # server.cryptKey
      BY <1>7, <3>1, <3>2 DEF Opens
    <3> QED
      BY <1>2, <2>2, <3>1, <3>3 DEF KeysFit, CryptFits
  <2> QED
    BY <1>1, <2>1, <2>2, RefuseInv
<1> QED
  BY <1>5, <1>6, <1>7

LEMMA DecompressInv ==
    ASSUME IInv, Decompress
    PROVE  IInv'
<1> USE DEF IInv
<1>1. pc = "decompress" /\ pc \in OnTheWayIn /\ ~handled /\ request.route # "grpc" /\ request \in Request
  BY DEF Decompress, ReplyInv, CheckedInv, OnTheWayIn, TypeOK
<1>2. sender = "agent" =>
        agent \in Agents /\ agent.grpc = None /\ request = Decrypted(agent) /\ CryptFits
  BY <1>1 DEF AgentInv, TypeOK
<1>3. sender = "agent" =>
        /\ request.encoding = "gzip" /\ request.body = <<Gzip>>
        /\ [request EXCEPT !.encoding = "", !.body = <<>>] = Bare(agent)
  <2>1. SUFFICES ASSUME sender = "agent"
                 PROVE  /\ request.encoding = "gzip" /\ request.body = <<Gzip>>
                        /\ [request EXCEPT !.encoding = "", !.body = <<>>] = Bare(agent)
    OBVIOUS
  <2>2. Report(agent) \in Request /\ Report(agent).encoding = "gzip"
    BY <1>2, <2>1, ReportType DEF Report
  <2>3. request = [Report(agent) EXCEPT !.encrypted = "", !.body = <<Gzip>>]
    BY <1>2, <2>1 DEF Decrypted
  <2>4. request.encoding = "gzip" /\ request.body = <<Gzip>>
    BY <2>2, <2>3 DEF Request
  <2>5. [request EXCEPT !.encoding = "", !.body = <<>>] = Bare(agent)
    BY <2>2, <2>3 DEF Request, Bare
  <2> QED
    BY <2>4, <2>5
<1>4. ASSUME UNCHANGED config
      PROVE  UNCHANGED CryptFits
  BY <1>4 DEF config, CryptFits
<1>5. CASE request.encoding = ""
  <2>1. pc' = "verify" /\ UNCHANGED <<config, request, handled, headers, wire>>
    BY <1>5 DEF Decompress
  <2>2. TypeOK' /\ ReplyInv'
    BY <1>1, <2>1, PassKeeps DEF OnTheWayIn
  <2>3. CheckedInv'
    BY <1>1, <2>1 DEF CheckedInv
  <2>4. AgentInv'
    BY <1>3, <1>5, <2>1 DEF AgentInv, config
  <2> QED
    BY <2>2, <2>3, <2>4
<1>6. CASE request.encoding # "" /\ request.body # <<>> /\ Head(request.body) = Gzip
  <2>1. /\ request' = [request EXCEPT !.body = Tail(@), !.encoding = ""]
        /\ pc' = "verify"
        /\ UNCHANGED <<config, handled, headers, wire>>
    BY <1>6 DEF Decompress
  <2>2. Tail(request.body) \in Body
    BY <1>1, <1>6, Bodies DEF Request
  <2>3. request' \in Request /\ request'.route = request.route
    BY <1>1, <2>1, <2>2 DEF Request
  <2>4. TypeOK' /\ ReplyInv'
    BY <1>1, <2>1, <2>3, PassKeeps DEF OnTheWayIn
  <2>5. CheckedInv'
    BY <1>1, <2>1, <2>3 DEF CheckedInv
  <2>6. ASSUME sender = "agent"
        PROVE  request' = Bare(agent)
    <3>1. request.body = <<Gzip>> /\ Tail(<<Gzip>>) = <<>>
      BY <1>3, <2>6
    <3>2. request' = [request EXCEPT !.encoding = "", !.body = <<>>]
      BY <1>1, <2>1, <3>1 DEF Request
    <3> QED
      BY <1>3, <2>6, <3>2
  <2>7. AgentInv'
    BY <1>2, <1>4, <2>1, <2>6 DEF AgentInv, config, OnTheWayBack, Bare, Report, RealIP, LocalIP, Signed, Encoded
  <2> QED
    BY <2>4, <2>5, <2>7
<1>7. CASE request.encoding # "" /\ ~(request.body # <<>> /\ Head(request.body) = Gzip)
  <2>1. Refuse
    BY <1>7 DEF Decompress
  <2>2. sender # "agent"
    <3>1. <<Gzip>> # <<>> /\ Head(<<Gzip>>) = Gzip
      OBVIOUS
    <3> QED
      BY <1>3, <1>7, <3>1
  <2> QED
    BY <1>1, <2>1, <2>2, RefuseInv
<1> QED
  BY <1>5, <1>6, <1>7

LEMMA VerifyInv ==
    ASSUME IInv, Verify
    PROVE  IInv'
<1> USE DEF IInv
<1>1. pc = "verify" /\ pc \in OnTheWayIn /\ ~handled /\ request.route # "grpc" /\ request \in Request
  BY DEF Verify, ReplyInv, CheckedInv, OnTheWayIn, TypeOK
<1>2. sender = "agent" => /\ agent.grpc = None /\ request = Bare(agent) /\ CryptFits
                          /\ SignatureFits <=> SignFits
  BY <1>1, VerifyAsks DEF AgentInv
<1>3. CASE SignatureFits
  <2>1. pc' = "subnet" /\ UNCHANGED <<config, request, handled, headers, wire>>
    BY <1>3 DEF Verify
  <2>2. TypeOK' /\ ReplyInv'
    BY <1>1, <2>1, PassKeeps DEF OnTheWayIn
  <2>3. CheckedInv'
    BY <1>1, <1>3, <2>1 DEF CheckedInv, SignatureFits, config
  <2>4. AgentInv'
    BY <1>2, <1>3, <2>1 DEF AgentInv, config, OnTheWayBack, Bare, Report, RealIP, LocalIP, Signed, Encoded,
                            KeysFit, CryptFits, SignFits
  <2> QED
    BY <2>2, <2>3, <2>4
<1>4. CASE ~SignatureFits
  <2>1. Refuse
    BY <1>4 DEF Verify
  <2>2. sender = "agent" => ~KeysFit
    BY <1>2, <1>4 DEF KeysFit
  <2> QED
    BY <1>1, <2>1, <2>2, RefuseInv
<1> QED
  BY <1>3, <1>4

\* What a reply keeps of the invariant, at the handler and at the subnet.
LEMMA AnswerKeeps ==
    ASSUME IInv, pc \in OnTheWayIn, UNCHANGED <<config, request>>, handled' \in BOOLEAN,
           NEW status \in {"ok", "error", "forbidden"}, NEW type \in {"json", "html", "text", "none"},
           NEW empty \in BOOLEAN, Reply(status, type, empty),
           pc' = "pack" \/ (pc' = "done" /\ type \in {"text", "none"})
    PROVE  TypeOK' /\ ReplyInv' /\ wire'.status = status
<1> USE DEF IInv
<1>1. headers = NoHeaders
  BY DEF ReplyInv
<1>2. /\ headers' \in Headers /\ wire' \in Wires
      /\ wire'.headers.encoding = "gzip" <=> wire'.layers = <<Gzip>>
      /\ wire'.layers # <<>> => request.acceptsGzip
      /\ type \in {"text", "none"} => wire'.whole
      /\ wire'.status = status
  BY <1>1, ReplyKeeps
<1>3. TypeOK'
  BY <1>2 DEF TypeOK, OnTheWayBack, config
<1>4. ReplyInv'
  BY <1>2 DEF ReplyInv, OnTheWayIn
<1> QED
  BY <1>2, <1>3, <1>4

LEMMA SubnetInv ==
    ASSUME IInv, Subnet
    PROVE  IInv'
<1> USE DEF IInv
<1>1. /\ pc = "subnet" /\ pc \in OnTheWayIn /\ ~handled /\ request.route # "grpc" /\ SignatureFits
      /\ UNCHANGED <<config, request, handled>>
  BY DEF Subnet, ReplyInv, CheckedInv, OnTheWayIn
<1>2. sender = "agent" => /\ agent \in Agents /\ agent.grpc = None /\ request = Bare(agent) /\ KeysFit
                          /\ request.route \in Guarded /\ (Trusted <=> Admitted)
  BY <1>1, BareReport, SubnetAsks DEF AgentInv, TypeOK, Guarded
<1>3. UNCHANGED <<SignatureFits, Trusted, KeysFit, Admitted>>
  BY <1>1 DEF config, SignatureFits, Trusted, KeysFit, CryptFits, SignFits, Admitted, RealIP, LocalIP
<1>4. CASE request.route \in Guarded /\ ~Trusted
  <2>1. Reply("forbidden", "text", FALSE) /\ pc' = "pack"
    BY <1>4 DEF Subnet
  <2>2. TypeOK' /\ ReplyInv' /\ wire'.status = "forbidden"
    BY <1>1, <2>1, AnswerKeeps DEF TypeOK
  <2>3. CheckedInv'
    BY <1>1, <2>1 DEF CheckedInv
  <2>4. AgentInv'
    BY <1>1, <1>2, <1>3, <1>4, <2>1, <2>2 DEF AgentInv, config, OnTheWayBack
  <2> QED
    BY <2>2, <2>3, <2>4
<1>5. CASE ~(request.route \in Guarded /\ ~Trusted)
  <2>1. pc' = "handler" /\ UNCHANGED <<headers, wire>>
    BY <1>5 DEF Subnet
  <2>2. TypeOK' /\ ReplyInv'
    BY <1>1, <2>1, PassKeeps DEF TypeOK, OnTheWayIn
  <2>3. CheckedInv'
    BY <1>1, <1>3, <1>5, <2>1 DEF CheckedInv
  <2>4. AgentInv'
    BY <1>1, <1>2, <1>3, <1>5, <2>1 DEF AgentInv, config, OnTheWayBack, Bare, Report, RealIP, LocalIP, Signed, Encoded
  <2> QED
    BY <2>2, <2>3, <2>4
<1> QED
  BY <1>4, <1>5

LEMMA HandlerInv ==
    ASSUME IInv, Handler
    PROVE  IInv'
<1> USE DEF IInv
<1> DEFINE readable == request.route \in ReadsJSON => request.body = <<>>
<1>1. /\ pc = "handler" /\ pc \in OnTheWayIn /\ SignatureFits /\ handled' = readable
      /\ request.route \in Guarded \union {"grpc"} => Trusted
      /\ UNCHANGED <<config, request>>
  BY DEF Handler, ReplyInv, CheckedInv, OnTheWayIn
<1>2. sender = "agent" => request.body = <<>> /\ KeysFit /\ Admitted
  BY <1>1, BareReport DEF AgentInv, TypeOK
<1>3. UNCHANGED <<SignatureFits, Trusted, KeysFit, Admitted, readable>>
  BY <1>1 DEF config, SignatureFits, Trusted, KeysFit, CryptFits, SignFits, Admitted, RealIP, LocalIP
<1>4. /\ OKType(request.route) \in {"json", "html", "text", "none"}
      /\ request.route = "grpc" => OKType(request.route) = "none"
      /\ OKEmpty(request.route) \in BOOLEAN
  <2>1. request.route \in Routes
    BY DEF TypeOK, Request
  <2> QED
    BY <2>1 DEF OKType, OKEmpty, Routes
<1>5. pc' = IF request.route = "grpc" THEN "done" ELSE "pack"
  BY DEF Handler
<1>6. TypeOK' /\ ReplyInv'
  <2>1. CASE readable /\ Reply("ok", OKType(request.route), OKEmpty(request.route))
    BY <1>1, <1>4, <1>5, <2>1, AnswerKeeps
  <2>2. CASE Reply("error", "text", FALSE)
    BY <1>1, <1>5, <2>2, AnswerKeeps
  <2> QED
    BY <2>1, <2>2 DEF Handler
<1>7. CheckedInv'
  BY <1>1, <1>3, <1>5 DEF CheckedInv, Checked
<1>8. AgentInv'
  BY <1>1, <1>2, <1>3, <1>5 DEF AgentInv, config, OnTheWayBack
<1> QED
  BY <1>6, <1>7, <1>8

\* On the way back the request stays as it was handled or refused.
LEMMA BackKeeps ==
    ASSUME IInv, pc \in {"pack", "sign"}, pc' \in {"sign", "done"},
           UNCHANGED <<config, request, handled>>, wire'.status = wire.status
    PROVE  CheckedInv' /\ AgentInv'
<1> USE DEF IInv
<1>1. UNCHANGED <<Checked, KeysFit, Admitted>>
  BY DEF config, Checked, SignatureFits, Trusted, KeysFit, CryptFits, SignFits, Admitted, RealIP, LocalIP
<1>2. CheckedInv'
  BY <1>1 DEF CheckedInv
<1>3. AgentInv'
  BY <1>1 DEF AgentInv, config, OnTheWayBack
<1> QED
  BY <1>2, <1>3

LEMMA PackInv ==
    ASSUME IInv, Pack
    PROVE  IInv'
<1> USE DEF IInv
<1>1. /\ pc = "pack" /\ pc' = "sign" /\ UNCHANGED <<config, request, handled, headers>>
      /\ wire' = [wire EXCEPT !.whole = TRUE, !.empty = @ /\ wire.layers = <<>>]
  BY DEF Pack
<1>2. /\ wire' \in Wires /\ wire'.whole /\ wire'.status = wire.status
      /\ wire'.layers = wire.layers /\ wire'.headers = wire.headers
  BY <1>1 DEF TypeOK, Wires
<1>3. TypeOK'
  BY <1>1, <1>2 DEF TypeOK, config, OnTheWayBack
<1>4. ReplyInv'
  BY <1>1, <1>2 DEF ReplyInv, OnTheWayIn
<1> QED
  BY <1>1, <1>2, <1>3, <1>4, BackKeeps

LEMMA SignReplyInv ==
    ASSUME IInv, SignReply
    PROVE  IInv'
<1> USE DEF IInv
<1>1. /\ pc = "sign" /\ pc' = "done" /\ UNCHANGED <<config, request, handled, wire>>
      /\ headers' = IF wire.empty THEN headers
                    ELSE [headers EXCEPT !.signature = Sign(server.signKey, wire.layers)]
  BY DEF SignReply
<1>2. wire.layers \in Body
  BY Bodies, LayersDiffer DEF TypeOK, Wires
<1>3. Sign(server.signKey, wire.layers) \in Signature
  BY <1>2, Signatures DEF TypeOK, Servers
<1>4. TypeOK'
  BY <1>1, <1>3 DEF TypeOK, config, OnTheWayBack, Headers
<1>5. ReplyInv'
  BY <1>1 DEF ReplyInv, OnTheWayIn
<1> QED
  BY <1>1, <1>4, <1>5, BackKeeps

LEMMA StutterInv ==
    ASSUME IInv, UNCHANGED vars
    PROVE  IInv'
<1> USE DEF IInv, vars, config
<1>1. UNCHANGED <<Checked, SignatureFits, Trusted, CryptFits, KeysFit, Admitted>>
  BY DEF Checked, SignatureFits, Trusted, KeysFit, CryptFits, SignFits, Admitted, RealIP, LocalIP
<1>2. TypeOK'
  BY DEF TypeOK
<1>3. ReplyInv'
  BY DEF ReplyInv
<1>4. CheckedInv'
  BY <1>1 DEF CheckedInv
<1>5. AgentInv'
  BY <1>1 DEF AgentInv, Decrypted, Bare, Report, RealIP, LocalIP, Signed, Encoded
<1> QED
  BY <1>2, <1>3, <1>4, <1>5

THEOREM Invariant == Spec => []IInv
<1>1. ASSUME IInv, [Next]_vars
      PROVE  IInv'
  BY <1>1, InterceptInv, DecryptInv, DecompressInv, VerifyInv, SubnetInv, HandlerInv, PackInv,
     SignReplyInv, StutterInv DEF Next
<1> QED
  BY <1>1, InitInv, PTL DEF Spec

-----------------------------------------------------------------------------
(* What follows *)

\* The request, the reply and the headers keep their shapes through all filters.
THEOREM TypeCorrect == Spec => []TypeOK
<1>1. IInv => TypeOK
  BY DEF IInv
<1> QED
  BY <1>1, Invariant, PTL

\* The agent's report is handled exactly when the configurations of agent and
\* server fit (sender.go 89-109 and 203-257, cmd/server/main.go 158-172), whichever they are.
THEOREM AgentIsUnderstood == Spec => []AgentUnderstood
<1>1. ASSUME IInv
      PROVE  AgentUnderstood
  <2>1. SUFFICES ASSUME sender = "agent", pc = "done"
                 PROVE  /\ Source # NoAddress => (handled <=> Compatible)
                        /\ wire.status = "ok" => handled /\ request.body = <<>>
    BY DEF AgentUnderstood
  <2>2. \/ handled /\ request.body = <<>> /\ KeysFit /\ Admitted
        \/ ~handled /\ wire.status # "ok" /\ ~(KeysFit /\ Admitted)
    BY <1>1, <2>1 DEF IInv, AgentInv, OnTheWayBack
  <2>3. Source # NoAddress => (KeysFit /\ Admitted <=> Compatible)
    BY <1>1, <2>1, Announced DEF IInv, Compatible, KeysFit, CryptFits, SignFits
  <2> QED
    BY <2>2, <2>3
<1> QED
  BY <1>1, Invariant, PTL

\* Whatever is asked, by whomever and with whatever headers, the client can read
\* the reply (gzip.go: the header, the body and the closing agree).
THEOREM RepliesAreReadable == Spec => []ReplyIsReadable
<1>1. IInv => ReplyIsReadable
  BY DEF IInv, ReplyInv, ReplyIsReadable
<1> QED
  BY <1>1, Invariant, PTL

\* A handler takes nothing that a filter before it should have refused, whoever
\* has sent it: an address outside the subnet on a route that updates, a signature
\* that does not fit, a body with a layer left on. The order of the filters in
\* cmd/server/main.go matters here: the signature is that of the bare JSON.
THEOREM NothingSlipsThrough == Spec => [](handled => Checked)
<1>1. IInv => (handled => Checked)
  BY DEF IInv, CheckedInv
<1> QED
  BY <1>1, Invariant, PTL
=============================================================================
