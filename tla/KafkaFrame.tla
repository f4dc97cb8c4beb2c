----------------------------- MODULE KafkaFrame -----------------------------
(***************************************************************************)
(* The Kafka frame codec of shotover-proxy/src/frame/kafka.rs, on one      *)
(* client connection through the proxy to a broker.                        *)
(*                                                                         *)
(* Bytes are abstracted to tokens that carry their encoded size: the i32  *)
(* length prefix, a request or response header, a message body.  A body  *)
(* decodes only as the api and version it was encoded for, and a header   *)
(* only at the header version it was written with (kafka_protocol would   *)
(* misread the bytes instead; either way the frame is not what was sent). *)
(*                                                                         *)
(* Around the codec, from the spec (section 6, the codec contract): the    *)
(* codec cuts frames off the byte stream by their length prefix, keeps     *)
(* each request's (api_key, version) to parse the matching response, and  *)
(* writes a message verbatim unless a transform marked it modified, when  *)
(* it is parsed with from_bytes and serialised with encode into the write *)
(* buffer, which may still hold earlier unflushed frames.                  *)
(***************************************************************************)
EXTENDS Integers, Sequences, SequencesExt

CONSTANTS
  ApiKeys,       \* ApiKey variants a client uses
  UnknownKeys,   \* i16 api keys with no ApiKey variant
  Versions,      \* api versions a client uses
  Payloads,      \* message bodies
  PayloadSize,   \* PayloadSize[p]: bytes of body p
  ClientIdLen,   \* bytes of the client_id string
  LengthBits,    \* width of the length prefix: i32 in the code
  MaxRequests    \* requests the client sends on the connection

(* The ApiKeys parse_request and parse_response decode into a body. *)
DecodedKeys == {"ProduceKey", "FindCoordinatorKey"}

ASSUME DecodedKeys \subseteq ApiKeys /\ ApiKeys \cap UnknownKeys = {}
ASSUME PayloadSize \in [Payloads -> Nat \ {0}] /\ LengthBits \in Nat \ {0}

(* No way to know which version to use, just have to guess. *)
REQUEST_HEADER_VERSION == 1

(* Fault model: responses use the request header version. *)
RESPONSE_HEADER_VERSION_OfRequest == 1

RESPONSE_HEADER_VERSION == 0

-----------------------------------------------------------------------------
(* Wire tokens.  RequestHeader: api_key i16, api_version i16,             *)
(* correlation_id i32, client_id string; ResponseHeader v0: correlation_id. *)
LenTok(n) == [k |-> "len", n |-> n, size |-> 4]
HdrTok(kind, h, hv) ==
  [k |-> kind, hdr |-> h, hv |-> hv,
   size |-> IF kind = "reqhdr" THEN 2 + 2 + 4 + 2 + ClientIdLen ELSE 4]
BodyTok(api, v, p) == [k |-> "body", api |-> api, ver |-> v, p |-> p, size |-> PayloadSize[p]]

SizeOf(s) == FoldLeft(LAMBDA acc, t : acc + t.size, 0, s)

(* Results of the fallible steps: anyhow::Result. *)
Err == [ok |-> FALSE]
Ok(v) == [ok |-> TRUE, val |-> v]
NoHeader == [api |-> "none", ver |-> -1]   \* request_header: None

(* KafkaFrame::Request / Response, and the body variants: a decoded body  *)
(* keeps its api and contents; Unknown keeps the remaining bytes.         *)
Request(h, b) == [dir |-> "req", header |-> h, body |-> b]
Response(v, h, b) == [dir |-> "resp", version |-> v, header |-> h, body |-> b]
Body(api, p) == [kind |-> "decoded", api |-> api, p |-> p]
Unknown(api, bytes) == [kind |-> "unknown", api |-> api, message |-> bytes]

(* Header::decode(bytes, version). *)
DecodeHeader(bytes, kind, version) ==
  IF bytes # <<>> /\ Head(bytes).k = kind /\ Head(bytes).hv = version
    THEN Ok(Head(bytes).hdr) ELSE Err

(* decode::<T>(bytes, version): T is the body of api. *)
decode(bytes, api, version) ==
  IF bytes # <<>> /\ Head(bytes).k = "body" /\ Head(bytes).api = api /\ Head(bytes).ver = version
    THEN Ok(Body(api, Head(bytes).p)) ELSE Err

(* Header, then ApiKey::try_from, then the body at request_api_version. *)
parse_request(bytes) ==
  LET h == DecodeHeader(bytes, "reqhdr", REQUEST_HEADER_VERSION)
      b == decode(Tail(bytes), h.val.api, h.val.ver)
  IN  IF ~h.ok \/ h.val.api \notin ApiKeys THEN Err
      ELSE IF h.val.api \notin DecodedKeys THEN Ok(Request(h.val, Unknown(h.val.api, Tail(bytes))))
      ELSE IF b.ok THEN Ok(Request(h.val, b.val)) ELSE Err

(* Header, then the body of the request's api at the request's version. *)
parse_response(bytes, rh) ==
  LET h == DecodeHeader(bytes, "resphdr", RESPONSE_HEADER_VERSION)
      b == decode(Tail(bytes), rh.api, rh.ver)
  IN  IF ~h.ok THEN Err
      ELSE IF rh.api \notin DecodedKeys THEN Ok(Response(rh.ver, h.val, Unknown(rh.api, Tail(bytes))))
      ELSE IF b.ok THEN Ok(Response(rh.ver, h.val, b.val)) ELSE Err

(* The length header is split off; request_header selects the direction. *)
from_bytes(bytes, rh) ==
  IF rh = NoHeader THEN parse_request(Tail(bytes)) ELSE parse_response(Tail(bytes), rh)

(* bytes_len as i32: the low LengthBits bits, read as two's complement. *)
AsI32(n) ==
  LET m == n % 2^LengthBits
  IN  IF m >= 2^(LengthBits - 1) THEN m - 2^LengthBits ELSE m

(* Fault model: the length is measured from the start of the buffer. *)
FrameLengthFromBufferStart(buf, content) == SizeOf(buf) + SizeOf(content)

(* Fault model: the length counts the 4 bytes of the prefix itself. *)
FrameLengthWithPrefix(buf, content) == SizeOf(content) + 4

(* bytes.len() - bytes_start: what was written after the dummy length. *)
FrameLength(buf, content) == SizeOf(content)

(* A body is encoded at version, an Unknown message copied verbatim. *)
EncodeBody(body, version) ==
  IF body.kind = "unknown" THEN body.message ELSE <<BodyTok(body.api, version, body.p)>>

(* Fault model: the body is encoded at the header version. *)
BodyVersionOfHeader(frame) ==
  IF frame.dir = "req" THEN REQUEST_HEADER_VERSION ELSE RESPONSE_HEADER_VERSION

(* A request body at request_api_version, a response body at the version *)
(* of the request it answers.                                             *)
BodyVersion(frame) ==
  IF frame.dir = "req" THEN frame.header.ver ELSE frame.version

(* The message written after the length: header, then body. *)
Content(frame) ==
  LET hdr == IF frame.dir = "req"
               THEN HdrTok("reqhdr", frame.header, REQUEST_HEADER_VERSION)
               ELSE HdrTok("resphdr", frame.header, RESPONSE_HEADER_VERSION)
  IN  <<hdr>> \o EncodeBody(frame.body, BodyVersion(frame))

(* KafkaFrame::encode appends a dummy i32, the message, then overwrites   *)
(* the dummy with the message's length.                                   *)
encode(frame, buf) ==
  LET c == Content(frame)
  IN  buf \o <<LenTok(AsI32(FrameLength(buf, c)))>> \o c

-----------------------------------------------------------------------------
(* The codec's framing: a frame is its length and exactly that many bytes. *)
(* FrameEnd(s) is the token count of the first frame of s, 0 if s does not *)
(* start with a whole one (yet).                                           *)
FrameEnd(s) ==
  IF s = <<>> \/ Head(s).k # "len" THEN 0
  ELSE LET ends == {e \in 2..Len(s) : SizeOf(SubSeq(s, 2, e)) = Head(s).n}
       IN  IF ends = {} THEN 0 ELSE Min(ends)

FirstFrame(s) == SubSeq(s, 1, FrameEnd(s))
AfterFirst(s) == SubSeq(s, FrameEnd(s) + 1, Len(s))

RECURSIVE Frames(_)
(* The whole frames at the front of a stream, in order. *)
Frames(s) == IF FrameEnd(s) = 0 THEN <<>> ELSE <<FirstFrame(s)>> \o Frames(AfterFirst(s))

(* A stream that is exactly a sequence of whole frames. *)
Framed(s) == FlattenSeq(Frames(s)) = s

(* What the Kafka client writes for request r with correlation id corr, and *)
(* what the broker answers: the protocol's framing, independent of encode. *)
ClientFrame(r, corr) ==
  LET c == <<HdrTok("reqhdr", [api |-> r.api, ver |-> r.ver, corr |-> corr], 1),
             BodyTok(r.api, r.ver, r.p)>>
  IN  <<LenTok(SizeOf(c))>> \o c
BrokerFrame(h, p) ==
  LET c == <<HdrTok("resphdr", [corr |-> h.corr], 0), BodyTok(h.api, h.ver, p)>>
  IN  <<LenTok(SizeOf(c))>> \o c

Requests == [api : ApiKeys \cup UnknownKeys, ver : Versions, p : Payloads]

VARIABLES
  sent,       \* history: the frames the client wrote, in order
  c2p,        \* bytes from the client the proxy has not read
  pending,    \* codec: (api_key, version) of each request awaiting its response
  reqBuf,     \* the write buffer toward the broker, not yet flushed
  p2b,        \* bytes flushed to the broker it has not read
  brokerGot,  \* history: the frames the broker read
  answered,   \* history: the frames the broker wrote
  b2p,        \* bytes from the broker the proxy has not read
  respBuf,    \* the write buffer toward the client
  p2c,        \* bytes flushed to the client it has not read
  clientGot,  \* history: the frames the client read
  closed      \* the connection has ended

vars == <<sent, c2p, pending, reqBuf, p2b, brokerGot, answered, b2p, respBuf,
          p2c, clientGot, closed>>

Streams == <<c2p, reqBuf, p2b, b2p, respBuf, p2c>>

TypeOK ==
  /\ Len(sent) <= MaxRequests /\ Len(answered) <= Len(brokerGot)
  /\ pending \in Seq([api : ApiKeys \cup UnknownKeys, ver : Versions])
  /\ closed \in BOOLEAN
  /\ \A j \in DOMAIN Streams :
       \A i \in DOMAIN Streams[j] :
         Streams[j][i].k = "len" => Streams[j][i].n \in 0..2^(LengthBits - 1) - 1

Init ==
  /\ sent = <<>> /\ c2p = <<>> /\ pending = <<>> /\ reqBuf = <<>> /\ p2b = <<>>
  /\ brokerGot = <<>> /\ answered = <<>> /\ b2p = <<>> /\ respBuf = <<>>
  /\ p2c = <<>> /\ clientGot = <<>> /\ closed = FALSE

(* The client pipelines its next request. *)
ClientSend ==
  /\ ~closed
  /\ Len(sent) < MaxRequests
  /\ \E r \in Requests :
       LET f == ClientFrame(r, Len(sent) + 1)
       IN  sent' = Append(sent, f) /\ c2p' = c2p \o f
  /\ UNCHANGED <<pending, reqBuf, p2b, brokerGot, answered, b2p, respBuf, p2c,
                 clientGot, closed>>

(* A frame through the proxy into write buffer buf: verbatim, or, when a  *)
(* transform marked it modified, parsed with from_bytes and re-encoded.   *)
Relay(frame, buf, rh, modified) ==
  IF ~modified THEN Ok(buf \o frame)
  ELSE LET r == from_bytes(frame, rh) IN IF r.ok THEN Ok(encode(r.val, buf)) ELSE Err

(* The proxy takes the next request frame off the client stream and keeps *)
(* its api_key and version; a frame that fails to parse ends the          *)
(* connection.                                                            *)
ProxyRequest ==
  /\ ~closed
  /\ FrameEnd(c2p) > 0
  /\ c2p' = AfterFirst(c2p)
  /\ \E modified \in BOOLEAN :
       LET f == FirstFrame(c2p)
           r == Relay(f, reqBuf, NoHeader, modified)
       IN  \/ /\ r.ok
              /\ reqBuf' = r.val
              /\ pending' = Append(pending, [api |-> f[2].hdr.api, ver |-> f[2].hdr.ver])
              /\ UNCHANGED closed
           \/ /\ ~r.ok
              /\ closed' = TRUE
              /\ UNCHANGED <<reqBuf, pending>>
  /\ UNCHANGED <<sent, p2b, brokerGot, answered, b2p, respBuf, p2c, clientGot>>

(* The same for the next response, parsed with the oldest pending header; *)
(* the broker answers at the request's version, so a parse error here     *)
(* only follows a codec fault.                                            *)
ProxyResponse ==
  /\ ~closed
  /\ FrameEnd(b2p) > 0
  /\ pending # <<>>
  /\ b2p' = AfterFirst(b2p)
  /\ pending' = Tail(pending)
  /\ \E modified \in BOOLEAN :
       LET r == Relay(FirstFrame(b2p), respBuf, Head(pending), modified)
       IN  /\ respBuf' = IF r.ok THEN r.val ELSE respBuf
           /\ closed' = ~r.ok
  /\ UNCHANGED <<sent, c2p, reqBuf, p2b, brokerGot, answered, p2c, clientGot>>

FlushRequests ==
  /\ reqBuf # <<>>
  /\ p2b' = p2b \o reqBuf /\ reqBuf' = <<>>
  /\ UNCHANGED <<sent, c2p, pending, brokerGot, answered, b2p, respBuf, p2c,
                 clientGot, closed>>

FlushResponses ==
  /\ respBuf # <<>>
  /\ p2c' = p2c \o respBuf /\ respBuf' = <<>>
  /\ UNCHANGED <<sent, c2p, pending, reqBuf, p2b, brokerGot, answered, b2p,
                 clientGot, closed>>

(* The broker reads a request and answers it, or closes the connection on *)
(* an api key it does not know or a frame that is not a request.          *)
BrokerAnswer ==
  /\ ~closed
  /\ FrameEnd(p2b) > 0
  /\ p2b' = AfterFirst(p2b)
  /\ brokerGot' = Append(brokerGot, FirstFrame(p2b))
  /\ LET f == FirstFrame(p2b)
     IN  \/ /\ Len(f) > 1 /\ f[2].k = "reqhdr" /\ f[2].hdr.api \in ApiKeys
            /\ \E p \in Payloads :
                 LET g == BrokerFrame(f[2].hdr, p)
                 IN  answered' = Append(answered, g) /\ b2p' = b2p \o g
            /\ UNCHANGED closed
         \/ /\ ~(Len(f) > 1 /\ f[2].k = "reqhdr" /\ f[2].hdr.api \in ApiKeys)
            /\ closed' = TRUE
            /\ UNCHANGED <<answered, b2p>>
  /\ UNCHANGED <<sent, c2p, pending, reqBuf, respBuf, p2c, clientGot>>

ClientRecv ==
  /\ FrameEnd(p2c) > 0
  /\ p2c' = AfterFirst(p2c)
  /\ clientGot' = Append(clientGot, FirstFrame(p2c))
  /\ UNCHANGED <<sent, c2p, pending, reqBuf, p2b, brokerGot, answered, b2p,
                 respBuf, closed>>

(* The connection has ended, or every request has been answered. *)
Done ==
  /\ closed \/ Len(clientGot) = MaxRequests
  /\ UNCHANGED vars

Next ==
  \/ ClientSend \/ ProxyRequest \/ FlushRequests \/ BrokerAnswer
  \/ ProxyResponse \/ FlushResponses \/ ClientRecv \/ Done

Spec == Init /\ [][Next]_vars

(* The proxy's reader and writer tasks are polled whenever a whole frame *)
(* or a non-empty write buffer is ready; the broker and the client keep  *)
(* reading.  Whether the client sends another request is its own choice. *)
FairSpec ==
  /\ Spec
  /\ WF_vars(ProxyRequest) /\ WF_vars(ProxyResponse)
  /\ WF_vars(FlushRequests) /\ WF_vars(FlushResponses)
  /\ WF_vars(BrokerAnswer) /\ WF_vars(ClientRecv)

-----------------------------------------------------------------------------
(* Every byte the proxy writes, in either direction, is a whole frame whose *)
(* i32 length is the size of what follows it, including a frame encoded   *)
(* into a write buffer that still held unflushed frames before it and a    *)
(* frame of the largest size the prefix can carry.                         *)
WellFramed ==
  /\ Framed(p2b \o reqBuf)
  /\ Framed(p2c \o respBuf)

(* Parsing and re-encoding a frame is invisible: the broker reads exactly *)
(* the frames the client wrote, in order, and the client exactly those the *)
(* broker wrote, whichever of them a transform marked modified.            *)
Transparent ==
  /\ IsPrefix(brokerGot \o Frames(p2b \o reqBuf), sent)
  /\ IsPrefix(clientGot \o Frames(p2c \o respBuf), answered)

(* from_bytes fails only on a request whose api key has no ApiKey variant: *)
(* the connection never ends over a well-formed request or response.      *)
ClosedOnlyOnUnknownKey ==
  closed => \E i \in DOMAIN sent : sent[i][2].hdr.api \in UnknownKeys

(* Every request the client has written is eventually answered, or the   *)
(* connection ends: no frame the proxy writes leaves a peer waiting for   *)
(* bytes that never come, and every response finds its pending request.  *)
EveryRequestAnswered ==
  \A i \in 1..MaxRequests :
    Len(sent) >= i ~> (Len(clientGot) >= i \/ closed)

=============================================================================
