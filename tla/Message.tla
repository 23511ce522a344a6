------------------------------- MODULE Message -------------------------------
(***************************************************************************)
(* A message on its way through a chain (shotover/src/message/mod.rs): the *)
(* three levels of processing RawBytes -> Parsed -> Modified, the ids that *)
(* pair a response with its request, dummies, and the responses Shotover   *)
(* makes itself.                                                           *)
(*                                                                         *)
(* The content of a message is a value c; its encoding is a pair of c and  *)
(* a form, because different bytes may parse to the same frame.  Shotover  *)
(* encodes to the form "own"; what arrives has the form "wire".  Content   *)
(* Malformed is what the parser rejects.  Times, codec state and the       *)
(* contents of the error responses are left out.  The id of a response is  *)
(* random in the code and used for nothing; here it names the request the  *)
(* response was made for, so that properties can tell what request_id, the *)
(* field the code matches on, ought to be.  The protocol of a message is   *)
(* that of its chain; only a dummy belongs to none.                        *)
(***************************************************************************)
EXTENDS Naturals, Sequences

NoId == 0
NoFrame == "NoFrame"
NoBytes == "NoBytes"
Dummy == "Dummy"
Malformed == "Malformed"

Protocols == {"valkey", "cassandra", "kafka", "opensearch"}

\* MessageType::is_inorder
IsInorder(protocol) == protocol # "cassandra"

\* The encoding of a frame, and what a codec read from a socket.
Encode(frame) == <<frame, "own">>
Wire(content) == <<content, "wire">>

\* Message::from_bytes, of bytes read from a socket.
FromBytes(bytes, id) ==
  [inner |-> "RawBytes", bytes |-> bytes, frame |-> NoFrame, id |-> id, request_id |-> NoId]

\* Message::from_bytes_and_frame_at_instant, by codecs that had to parse to find the end.
FromBytesAndFrame(bytes, frame, id) ==
  [inner |-> "Parsed", bytes |-> bytes, frame |-> frame, id |-> id, request_id |-> NoId]

\* Message::from_frame, of a message Shotover made.
FromFrame(frame, id) ==
  [inner |-> "Modified", bytes |-> NoBytes, frame |-> frame, id |-> id, request_id |-> NoId]

\* MessageInner::ensure_parsed: RawBytes become Parsed, unless the parser rejects them.
EnsureParsed(m) ==
  IF m.inner = "RawBytes" /\ m.bytes[1] # Malformed
  THEN [m EXCEPT !.inner = "Parsed", !.frame = m.bytes[1]]
  ELSE m

\* Message::frame returns None for what it could not parse.
ParsedFrame(m) == EnsureParsed(m).frame

\* MessageInner::invalidate_cache forgets the bytes; RawBytes stay (and an error is logged).
InvalidateCache(m) ==
  IF m.inner = "Parsed" THEN [m EXCEPT !.inner = "Modified", !.bytes = NoBytes] ELSE m

\* What a transform does to change a message: through the frame, then invalidate_cache.
Modify(m, content) ==
  LET parsed == EnsureParsed(m)
  IN IF parsed.frame = NoFrame THEN parsed
     ELSE InvalidateCache([parsed EXCEPT !.frame = content])

\* Message::into_encodable and the codec: the bytes put on the socket.
SentBytes(m) ==
  CASE m.inner \in {"RawBytes", "Parsed"} -> m.bytes
    [] m.frame = Dummy -> NoBytes
    [] OTHER -> Encode(m.frame)

SetRequestId(m, id) == [m EXCEPT !.request_id = id]

\* Message::replace_with_dummy keeps the ids.
ReplaceWithDummy(m) ==
  [m EXCEPT !.inner = "Modified", !.bytes = NoBytes, !.frame = Dummy]

IsDummy(m) == m.inner = "Modified" /\ m.frame = Dummy

\* Message::metadata is an Err for a dummy and for OpenSearch; raw bytes need no parsing for it.
HasMetadata(m, protocol) == ~IsDummy(m) /\ protocol # "opensearch"

\* Message::from_request_to_error_response and from_response_to_error_response are an Err
\* without metadata, and for Kafka (Metadata::to_error_response).
HasErrorResponse(m, protocol) == HasMetadata(m, protocol) /\ protocol # "kafka"

\* Their Ok.
RequestToErrorResponse(m, error) == SetRequestId(FromFrame(error, m.id), m.id)

ResponseToErrorResponse(m, error) == SetRequestId(FromFrame(error, m.id), m.request_id)

\* Message::to_backpressure for Cassandra, the only protocol it is implemented for: the
\* response carries no request id of its own.
ToBackpressure(m) == FromFrame("backpressure", m.id)

\* Message::get_query_type is todo!() for a dummy and for a Kafka or OpenSearch frame; what
\* cannot be parsed is ReadWrite.
QueryType(m, protocol) ==
  CASE ParsedFrame(m) = NoFrame -> "readwrite"
    [] IsDummy(m) -> "panic"
    [] protocol \in {"kafka", "opensearch"} /\ ParsedFrame(m) # NoFrame -> "panic"
    [] OTHER -> ParsedFrame(m)

\* PartialEq of Message: the ids are ignored, the level of processing is not.
SameMessage(m1, m2) ==
  m1.inner = m2.inner /\ m1.bytes = m2.bytes /\ m1.frame = m2.frame
=============================================================================
