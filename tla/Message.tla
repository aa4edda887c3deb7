------------------------------- MODULE Message -------------------------------
(***************************************************************************)
(* One efsng::api::message object (src/api/message.h) reused by a server   *)
(* session for a stream of request frames, each answered by a response.   *)
(* The session itself is not under src/; its steps follow the framing of  *)
(* spec 6: read the header into buffer(header), decode_header, read the   *)
(* body into buffer(body), decode_body, encode_response, send.  A read    *)
(* into buffer(part) transfers as many bytes as that vector holds.  The   *)
(* session may clear() the message between frames.  Body contents are    *)
(* abstracted to their length; header bytes are kept, in base Radix.      *)
(***************************************************************************)
EXTENDS Naturals, Sequences, ByteOrder

CONSTANT MaxBody    \* the longest body a peer sends or a response has

ASSUME MaxBody \in Nat /\ MaxBody < Word

HEADER_LENGTH == 8

VARIABLES
    m_header,                \* the header vector's bytes
    m_header_length,
    m_body,                  \* the body vector's size
    m_body_length,
    m_expected_body_length,
    phase,                   \* where the session is in the exchange
    sent,                    \* body length of the frame the peer sent
    got,                     \* bytes the last read transferred
    hostBig                  \* the server host is big-endian

vars == <<m_header, m_header_length, m_body, m_body_length,
          m_expected_body_length, phase, sent, got, hostBig>>

(* expected_length(part) and length(part): what the session is to read,  *)
(* and what the last decode or encode filled in.                          *)
ExpectedLength(part) == IF part = "header" THEN HEADER_LENGTH ELSE m_expected_body_length

Length(part) == IF part = "header" THEN m_header_length ELSE m_body_length

(* message(): m_header(HEADER_LENGTH), the lengths 0 *)
Fresh ==
    /\ m_header = [i \in 1 .. HEADER_LENGTH |-> 0]
    /\ m_header_length = 0
    /\ m_body = 0
    /\ m_body_length = 0
    /\ m_expected_body_length = 0
    /\ phase = "idle"
    /\ sent = 0
    /\ got = 0

Init == Fresh /\ hostBig \in BOOLEAN

-----------------------------------------------------------------------------
(* The peer sends a well-formed frame (its header from the same code on a *)
(* host of either byte order) and the session reads buffer(header): as    *)
(* many bytes as m_header holds.                                          *)
ReadHeader ==
    /\ phase = "idle"
    /\ \E n \in 0 .. MaxBody, peerBig \in BOOLEAN :
          /\ sent' = n
          /\ m_header' = SubSeq(EncodeLength(peerBig, n), 1, Len(m_header))
    /\ got' = Len(m_header)
    /\ phase' = "header"
    /\ UNCHANGED <<m_header_length, m_body, m_body_length, m_expected_body_length>>

(* Mutant: decode_header without the msg_length check. *)
DecodeHeaderNoLengthCheck ==
    /\ phase = "header"
    /\ m_header_length' = HEADER_LENGTH
    /\ m_expected_body_length' = DecodeLength(hostBig, m_header)
    /\ m_body' = DecodeLength(hostBig, m_header)
    /\ phase' = "body"
    /\ UNCHANGED <<m_header, m_body_length, sent, got>>

(* decode_header(msg_length): false unless msg_length is HEADER_LENGTH;   *)
(* else the expected length is ntohll of the header and the body vector   *)
(* is resized to it.  On false the session drops the frame as malformed. *)
DecodeHeader ==
    /\ phase = "header"
    /\ IF got # HEADER_LENGTH
       THEN /\ phase' = "malformed"
            /\ UNCHANGED <<m_header_length, m_expected_body_length, m_body>>
       ELSE /\ m_header_length' = HEADER_LENGTH
            /\ m_expected_body_length' = DecodeLength(hostBig, m_header)
            /\ m_body' = DecodeLength(hostBig, m_header)
            /\ phase' = "body"
    /\ UNCHANGED <<m_header, m_body_length, sent, got>>

(* The session reads buffer(body): as many bytes as m_body holds, at most *)
(* what the peer sent after the header.                                   *)
ReadBody ==
    /\ phase = "body"
    /\ got' = IF m_body <= sent THEN m_body ELSE sent
    /\ phase' = "read"
    /\ UNCHANGED <<m_header, m_header_length, m_body, m_body_length,
                   m_expected_body_length, sent>>

(* decode_body(msg_length): Request::create_from_buffer(m_body,           *)
(* msg_length) parses the request the peer serialised only from all of    *)
(* its bytes.                                                             *)
DecodeBody ==
    /\ phase = "read"
    /\ phase' = IF got = sent /\ m_body = sent THEN "request" ELSE "malformed"
    /\ UNCHANGED <<m_header, m_header_length, m_body, m_body_length,
                   m_expected_body_length, sent, got>>

(* Mutant: encode_response without m_body_length = m_body.size(). *)
EncodeResponseStaleLength ==
    /\ phase = "request"
    /\ \/ /\ phase' = "failed"
          /\ UNCHANGED <<m_header, m_header_length, m_body, m_body_length>>
       \/ \E k \in 0 .. MaxBody :
             /\ m_body' = k
             /\ m_header' = EncodeLength(hostBig, m_body_length)
             /\ m_header_length' = HEADER_LENGTH
             /\ phase' = "reply"
             /\ UNCHANGED m_body_length
    /\ UNCHANGED <<m_expected_body_length, sent, got>>

(* encode_response(resp): store_to_buffer fills m_body (false on          *)
(* failure, leaving the rest as it was); m_body_length, m_header resized  *)
(* to HEADER_LENGTH and holding htonll(m_body_length), m_header_length.   *)
EncodeResponse ==
    /\ phase = "request"
    /\ \/ /\ phase' = "failed"
          /\ UNCHANGED <<m_header, m_header_length, m_body, m_body_length>>
       \/ \E k \in 0 .. MaxBody :
             /\ m_body' = k
             /\ m_body_length' = k
             /\ m_header' = EncodeLength(hostBig, k)
             /\ m_header_length' = HEADER_LENGTH
             /\ phase' = "reply"
    /\ UNCHANGED <<m_expected_body_length, sent, got>>

(* The session writes length(header) bytes of the header and length(body) *)
(* bytes of the body, and waits for the next frame; after a failed encode *)
(* it sends nothing.                                                       *)
Send ==
    /\ phase \in {"reply", "failed"}
    /\ phase' = "idle"
    /\ UNCHANGED <<m_header, m_header_length, m_body, m_body_length,
                   m_expected_body_length, sent, got>>

(* clear(): both vectors emptied, every length 0 *)
Clear ==
    /\ phase = "idle"
    /\ m_header' = <<>>
    /\ m_body' = 0
    /\ m_header_length' = 0
    /\ m_body_length' = 0
    /\ m_expected_body_length' = 0
    /\ UNCHANGED <<phase, sent, got>>

(* A frame the session cannot decode ends the connection; the peer opens *)
(* a new one, served by a new message object.                           *)
Reconnect ==
    /\ phase = "malformed"
    /\ m_header' = [i \in 1 .. HEADER_LENGTH |-> 0]
    /\ m_header_length' = 0 /\ m_body' = 0 /\ m_body_length' = 0
    /\ m_expected_body_length' = 0 /\ phase' = "idle" /\ sent' = 0 /\ got' = 0
    /\ UNCHANGED hostBig

Exchange == ReadHeader \/ DecodeHeader \/ ReadBody \/ DecodeBody \/ EncodeResponse \/ Send

Next == ((Exchange \/ Clear) /\ UNCHANGED hostBig) \/ Reconnect

Spec == Init /\ [][Next]_vars

-----------------------------------------------------------------------------
(* The body length the session acts on is the one the peer framed: from  *)
(* a decoded header until the request is answered, the expected length   *)
(* is the sent one, whatever earlier frames, responses and clear() left   *)
(* in the header vector, and on a host of either byte order.              *)
HeaderLengthMatchesFrame ==
    phase \in {"body", "read", "request"} => ExpectedLength("body") = sent

(* The response the session is about to send is framed for its peer:      *)
(* length(body) is the whole serialised response, length(header) is 8,   *)
(* and those header bytes decode, on a peer of either byte order, to      *)
(* length(body), on a message object reused across frames, failed encodes *)
(* and clear().                                                            *)
ResponseFramed ==
    phase = "reply" =>
        /\ Length("body") = m_body
        /\ Length("header") = HEADER_LENGTH
        /\ \A peerBig \in BOOLEAN :
              DecodeLength(peerBig, SubSeq(m_header, 1, Length("header"))) = Length("body")

(* Every well-formed frame the peer sends is decoded into its request:     *)
(* the header is read whole, its length decoded in network byte order,   *)
(* and the body read to exactly that length, frame after frame on one     *)
(* reused message object.                                                  *)
WellFormedFramesDecode == phase # "malformed"

=============================================================================
