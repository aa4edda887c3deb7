------------------------------ MODULE MCMessage ------------------------------
(* Model-checking instance of Message, with the byte-order conversions of  *)
(* ByteOrder checked against the big-endian reference of spec 6 over every *)
(* 64-bit length, on the byte order of the host the session runs on.       *)
EXTENDS Message

\* the wire format of spec 6: the length as 8 bytes, most significant first
BigEndianHeader(v) == Reverse(Bytes(v, 8))

(* The header encode_response writes is the body length in network byte  *)
(* order, whatever the host's byte order.                                  *)
HeaderIsNetworkOrder ==
    \A len \in 0 .. Word - 1 : EncodeLength(hostBig, len) = BigEndianHeader(len)

(* decode_header reads back the length a network-order header carries,   *)
(* so two hosts of different byte orders agree on every body length.      *)
HeaderLengthDecodes ==
    \A len \in 0 .. Word - 1, sender \in BOOLEAN :
        DecodeLength(hostBig, EncodeLength(sender, len)) = len

=============================================================================
