------------------------------ MODULE ByteOrder ------------------------------
(***************************************************************************)
(* The 64-bit byte-order conversions of src/api/message.h (htonll, ntohll) *)
(* and how encode_response and decode_header move a length through the    *)
(* 8-byte header.  A byte is scaled down to Radix values, so a "uint64_t"  *)
(* is 8 digits of base Radix and a "uint32_t" 4 of them; htonl and ntohl   *)
(* are the C library's: the identity on a big-endian host, a reversal of   *)
(* the 4 bytes on a little-endian one.                                     *)
(***************************************************************************)
EXTENDS Naturals, Sequences, SequencesExt

CONSTANT Radix   \* values of one byte

ASSUME Radix \in Nat /\ Radix >= 2

Half == Radix ^ 4        \* 2^32: the range of a uint32_t
Word == Radix ^ 8        \* 2^64: the range of a uint64_t

\* the n bytes of v, least significant first
Bytes(v, n) == [i \in 1 .. n |-> (v \div Radix ^ (i - 1)) % Radix]

\* the number whose bytes, most significant first, are bs
FromBigEndian(bs) == FoldLeft(LAMBDA acc, b : acc * Radix + b, 0, bs)

\* the bytes of a uint64_t as a host with this byte order keeps them in memory
StoreHost(big, v) == IF big THEN Reverse(Bytes(v, 8)) ELSE Bytes(v, 8)

\* the uint64_t a host reads through a uint64_t pointer to 8 bytes
LoadHost(big, bs) == IF big THEN FromBigEndian(bs) ELSE FromBigEndian(Reverse(bs))

\* htonl / ntohl (arpa/inet.h) on a 32-bit value
Htonl(big, v) == IF big THEN v ELSE FromBigEndian(Bytes(v, 4))
Ntohl(big, v) == Htonl(big, v)

(* Mutant: the two converted halves put back in their old places. *)
HtonllHalvesKept(big, x) ==
    IF Htonl(big, 1) = 1 THEN x
    ELSE Htonl(big, x % Half) + Htonl(big, x \div Half) * Half

(* htonll: (1==htonl(1)) ? x : htonl(x & 0xFFFFFFFF) << 32 | htonl(x >> 32) *)
Htonll(big, x) ==
    IF Htonl(big, 1) = 1 THEN x
    ELSE ((Htonl(big, x % Half) * Half) % Word) + Htonl(big, x \div Half)

(* Mutant: ntohll with the halves put back in their old places. *)
NtohllHalvesKept(big, x) ==
    IF Ntohl(big, 1) = 1 THEN x
    ELSE Ntohl(big, x % Half) + Ntohl(big, x \div Half) * Half

(* ntohll: the same expression with ntohl *)
Ntohll(big, x) ==
    IF Ntohl(big, 1) = 1 THEN x
    ELSE ((Ntohl(big, x % Half) * Half) % Word) + Ntohl(big, x \div Half)

(* encode_response: *pbuf = htonll(m_body_length) into m_header's bytes *)
EncodeLength(big, len) == StoreHost(big, Htonll(big, len))

(* decode_header: ntohll of the uint64_t stored at m_header.data() *)
DecodeLength(big, hdr) == Ntohll(big, LoadHost(big, hdr))

=============================================================================
