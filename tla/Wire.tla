-------------------------------- MODULE Wire --------------------------------
(***************************************************************************)
(* A segment as bytes: struct Segment of segment.rs, its setters, what     *)
(* to_byte_vec sends and from_buf reads, and the checksum of utils.rs.     *)
(*                                                                         *)
(* A byte has BYTES values.  Words of two and of four bytes (u16 and u32)  *)
(* are big-endian, and the header keeps its 20 bytes.  The state is the    *)
(* segment that the program is making; what its receiver sees of it is     *)
(* that segment after a trip through the network.                          *)
(***************************************************************************)
EXTENDS Integers, Sequences

CONSTANTS
    BYTES,          \* the values of a byte; 256 in the build
    Ports,          \* the ports in use
    Numbers,        \* sequence and acknowledgement numbers in use
    Payloads        \* the payloads in use

HEADER == 20

WORDS == BYTES * BYTES
Byte == 0 .. BYTES - 1

ASSUME WireAssumption ==
    /\ BYTES \in Nat \ {0} /\ BYTES % 4 = 0
    /\ Ports \subseteq 0 .. WORDS - 1
    /\ Numbers \subseteq 0 .. WORDS * WORDS - 1
    /\ Payloads \subseteq Seq(Byte)
    /\ \A data \in Payloads : HEADER + Len(data) < WORDS * WORDS

VARIABLE seg

Word == 0 .. WORDS - 1
Double == 0 .. WORDS * WORDS - 1

Segment == [src_port : Word, dst_port : Word, seg_size : Double, seq_num : Double,
            ack_num : Double, flags : Word, checksum : Word, payload : Seq(Byte)]

(* The fields keep their widths, and the size that a segment states is its *)
(* own: 20 bytes and its payload (segment.rs 3-13, 128-132).               *)
TypeOK == seg \in Segment /\ seg.seg_size = HEADER + Len(seg.payload)

-----------------------------------------------------------------------------
(* utils.rs                                                                *)

buf_to_u16(buf) == buf[1] * BYTES + buf[2]
buf_to_u32(buf) == buf_to_u16(SubSeq(buf, 1, 2)) * WORDS + buf_to_u16(SubSeq(buf, 3, 4))

u16_to_u8(v) == << v \div BYTES, v % BYTES >>
Swapped_u32_to_u8(v) == u16_to_u8(v % WORDS) \o u16_to_u8(v \div WORDS)
u32_to_u8(v) == u16_to_u8(v \div WORDS) \o u16_to_u8(v % WORDS)

\* an odd byte at the end is padded with a zero
Unpadded_u8_to_u16_vec(v) ==
    [k \in 1 .. Len(v) \div 2 |-> buf_to_u16(SubSeq(v, 2 * k - 1, 2 * k))]
u8_to_u16_vec(v) ==
    LET padded == IF Len(v) % 2 = 1 THEN Append(v, 0) ELSE v
    IN  [k \in 1 .. Len(padded) \div 2 |-> buf_to_u16(SubSeq(padded, 2 * k - 1, 2 * k))]

wrap(sum) == (sum % WORDS) + (sum \div WORDS)

\* the values of the accumulator, before the first word and after each of them
sums(words) ==
    LET acc[k \in 0 .. Len(words)] ==
            IF k = 0 THEN 0 ELSE wrap(wrap(words[k] + acc[k - 1]))
    IN  acc

ones_complement_sum(bytes) == LET words == u8_to_u16_vec(bytes) IN sums(words)[Len(words)]

-----------------------------------------------------------------------------
(* segment.rs                                                              *)

Flag == {"SYN", "ACK", "FIN"}

\* the place of a flag in the word, from the left
bit(flag) ==
    WORDS \div (CASE flag = "SYN" -> 2 [] flag = "ACK" -> 4 [] flag = "FIN" -> 8)

get_flag(s, flag) == (s.flags \div bit(flag)) % 2 = 1

to_byte_vec(s) ==
    u16_to_u8(s.src_port) \o u16_to_u8(s.dst_port)
    \o u32_to_u8(s.seg_size) \o u32_to_u8(s.seq_num) \o u32_to_u8(s.ack_num)
    \o u16_to_u8(s.flags) \o u16_to_u8(s.checksum) \o s.payload

from_buf(buf) ==
    [src_port |-> buf_to_u16(SubSeq(buf, 1, 2)),
     dst_port |-> buf_to_u16(SubSeq(buf, 3, 4)),
     seg_size |-> buf_to_u32(SubSeq(buf, 5, 8)),
     seq_num  |-> buf_to_u32(SubSeq(buf, 9, 12)),
     ack_num  |-> buf_to_u32(SubSeq(buf, 13, 16)),
     flags    |-> buf_to_u16(SubSeq(buf, 17, 18)),
     checksum |-> buf_to_u16(SubSeq(buf, 19, 20)),
     payload  |-> SubSeq(buf, HEADER + 1, Len(buf))]

\* the sum of a segment whose checksum is zero, inverted; zero becomes all ones first
generate_checksum(s) ==
    LET sum == ones_complement_sum(to_byte_vec([s EXCEPT !.checksum = 0]))
    IN  IF sum = 0 THEN 0 ELSE WORDS - 1 - sum

validate(s) == ones_complement_sum(to_byte_vec(s)) = WORDS - 1

Unsummed_summed(s) == s
summed(s) == [s EXCEPT !.checksum = generate_checksum(s)]

new(src_port, dst_port) ==
    summed([src_port |-> src_port, dst_port |-> dst_port, seg_size |-> HEADER,
            seq_num |-> 0, ack_num |-> 0, flags |-> 0, checksum |-> 0, payload |-> << >>])

\* | and ! of the word of flags
or(flags, b) == IF (flags \div b) % 2 = 1 THEN flags ELSE flags + b
not(flags) == WORDS - 1 - flags

with_flag(s, flag) == [s EXCEPT !.flags = or(@, bit(flag))]
Toggling_without_flag(s, flag) == [s EXCEPT !.flags = not(or(@, bit(flag)))]
without_flag(s, flag) == [s EXCEPT !.flags = not(or(not(@), bit(flag)))]

-----------------------------------------------------------------------------
Init == \E src_port, dst_port \in Ports : seg = new(src_port, dst_port)

set_seq(seq_num) == seg' = summed([seg EXCEPT !.seq_num = seq_num])

set_ack_num(ack_num) == seg' = summed([seg EXCEPT !.ack_num = ack_num])

set_flag(flag) == seg' = summed(with_flag(seg, flag))

unset_flag(flag) == seg' = summed(without_flag(seg, flag))

Unsized_set_data(data) == seg' = summed([seg EXCEPT !.payload = data])
set_data(data) ==
    seg' = summed([seg EXCEPT !.seg_size = HEADER + Len(data), !.payload = data])

Next ==
    \/ \E n \in Numbers : set_seq(n) \/ set_ack_num(n)
    \/ \E flag \in Flag : set_flag(flag) \/ unset_flag(flag)
    \/ \E data \in Payloads : set_data(data)

vars == << seg >>
Spec == Init /\ [][Next]_vars

-----------------------------------------------------------------------------
\* what tcp.rs reads of a segment
View(s) == [seq_num |-> s.seq_num, ack_num |-> s.ack_num, payload |-> s.payload,
            flags |-> {flag \in Flag : get_flag(s, flag)}]

received == from_buf(to_byte_vec(seg))

(* The receiver reads the segment that was sent, and takes it to be valid: *)
(* no sequence of setters leaves a checksum behind that validate rejects   *)
(* (segment.rs 84-96, 134-162, lib.rs 94-95).                              *)
ArrivesIntact == received = seg /\ validate(received)

(* A byte that is changed on the way is noticed, wherever it is, in the    *)
(* padded last word too (utils.rs 22-33).                                  *)
DamageNoticed ==
    LET sent == to_byte_vec(seg)
    IN  \A i \in DOMAIN sent : \A b \in Byte \ {sent[i]} :
            ~ validate(from_buf([sent EXCEPT ![i] = b]))

OneField(was, is) ==
    \/ \E n \in Numbers : is \in {[was EXCEPT !.seq_num = n], [was EXCEPT !.ack_num = n]}
    \/ \E data \in Payloads : is = [was EXCEPT !.payload = data]
    \/ \E flag \in Flag : is \in {[was EXCEPT !.flags = @ \cup {flag}],
                                  [was EXCEPT !.flags = @ \ {flag}]}

(* A setter changes one thing of what the receiver sees: seq_num, ack_num, *)
(* the payload, or one flag and none of the others (segment.rs 55-63,      *)
(* 98-132).                                                                *)
OneFieldSet == [][OneField(View(received), View(received'))]_vars
=============================================================================
