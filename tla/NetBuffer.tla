------------------------------ MODULE NetBuffer ------------------------------
(***************************************************************************)
(* The byte codec of netbuffer.hpp / netbuffer.cpp: big-endian encoding of *)
(* primitives and strings onto a growing buffer, and BuffReader, the       *)
(* cursor that decodes them.                                                *)
(*                                                                         *)
(* A byte is a number in 0..Radix-1 (Radix = 256 in the code).  A value   *)
(* of w bytes is an unsigned number modulo Radix^w; a signed one is its   *)
(* two's complement.  A UTF-16 code unit (char16_t) is a 2-byte value.    *)
(*                                                                         *)
(* A BuffReader is a record [buf, cur, oor]: the buffer, cur_index and    *)
(* _out_of_range.  Every read returns <<value, reader after the read>>.   *)
(***************************************************************************)
EXTENDS Naturals, Integers, Sequences, SequencesExt

CONSTANT Radix

ASSUME Radix \in Nat \ {0, 1}

Bytes == 0 .. Radix - 1

(* The number of values of a w-byte unsigned integer (2^(8w) in the code). *)
Mod(w) == Radix ^ w

(* The value of a big-endian byte sequence.                                *)
RECURSIVE BigEndian(_)
BigEndian(s) ==
  IF s = <<>> THEN 0 ELSE BigEndian(Front(s)) * Radix + Last(s)

(* A w-byte unsigned pattern read as a signed (two's complement) value.    *)
AsSigned(u, w) == IF u >= Mod(w) \div 2 THEN u - Mod(w) ELSE u

-----------------------------------------------------------------------------
(* Encoding (netbuffer.hpp lines 249-304, netbuffer.cpp lines 215-233).    *)

(* Mutant: the bytes of val not masked to eight bits.                     *)
ValUnmasked(v, w) == LET u == v % Mod(w)
                     IN  [i \in 1 .. w |-> u \div Radix ^ (w - i)]

(* pushBackVal<T>(val, buff): the w big-endian bytes of val; a negative    *)
(* val is written in two's complement (% is non-negative in TLA+).         *)
Val(v, w) == LET u == v % Mod(w)
             IN  [i \in 1 .. w |-> (u \div Radix ^ (w - i)) % Radix]

(* pushBackUTF16: each code unit as 2 bytes, no length.                    *)
UTF16(str) == FlattenSeq([i \in DOMAIN str |-> Val(str[i], 2)])

(* pushBackSizedUTF16: the byte length (2 per code unit) as a uint32_t,   *)
(* then the code units.                                                    *)
SizedUTF16(str) == Val(2 * Len(str), 4) \o UTF16(str)

(* pushSizedContainer for a vector<uint8_t>: uint32_t size, then bytes.    *)
SizedBytes(data) == Val(Len(data), 4) \o data

(* The framing every make...() function ends with: total_length, counted  *)
(* from the message id on, is written over the first four bytes.           *)
Framed(body) == Val(Len(body), 4) \o body

-----------------------------------------------------------------------------
(* Byte order on the host (netbuffer.cpp lines 41-150).  The operators     *)
(* above give the wire bytes directly; these give what the code does to    *)
(* get them on a host of either byte order (little is littleEndian()):    *)
(* pushBackVal copies the value's memory after toNetworkEndian, and       *)
(* readPrimitive copies wire bytes into memory and calls fromNetworkEndian.*)

(* The memory of a w-byte unsigned value on the host.                      *)
HostBytes(v, w, little) ==
  IF little THEN [i \in 1 .. w |-> (v \div Radix ^ (i - 1)) % Radix]
  ELSE Val(v, w)

(* The value of little-endian memory.                                      *)
RECURSIVE LittleEndian(_)
LittleEndian(s) == IF s = <<>> THEN 0 ELSE Head(s) + Radix * LittleEndian(Tail(s))

(* The value the host sees in w bytes of memory.                           *)
HostValue(mem, little) == IF little THEN LittleEndian(mem) ELSE BigEndian(mem)

(* Mutant: a 16-byte value swapped as one 128-bit integer.                 *)
SwapWhole(mem, little) ==
  IF little /\ Len(mem) \in {2, 4, 8, 16} THEN Reverse(mem) ELSE mem

(* toNetworkEndian(in, size): nothing on a big-endian host; otherwise     *)
(* htons, htonl or htonll (a byte reversal) for sizes 2, 4 and 8, the two *)
(* 8-byte halves reversed separately for size 16, and nothing for any     *)
(* other size.                                                             *)
ToNetworkEndian(mem, little) ==
  CASE ~little -> mem
    [] Len(mem) \in {2, 4, 8} -> Reverse(mem)
    [] Len(mem) = 16 -> Reverse(SubSeq(mem, 1, 8)) \o Reverse(SubSeq(mem, 9, 16))
    [] OTHER -> mem

(* fromNetworkEndian: the same switch with ntohs, ntohl and ntohll, which *)
(* are the same byte reversals.                                             *)
FromNetworkEndian(mem, little) == ToNetworkEndian(mem, little)

(* pushBackVal<T>(val, buff) on the host: the bytes it appends.            *)
HostPushBackVal(v, w, little) == ToNetworkEndian(HostBytes(v, w, little), little)

(* readPrimitive<T> on the host, once the w bytes fit: their value.        *)
HostReadPrimitive(bytes, little) ==
  HostValue(FromNetworkEndian(bytes, little), little)

-----------------------------------------------------------------------------
(* BuffReader (netbuffer.hpp lines 82-168, netbuffer.cpp lines 170-209).   *)

(* BuffReader(buffer): cursor at 0, not out of range.                      *)
Reader(buf) == [buf |-> buf, cur |-> 0, oor |-> FALSE]

Left(r) == Len(r.buf) - r.cur

(* readPrimitive<T>(): a w-byte value.  When fewer than w bytes are left  *)
(* the flag is latched, the value is 0 and the cursor does NOT move, so a  *)
(* later, narrower read can still succeed.                                 *)
Read(r, w) ==
  IF r.cur + w <= Len(r.buf)
  THEN << BigEndian(SubSeq(r.buf, r.cur + 1, r.cur + w)),
          [r EXCEPT !.cur = @ + w] >>
  ELSE << 0, [r EXCEPT !.oor = TRUE] >>

(* readPrimitive of a signed type (int32_t, int64_t grail_time).           *)
ReadSigned(r, w) == LET x == Read(r, w) IN << AsSigned(x[1], w), x[2] >>

(* readUTF16(size): size calls of readPrimitive<char16_t>.  Once fewer    *)
(* than two bytes are left every call fails at the same cursor, so the     *)
(* string is the n code units that fit followed by size - n zeros.        *)
ReadUTF16(r, size) ==
  LET n == IF Left(r) \div 2 < size THEN Left(r) \div 2 ELSE size
  IN  << [i \in 1 .. size |->
            IF i <= n
            THEN BigEndian(SubSeq(r.buf, r.cur + 2 * i - 1, r.cur + 2 * i))
            ELSE 0],
         [r EXCEPT !.cur = @ + 2 * n, !.oor = @ \/ n < size] >>

(* Mutant: the byte length taken as a count of code units.               *)
ReadSizedUTF16Units(r) ==
  LET l == Read(r, 4) IN ReadUTF16(l[2], l[1])

(* readSizedUTF16(): a uint32_t byte length, halved (an odd length loses   *)
(* its last byte silently), then that many code units.                     *)
ReadSizedUTF16(r) ==
  LET l == Read(r, 4) IN ReadUTF16(l[2], l[1] \div 2)

(* readSizedVector<uint8_t>(): a uint32_t size, then bytes while the      *)
(* buffer lasts; a size larger than the rest is cut short WITHOUT setting  *)
(* the out-of-range flag.                                                  *)
ReadSizedBytes(r) ==
  LET l == Read(r, 4)
      n == IF Left(l[2]) < l[1] THEN Left(l[2]) ELSE l[1]
  IN  << SubSeq(r.buf, l[2].cur + 1, l[2].cur + n),
         [l[2] EXCEPT !.cur = @ + n] >>

(* The loop "for i < count: push_back(<read an item>)" of the decoders.    *)
(* Once fewer bytes are left than the item's narrowest field (width), every *)
(* read of every later item fails at the same cursor: those items are all  *)
(* Blank and the loop's result is reached without iterating count times.  *)
(* Item(r) returns <<item, reader after it>>.                               *)
RECURSIVE ReadSeq(_, _, _, _, _)
ReadSeq(r, count, Item(_), Blank, width) ==
  IF count = 0 THEN << <<>>, r >>
  ELSE IF Left(r) < width
  THEN << [i \in 1 .. count |-> Blank], [r EXCEPT !.oor = TRUE] >>
  ELSE LET x == Item(r)
           rest == ReadSeq(x[2], count - 1, Item, Blank, width)
       IN  << <<x[1]>> \o rest[1], rest[2] >>

(* A count of sized UTF-16 strings (attribute names, URIs).               *)
ReadStrings(r, count) == ReadSeq(r, count, ReadSizedUTF16, <<>>, 4)

(* Mutant: the frame check without the length comparison.                 *)
HeaderWithoutLength(buf, id) ==
  LET mid == Read(Read(Reader(buf), 4)[2], 1)
  IN  << mid[1] = id, mid[2] >>

(* Mutant: the frame check without the message id comparison.             *)
HeaderWithoutId(buf, id) ==
  LET len == Read(Reader(buf), 4)
      mid == Read(len[2], 1)
  IN  << Len(buf) = (len[1] + 4) % Mod(4), mid[2] >>

(* The frame check every decoder makes: buff.size() == total_length + 4    *)
(* (uint32_t arithmetic) and the message id byte is the expected one.      *)
(* Returns <<check passed, reader after the id byte>>.                      *)
Header(buf, id) ==
  LET len == Read(Reader(buf), 4)
      mid == Read(len[2], 1)
  IN  << Len(buf) = (len[1] + 4) % Mod(4) /\ mid[1] = id, mid[2] >>

=============================================================================
