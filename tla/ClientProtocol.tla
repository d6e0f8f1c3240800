--------------------------- MODULE ClientProtocol ---------------------------
(***************************************************************************)
(* The client <-> world model codec of world_model_protocol.cpp: the       *)
(* make...() encoders and decode...() decoders of the client face.         *)
(*                                                                         *)
(* Strings are sequences of UTF-16 code units, grail_time is int64_t,      *)
(* aliases and tickets are uint32_t; all of them are drawn from small     *)
(* CONSTANT sets.  CodecHarness puts the codec to use.                     *)
(***************************************************************************)
EXTENDS NetBuffer

CONSTANTS
  Strs,          \* URIs, attribute names, origins (sequences of code units)
  Tickets,       \* uint32_t ticket numbers
  Aliases,       \* uint32_t attribute / origin aliases
  Times,         \* grail_time values (int64_t)
  Weights,       \* int32_t origin weights
  Blobs,         \* attribute data (sequences of bytes)
  URILists,      \* the URI lists given to makeURISearchResponse
  MaxItems,      \* the longest list of attributes, aliases or weights
  ArgOrder,      \* the build's evaluation order of a call's arguments
  Indeterminate, \* the value of an uninitialised grail_time
  Hang           \* the result of a decoding loop that never ends

ASSUME ArgOrder \in {"left_to_right", "right_to_left"}

(* enum class MessageID : uint8_t (world_model_protocol.hpp lines 95-106). *)
MessageID == [keep_alive |-> 0, snapshot_request |-> 1, range_request |-> 2,
              stream_request |-> 3, attribute_alias |-> 4, origin_alias |-> 5,
              request_complete |-> 6, cancel_request |-> 7,
              data_response |-> 8, uri_search |-> 9, uri_response |-> 10,
              origin_preference |-> 11]

Kinds == DOMAIN MessageID

Lists(S) == UNION {[1 .. n -> S] : n \in 0 .. MaxItems}

(* Concatenation of the encodings of the elements of a list.              *)
Each(list, Enc(_)) == FlattenSeq([i \in DOMAIN list |-> Enc(list[i])])

-----------------------------------------------------------------------------
(* Encoders.  Each make...() writes the body after a four-byte length that *)
(* it then overwrites with the body's length (Framed).                    *)

MakeKeepAlive == Framed(<<MessageID.keep_alive>>)

MakeSnapshotRequest(request, ticket) ==
  Framed(<<MessageID.snapshot_request>> \o Val(ticket, 4)
         \o SizedUTF16(request.uri) \o Val(Len(request.attrs), 4)
         \o Each(request.attrs, SizedUTF16)
         \o Val(request.start, 8) \o Val(request.stop, 8))

(* makeRangeRequest / makeStreamRequest patch the id byte, buff[4].        *)
MakeRangeRequest(request, ticket) ==
  [MakeSnapshotRequest(request, ticket) EXCEPT ![5] = MessageID.range_request]

MakeStreamRequest(request, ticket) ==
  [MakeSnapshotRequest(request, ticket) EXCEPT ![5] = MessageID.stream_request]

AliasBytes(a) == Val(a.alias, 4) \o SizedUTF16(a.type)

MakeAttrAliasMsg(aliases) ==
  Framed(<<MessageID.attribute_alias>> \o Val(Len(aliases), 4)
         \o Each(aliases, AliasBytes))

MakeOriginAliasMsg(aliases) ==
  [MakeAttrAliasMsg(aliases) EXCEPT ![5] = MessageID.origin_alias]

MakeRequestComplete(ticket) ==
  Framed(<<MessageID.request_complete>> \o Val(ticket, 4))

MakeCancelRequest(ticket) ==
  Framed(<<MessageID.cancel_request>> \o Val(ticket, 4))

AttributeBytes(a) ==
  Val(a.name, 4) \o Val(a.created, 8) \o Val(a.expires, 8)
  \o Val(a.origin, 4) \o SizedBytes(a.data)

MakeDataMessage(wd, ticket) ==
  Framed(<<MessageID.data_response>> \o SizedUTF16(wd.uri) \o Val(ticket, 4)
         \o Val(Len(wd.attrs), 4) \o Each(wd.attrs, AttributeBytes))

MakeURISearch(uri) == Framed(<<MessageID.uri_search>> \o UTF16(uri))

(* No count of URIs is written: the sized strings are simply concatenated. *)
MakeURISearchResponse(uris) ==
  Framed(<<MessageID.uri_response>> \o Each(uris, SizedUTF16))

WeightBytes(w) == SizedUTF16(w[1]) \o Val(w[2], 4)

MakeOriginPreference(weights) ==
  Framed(<<MessageID.origin_preference>> \o Each(weights, WeightBytes))

-----------------------------------------------------------------------------
(* Decoders.  Each reads the length and the id (Header); only if the frame *)
(* check passes does it read the fields; then, if a read ran out of bytes, *)
(* it returns its empty value.  A decoder returns <<value, buffer after>>: *)
(* some of them patch buff[4] of the buffer they are given.               *)

(* client::Request request; -- start and stop_period are left             *)
(* uninitialised, client::Request() value-initialises them to 0.          *)
DefaultRequest == [uri |-> <<>>, attrs |-> <<>>,
                   start |-> Indeterminate, stop |-> Indeterminate]
EmptyRequest == [uri |-> <<>>, attrs |-> <<>>, start |-> 0, stop |-> 0]

DecodeSnapshotRequest(buf) ==
  LET h == Header(buf, MessageID.snapshot_request)
      ticket == Read(h[2], 4)
      uri == ReadSizedUTF16(ticket[2])
      count == Read(uri[2], 4)
      attrs == ReadStrings(count[2], count[1])
      start == ReadSigned(attrs[2], 8)
      stop == ReadSigned(start[2], 8)
      ticketRead == IF h[1] THEN ticket[1] ELSE 0
      reader == IF h[1] THEN stop[2] ELSE h[2]
  IN  CASE reader.oor -> [req |-> EmptyRequest, ticket |-> ticketRead]
        [] h[1] -> [req |-> [uri |-> uri[1], attrs |-> attrs[1],
                             start |-> start[1], stop |-> stop[1]],
                    ticket |-> ticketRead]
        [] OTHER -> [req |-> DefaultRequest, ticket |-> 0]

(* decodeRangeRequest / decodeStreamRequest: if buff[4] is their id it is  *)
(* overwritten with snapshot_request and the snapshot decoder is used.    *)
DecodeAsSnapshot(buf, id) ==
  IF Len(buf) >= 5 /\ buf[5] = id
  THEN LET patched == [buf EXCEPT ![5] = MessageID.snapshot_request]
       IN  << DecodeSnapshotRequest(patched), patched >>
  ELSE << [req |-> DefaultRequest, ticket |-> 0], buf >>

ReadAlias(r) ==
  LET alias == Read(r, 4)
      type == ReadSizedUTF16(alias[2])
  IN  << [alias |-> alias[1], type |-> type[1]], type[2] >>

DecodeAttrAliasMsg(buf) ==
  LET h == Header(buf, MessageID.attribute_alias)
      count == Read(h[2], 4)
      aliases == ReadSeq(count[2], count[1], ReadAlias,
                         [alias |-> 0, type |-> <<>>], 4)
      reader == IF h[1] THEN aliases[2] ELSE h[2]
  IN  IF h[1] /\ ~reader.oor THEN aliases[1] ELSE <<>>

(* decodeOriginAliasMsg requires buff.size() > 5 before patching buff[4].  *)
DecodeOriginAliasMsg(buf) ==
  IF Len(buf) > 5 /\ buf[5] = MessageID.origin_alias
  THEN LET patched == [buf EXCEPT ![5] = MessageID.attribute_alias]
       IN  << DecodeAttrAliasMsg(patched), patched >>
  ELSE << <<>>, buf >>

(* decodeRequestComplete / decodeCancelRequest: the ticket, 0 on failure; *)
(* a missing ticket reads as 0.                                            *)
DecodeTicket(buf, id) ==
  LET h == Header(buf, id) IN IF h[1] THEN Read(h[2], 4)[1] ELSE 0

ReadAttribute(r) ==
  LET name == Read(r, 4)
      created == ReadSigned(name[2], 8)
      expires == ReadSigned(created[2], 8)
      origin == Read(expires[2], 4)
      data == ReadSizedBytes(origin[2])
  IN  << [name |-> name[1], created |-> created[1], expires |-> expires[1],
          origin |-> origin[1], data |-> data[1]], data[2] >>

BlankAttribute ==
  [name |-> 0, created |-> 0, expires |-> 0, origin |-> 0, data |-> <<>>]

EmptyWorldData == [uri |-> <<>>, attrs |-> <<>>]

DecodeDataMessage(buf) ==
  LET h == Header(buf, MessageID.data_response)
      uri == ReadSizedUTF16(h[2])
      ticket == Read(uri[2], 4)
      count == Read(ticket[2], 4)
      attrs == ReadSeq(count[2], count[1], ReadAttribute, BlankAttribute, 4)
      reader == IF h[1] THEN attrs[2] ELSE h[2]
  IN  CASE reader.oor -> [wd |-> EmptyWorldData, ticket |-> 0]
        [] h[1] -> [wd |-> [uri |-> uri[1], attrs |-> attrs[1]],
                    ticket |-> ticket[1]]
        [] OTHER -> [wd |-> EmptyWorldData, ticket |-> 0]

(* The query is the rest of the frame, (size - cur_index) / 2 code units:  *)
(* an odd last byte is dropped.  No out-of-range check.                    *)
DecodeURISearch(buf) ==
  LET h == Header(buf, MessageID.uri_search)
  IN  IF h[1] THEN ReadUTF16(h[2], (Len(buf) - h[2].cur) \div 2)[1] ELSE <<>>

(* Reads a uint32_t count of URIs that makeURISearchResponse never writes. *)
DecodeURISearchResponse(buf) ==
  LET h == Header(buf, MessageID.uri_response)
      count == Read(h[2], 4)
      uris == ReadStrings(count[2], count[1])
      reader == IF h[1] THEN uris[2] ELSE h[2]
  IN  IF h[1] /\ ~reader.oor THEN uris[1] ELSE <<>>

(* decodeOriginPreference: "while (cur_index < size) push_back(make_pair(  *)
(* readSizedUTF16(), readPrimitive<int32_t>()))".  The order in which the   *)
(* two arguments are evaluated is unspecified; the build fixes it.         *)
WeightPair(r) ==
  IF ArgOrder = "left_to_right"
  THEN LET s == ReadSizedUTF16(r)
           w == ReadSigned(s[2], 4)
       IN  << <<s[1], w[1]>>, w[2] >>
  ELSE LET w == ReadSigned(r, 4)
           s == ReadSizedUTF16(w[2])
       IN  << <<s[1], w[1]>>, s[2] >>

(* The loop.  An iteration whose reads all fail leaves the cursor where it *)
(* was, so the next iteration repeats it: the loop never ends (Hang).      *)
RECURSIVE ReadWeights(_)
ReadWeights(r) ==
  IF r.cur >= Len(r.buf) THEN << <<>>, r >>
  ELSE LET w == WeightPair(r)
       IN  IF w[2].cur = r.cur THEN Hang
           ELSE LET rest == ReadWeights(w[2])
                IN  IF rest = Hang THEN Hang
                    ELSE << <<w[1]>> \o rest[1], rest[2] >>

DecodeOriginPreference(buf) ==
  LET h == Header(buf, MessageID.origin_preference)
      weights == IF h[1] THEN ReadWeights(h[2]) ELSE << <<>>, h[2] >>
  IN  CASE weights = Hang -> Hang
        [] weights[2].oor -> <<>>
        [] OTHER -> weights[1]

-----------------------------------------------------------------------------
(* The values each make...() function is called with.                     *)
Requests == [uri : Strs, attrs : Lists(Strs), start : Times, stop : Times]
AliasLists == Lists([alias : Aliases, type : Strs])
Attributes == [name : Aliases, created : Times, expires : Times,
               origin : Aliases, data : Blobs]
WorldDatas == [uri : Strs, attrs : Lists(Attributes)]
WeightLists == Lists(Strs \X Weights)

(* A message kind with the value it carries, as its encoder is given it    *)
(* and its decoder should return it.                                       *)
Encode(k, v) ==
  CASE k = "keep_alive" -> MakeKeepAlive
    [] k = "snapshot_request" -> MakeSnapshotRequest(v.req, v.ticket)
    [] k = "range_request" -> MakeRangeRequest(v.req, v.ticket)
    [] k = "stream_request" -> MakeStreamRequest(v.req, v.ticket)
    [] k = "attribute_alias" -> MakeAttrAliasMsg(v)
    [] k = "origin_alias" -> MakeOriginAliasMsg(v)
    [] k = "request_complete" -> MakeRequestComplete(v)
    [] k = "cancel_request" -> MakeCancelRequest(v)
    [] k = "data_response" -> MakeDataMessage(v.wd, v.ticket)
    [] k = "uri_search" -> MakeURISearch(v)
    [] k = "uri_response" -> MakeURISearchResponse(v)
    [] k = "origin_preference" -> MakeOriginPreference(v)

(* The value each decoder returns to signal failure (spec section 4:       *)
(* an empty list, a zero ticket, an empty string).                         *)
IsFailure(k, v) ==
  CASE k \in {"snapshot_request", "range_request", "stream_request"} ->
         v.ticket = 0 /\ v.req.uri = <<>> /\ v.req.attrs = <<>>
    [] k \in {"request_complete", "cancel_request"} -> v = 0
    [] k = "data_response" -> v.ticket = 0 /\ v.wd = EmptyWorldData
    [] OTHER -> v = <<>>

(* The values a make...() function of each kind is given.                 *)
Values(k) ==
  CASE k = "keep_alive" -> {<<>>}
    [] k \in {"snapshot_request", "range_request", "stream_request"} ->
         [req : Requests, ticket : Tickets]
    [] k \in {"attribute_alias", "origin_alias"} -> AliasLists
    [] k \in {"request_complete", "cancel_request"} -> Tickets
    [] k = "data_response" -> [wd : WorldDatas, ticket : Tickets]
    [] k = "uri_search" -> Strs
    [] k = "uri_response" -> URILists
    [] k = "origin_preference" -> WeightLists

(* The decode...() function of each kind: <<result, buffer after>>.       *)
Decode(k, buf) ==
  CASE k = "snapshot_request" -> << DecodeSnapshotRequest(buf), buf >>
    [] k = "range_request" -> DecodeAsSnapshot(buf, MessageID.range_request)
    [] k = "stream_request" -> DecodeAsSnapshot(buf, MessageID.stream_request)
    [] k = "attribute_alias" -> << DecodeAttrAliasMsg(buf), buf >>
    [] k = "origin_alias" -> DecodeOriginAliasMsg(buf)
    [] k = "request_complete" ->
         << DecodeTicket(buf, MessageID.request_complete), buf >>
    [] k = "cancel_request" ->
         << DecodeTicket(buf, MessageID.cancel_request), buf >>
    [] k = "data_response" -> << DecodeDataMessage(buf), buf >>
    [] k = "uri_search" -> << DecodeURISearch(buf), buf >>
    [] k = "uri_response" -> << DecodeURISearchResponse(buf), buf >>
    [] k = "origin_preference" -> << DecodeOriginPreference(buf), buf >>

Decoders == Kinds \ {"keep_alive"}

=============================================================================
