--------------------------- MODULE SolverProtocol ---------------------------
(***************************************************************************)
(* The solver <-> world model codec of world_model_protocol.cpp: the       *)
(* make...() encoders and decode...() decoders of the solver face.         *)
(* Strings are sequences of UTF-16 code units, grail_time is int64_t,      *)
(* aliases are uint32_t; values come from small CONSTANT sets.  A "tail"  *)
(* string (pushBackUTF16) has no length and runs to the end of the frame.  *)
(***************************************************************************)
EXTENDS NetBuffer

CONSTANTS
  Strs,      \* URIs, attribute names, origins, type names
  Aliases,   \* uint32_t type aliases
  Times,     \* grail_time values (int64_t)
  Blobs,     \* solution data (sequences of bytes)
  MaxItems   \* the longest list of aliases, attributes or solutions

(* enum class MessageID : uint8_t (world_model_protocol.hpp lines 239-248).*)
MessageID == [keep_alive |-> 0, type_announce |-> 1, start_on_demand |-> 2,
              stop_on_demand |-> 3, solver_data |-> 4, create_uri |-> 5,
              expire_uri |-> 6, delete_uri |-> 7, expire_attribute |-> 8,
              delete_attribute |-> 9]

Kinds == DOMAIN MessageID

Lists(S) == UNION {[1 .. n -> S] : n \in 0 .. MaxItems}

Each(list, Enc(_)) == FlattenSeq([i \in DOMAIN list |-> Enc(list[i])])

Flag(b) == IF b THEN 1 ELSE 0    \* a bool pushed as a uint8_t

-----------------------------------------------------------------------------
(* Encoders.                                                               *)

MakeKeepAlive == Framed(<<MessageID.keep_alive>>)

AliasBytes(a) == Val(a.alias, 4) \o SizedUTF16(a.type) \o <<Flag(a.on_demand)>>

MakeTypeAnnounceMsg(aliases, origin) ==
  Framed(<<MessageID.type_announce>> \o Val(Len(aliases), 4)
         \o Each(aliases, AliasBytes) \o UTF16(origin))

OnDemandBytes(a) == Val(a[1], 4) \o Val(Len(a[2]), 4) \o Each(a[2], SizedUTF16)

MakeStartOnDemand(aliases) ==
  Framed(<<MessageID.start_on_demand>> \o Val(Len(aliases), 4)
         \o Each(aliases, OnDemandBytes))

MakeStopOnDemand(aliases) ==
  [MakeStartOnDemand(aliases) EXCEPT ![5] = MessageID.stop_on_demand]

SolutionBytes(s) ==
  Val(s.type_alias, 4) \o Val(s.time, 8) \o SizedUTF16(s.target)
  \o SizedBytes(s.data)

MakeSolutionMsg(create, solutions) ==
  Framed(<<MessageID.solver_data, Flag(create)>> \o Val(Len(solutions), 4)
         \o Each(solutions, SolutionBytes))

(* makeCreateURI and makeExpireURI: sized URI, time, tail origin.          *)
MakeTimedURI(id, uri, time, origin) ==
  Framed(<<id>> \o SizedUTF16(uri) \o Val(time, 8) \o UTF16(origin))

MakeCreateURI(uri, creation, origin) ==
  MakeTimedURI(MessageID.create_uri, uri, creation, origin)

MakeExpireURI(uri, expiration, origin) ==
  MakeTimedURI(MessageID.expire_uri, uri, expiration, origin)

MakeExpireAttribute(uri, attr, origin, time) ==
  Framed(<<MessageID.expire_attribute>> \o SizedUTF16(uri)
         \o SizedUTF16(attr) \o Val(time, 8) \o UTF16(origin))

MakeDeleteURI(uri, origin) ==
  Framed(<<MessageID.delete_uri>> \o SizedUTF16(uri) \o UTF16(origin))

MakeDeleteAttribute(uri, attr, origin) ==
  Framed(<<MessageID.delete_attribute>> \o SizedUTF16(uri)
         \o SizedUTF16(attr) \o UTF16(origin))

-----------------------------------------------------------------------------
(* Decoders.                                                               *)

(* The rest of the frame as code units, (size - cur_index) / 2 of them.    *)
ReadTail(r) == ReadUTF16(r, Left(r) \div 2)

ReadAlias(r) ==
  LET alias == Read(r, 4)
      type == ReadSizedUTF16(alias[2])
      onDemand == Read(type[2], 1)
  IN  << [alias |-> alias[1], type |-> type[1], on_demand |-> onDemand[1] /= 0],
         onDemand[2] >>

(* The origin is read after the if, so also when the frame check failed.   *)
DecodeTypeAnnounceMsg(buf) ==
  LET h == Header(buf, MessageID.type_announce)
      count == Read(h[2], 4)
      aliases == ReadSeq(count[2], count[1], ReadAlias,
                         [alias |-> 0, type |-> <<>>, on_demand |-> FALSE], 1)
      origin == ReadTail(IF h[1] THEN aliases[2] ELSE h[2])
  IN  IF origin[2].oor THEN [aliases |-> <<>>, origin |-> <<>>]
      ELSE [aliases |-> IF h[1] THEN aliases[1] ELSE <<>>, origin |-> origin[1]]

ReadOnDemand(r) ==
  LET alias == Read(r, 4)
      count == Read(alias[2], 4)
      attrs == ReadStrings(count[2], count[1])
  IN  << <<alias[1], attrs[1]>>, attrs[2] >>

DecodeStartOnDemand(buf) ==
  LET h == Header(buf, MessageID.start_on_demand)
      count == Read(h[2], 4)
      aliases == ReadSeq(count[2], count[1], ReadOnDemand, <<0, <<>>>>, 4)
      reader == IF h[1] THEN aliases[2] ELSE h[2]
  IN  IF h[1] /\ ~reader.oor THEN aliases[1] ELSE <<>>

(* decodeStopOnDemand checks the frame itself, then patches buff[4].       *)
DecodeStopOnDemand(buf) ==
  IF Header(buf, MessageID.stop_on_demand)[1]
  THEN LET patched == [buf EXCEPT ![5] = MessageID.start_on_demand]
       IN  << DecodeStartOnDemand(patched), patched >>
  ELSE << <<>>, buf >>

(* Mutant: the grail_time read before the type alias.                      *)
ReadSolutionSwapped(r) ==
  LET time == ReadSigned(r, 8)
      alias == Read(time[2], 4)
      target == ReadSizedUTF16(alias[2])
      data == ReadSizedBytes(target[2])
  IN  << [type_alias |-> alias[1], time |-> time[1], target |-> target[1],
          data |-> data[1]], data[2] >>

ReadSolution(r) ==
  LET alias == Read(r, 4)
      time == ReadSigned(alias[2], 8)
      target == ReadSizedUTF16(time[2])
      data == ReadSizedBytes(target[2])
  IN  << [type_alias |-> alias[1], time |-> time[1], target |-> target[1],
          data |-> data[1]], data[2] >>

BlankSolution == [type_alias |-> 0, time |-> 0, target |-> <<>>, data |-> <<>>]

DecodeSolutionMsg(buf) ==
  LET h == Header(buf, MessageID.solver_data)
      create == Read(h[2], 1)
      count == Read(create[2], 4)
      solutions == ReadSeq(count[2], count[1], ReadSolution, BlankSolution, 4)
      reader == IF h[1] THEN solutions[2] ELSE h[2]
  IN  IF h[1] /\ ~reader.oor
      THEN [create |-> create[1] = 1, solutions |-> solutions[1]]
      ELSE [create |-> FALSE, solutions |-> <<>>]

(* The five URI messages: a sized URI, for some a sized attribute name,   *)
(* for some a grail_time, and a tail origin; all empty on failure.        *)
EmptyURIMsg == [uri |-> <<>>, attr |-> <<>>, time |-> 0, origin |-> <<>>]

DecodeURIMsg(buf, id, withAttr, withTime) ==
  LET h == Header(buf, id)
      uri == ReadSizedUTF16(h[2])
      attr == IF withAttr THEN ReadSizedUTF16(uri[2]) ELSE << <<>>, uri[2] >>
      time == IF withTime THEN ReadSigned(attr[2], 8) ELSE << 0, attr[2] >>
      origin == ReadTail(time[2])
  IN  IF h[1] /\ ~origin[2].oor
      THEN [uri |-> uri[1], attr |-> attr[1], time |-> time[1],
            origin |-> origin[1]]
      ELSE EmptyURIMsg

DecodeCreateURI(buf) == DecodeURIMsg(buf, MessageID.create_uri, FALSE, TRUE)
DecodeExpireURI(buf) == DecodeURIMsg(buf, MessageID.expire_uri, FALSE, TRUE)
DecodeExpireAttribute(buf) ==
  DecodeURIMsg(buf, MessageID.expire_attribute, TRUE, TRUE)
DecodeDeleteURI(buf) == DecodeURIMsg(buf, MessageID.delete_uri, FALSE, FALSE)
DecodeDeleteAttribute(buf) ==
  DecodeURIMsg(buf, MessageID.delete_attribute, TRUE, FALSE)

-----------------------------------------------------------------------------
(* The codec as CodecHarness uses it.                                       *)

SolverAliases == [alias : Aliases, type : Strs, on_demand : BOOLEAN]
Solutions == [type_alias : Aliases, time : Times, target : Strs, data : Blobs]
OnDemands == Lists(Aliases \X Lists(Strs))
URIMsgs(withAttr, withTime) ==
  [uri : Strs, attr : IF withAttr THEN Strs ELSE {<<>>},
   time : IF withTime THEN Times ELSE {0}, origin : Strs]

Values(k) ==
  CASE k = "keep_alive" -> {<<>>}
    [] k = "type_announce" -> [aliases : Lists(SolverAliases), origin : Strs]
    [] k \in {"start_on_demand", "stop_on_demand"} -> OnDemands
    [] k = "solver_data" -> [create : BOOLEAN, solutions : Lists(Solutions)]
    [] k \in {"create_uri", "expire_uri"} -> URIMsgs(FALSE, TRUE)
    [] k = "expire_attribute" -> URIMsgs(TRUE, TRUE)
    [] k = "delete_uri" -> URIMsgs(FALSE, FALSE)
    [] k = "delete_attribute" -> URIMsgs(TRUE, FALSE)

Encode(k, v) ==
  CASE k = "keep_alive" -> MakeKeepAlive
    [] k = "type_announce" -> MakeTypeAnnounceMsg(v.aliases, v.origin)
    [] k = "start_on_demand" -> MakeStartOnDemand(v)
    [] k = "stop_on_demand" -> MakeStopOnDemand(v)
    [] k = "solver_data" -> MakeSolutionMsg(v.create, v.solutions)
    [] k = "create_uri" -> MakeCreateURI(v.uri, v.time, v.origin)
    [] k = "expire_uri" -> MakeExpireURI(v.uri, v.time, v.origin)
    [] k = "expire_attribute" ->
         MakeExpireAttribute(v.uri, v.attr, v.origin, v.time)
    [] k = "delete_uri" -> MakeDeleteURI(v.uri, v.origin)
    [] k = "delete_attribute" -> MakeDeleteAttribute(v.uri, v.attr, v.origin)

Decode(k, buf) ==
  CASE k = "type_announce" -> << DecodeTypeAnnounceMsg(buf), buf >>
    [] k = "start_on_demand" -> << DecodeStartOnDemand(buf), buf >>
    [] k = "stop_on_demand" -> DecodeStopOnDemand(buf)
    [] k = "solver_data" -> << DecodeSolutionMsg(buf), buf >>
    [] k = "create_uri" -> << DecodeCreateURI(buf), buf >>
    [] k = "expire_uri" -> << DecodeExpireURI(buf), buf >>
    [] k = "expire_attribute" -> << DecodeExpireAttribute(buf), buf >>
    [] k = "delete_uri" -> << DecodeDeleteURI(buf), buf >>
    [] k = "delete_attribute" -> << DecodeDeleteAttribute(buf), buf >>

Decoders == Kinds \ {"keep_alive"}

(* The failure value of each decoder: empty lists and strings, zero, false.*)
IsFailure(k, v) ==
  CASE k = "type_announce" -> v.aliases = <<>> /\ v.origin = <<>>
    [] k \in {"start_on_demand", "stop_on_demand"} -> v = <<>>
    [] k = "solver_data" -> ~v.create /\ v.solutions = <<>>
    [] OTHER -> v = EmptyURIMsg

=============================================================================
