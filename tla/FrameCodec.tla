----------------------------- MODULE FrameCodec -----------------------------
(***************************************************************************)
(* The wire format between host and extension (quoin-ext-proto's codec)    *)
(* and the host's value conversion around it (runtime/extension.rs).       *)
(*                                                                         *)
(* A frame is a sequence of MessagePack tokens: a marker with the payload  *)
(* it announces.  Integer formats keep their widths, scaled down so that   *)
(* TLC can count to every boundary (8, 16, 32 and 64 bits are Bits[_]);    *)
(* strings and byte arrays are opaque.                                     *)
(***************************************************************************)
EXTENDS Integers, Sequences, SequencesExt, FiniteSets

CONSTANTS MAX_DV_DEPTH,  \* the decoder's nesting limit (scaled)
          MyExt, OtherExt \* reap queues: the identity of an incarnation

Bits == [fix |-> 3, b8 |-> 4, b16 |-> 5, b32 |-> 6, b64 |-> 7]
Two(n)    == 2^n
I64Max    == Two(Bits.b64 - 1) - 1
I64Min    == -Two(Bits.b64 - 1)
U64Max    == Two(Bits.b64) - 1

Nil       == <<"nil">>
Arr(n)    == <<"arr", n>>
Good(v, rest) == [ok |-> TRUE, v |-> v, rest |-> rest]
Bad           == [ok |-> FALSE, v |-> Nil, rest |-> <<>>]
Then(r, F(_)) == IF r.ok THEN F(r) ELSE Bad      \* `?`

-----------------------------------------------------------------------------
(* Integers.                                                                *)

write_uint(v) ==
    <<CASE v < Two(Bits.fix) -> <<"fixpos", v>>
        [] v \in Two(Bits.fix)..(Two(Bits.b8) - 1)   -> <<"u8", v>>
        [] v \in Two(Bits.b8)..(Two(Bits.b16) - 1)   -> <<"u16", v>>
        [] v \in Two(Bits.b16)..(Two(Bits.b32) - 1)  -> <<"u32", v>>
        [] OTHER -> <<"u64", v>> >>

Stored(i, w) == i % Two(w)                       \* two's complement
(* Mutant: the negative fixint takes one value more than it can hold.       *)
write_int_wide(i) ==
    IF i >= 0 THEN write_uint(i)
    ELSE <<CASE i >= -Two(Bits.fix - 1) - 1 -> <<"fixneg", Stored(i, Bits.fix)>>
             [] OTHER -> <<"i64", Stored(i, Bits.b64)>> >>
write_int(i) ==
    IF i >= 0 THEN write_uint(i)
    ELSE <<CASE i >= -Two(Bits.fix - 1) -> <<"fixneg", Stored(i, Bits.fix)>>
             [] i < -Two(Bits.fix - 1) /\ i >= -Two(Bits.b8 - 1)  -> <<"i8", Stored(i, Bits.b8)>>
             [] i < -Two(Bits.b8 - 1)  /\ i >= -Two(Bits.b16 - 1) -> <<"i16", Stored(i, Bits.b16)>>
             [] i < -Two(Bits.b16 - 1) /\ i >= -Two(Bits.b32 - 1) -> <<"i32", Stored(i, Bits.b32)>>
             [] OTHER -> <<"i64", Stored(i, Bits.b64)>> >>

Unsigned == {"fixpos", "u8", "u16", "u32", "u64"}
SignedBits == [fixneg |-> Bits.fix, i8 |-> Bits.b8, i16 |-> Bits.b16, i32 |-> Bits.b32, i64 |-> Bits.b64]
Extended(s, w) == IF s >= Two(w - 1) THEN s - Two(w) ELSE s
IntOf(tok) == IF tok[1] \in Unsigned THEN tok[2] ELSE Extended(tok[2], SignedBits[tok[1]])
IsInt(tok) == tok[1] \in Unsigned \cup DOMAIN SignedBits

(* A peer may use any integer format for an unsigned field, except the      *)
(* negative fixint and a negative value.                                    *)
read_uint(rd) ==
    IF rd = <<>> \/ ~IsInt(Head(rd)) \/ Head(rd)[1] = "fixneg" \/ IntOf(Head(rd)) < 0 THEN Bad
    ELSE Good(IntOf(Head(rd)), Tail(rd))

ReadTok(rd, kind) ==
    IF rd = <<>> \/ Head(rd)[1] # kind THEN Bad ELSE Good(Head(rd)[2], Tail(rd))

-----------------------------------------------------------------------------
(* Data values: <<"Null">>, <<"Bool", b>>, <<"Int", i>>, <<"Float", x>>,    *)
(* <<"Str", s>>, <<"Bytes", b>>, <<"BigInt", d>>, <<"Decimal", d>>,         *)
(* <<"Resource", <<id, class>>>>, <<"List", items>>, <<"Map", entries>>.    *)

RECURSIVE write_dv(_)
write_dv(d) ==
    CASE d[1] = "Null"     -> <<Nil>>
      [] d[1] = "Int"      -> write_int(d[2])
      [] d[1] = "List"     -> <<Arr(Len(d[2]))>> \o FlattenSeq([k \in 1..Len(d[2]) |-> write_dv(d[2][k])])
      [] d[1] = "Map"      -> <<<<"map", Len(d[2])>>>> \o
                              FlattenSeq([k \in 1..Len(d[2]) |-> <<<<"Str", d[2][k][1]>>>> \o write_dv(d[2][k][2])])
      [] OTHER             -> <<d>>               \* bool, float, str, bin, ext 1 to 3

RECURSIVE read_dv(_, _), ReadItems(_, _, _)
read_dv(rd, depth) ==
    IF depth > MAX_DV_DEPTH \/ rd = <<>> THEN Bad
    ELSE LET tok == Head(rd)
             Listed(got) == Good(<<"List", got.v>>, got.rest)
             Mapped(got) ==
                LET n == Len(got.v) \div 2
                IN  IF \A k \in 1..n : got.v[2 * k - 1][1] = "Str"
                    THEN Good(<<"Map", [k \in 1..n |-> <<got.v[2 * k - 1][2], got.v[2 * k]>>]>>, got.rest)
                    ELSE Bad
             Scalar == CASE tok = Nil -> <<"Null">>
                         [] tok # Nil /\ IsInt(tok) ->
                               IF IntOf(tok) > I64Max THEN <<"BigInt", IntOf(tok)>> ELSE <<"Int", IntOf(tok)>>
                         [] OTHER -> tok
         IN  IF tok[1] \in {"arr", "map"}
             THEN Then(ReadItems(Tail(rd), IF tok[1] = "map" THEN 2 * tok[2] ELSE tok[2], depth + 1),
                       LAMBDA got : IF tok[1] = "arr" THEN Listed(got) ELSE Mapped(got))
             ELSE Good(Scalar, Tail(rd))
ReadItems(rd, n, depth) ==
    IF n = 0 THEN Good(<<>>, rd)
    ELSE Then(read_dv(rd, depth), LAMBDA one :
         Then(ReadItems(one.rest, n - 1, depth), LAMBDA more :
         Good(<<one.v>> \o more.v, more.rest)))

RECURSIVE skip_value(_, _, _)
(* skip_value, n times at the given depth: the rest of the input, or Bad.   *)
skip_value(rd, n, depth) ==
    IF n = 0 THEN Good(Nil, rd)
    ELSE IF depth > MAX_DV_DEPTH \/ rd = <<>> THEN Bad
    ELSE LET tok  == Head(rd)
             held == CASE tok[1] = "arr" -> tok[2] [] tok[1] = "map" -> 2 * tok[2] [] OTHER -> 0
         IN  Then(skip_value(Tail(rd), held, depth + 1), LAMBDA inside :
             skip_value(inside.rest, n - 1, depth))

-----------------------------------------------------------------------------
(* Frames: [type, field, ...].  The layout of every message, how many of    *)
(* its fields a decoder insists on (the others were appended later), and    *)
(* whether it is a Call terminal, which carries the appended ReplyMeta.     *)

Layout == [
    Call                   |-> <<"str", "str", "uints", "uints", "uints", "arrows", "opt_dv", "str", "uint", "args">>,
    CallReturn             |-> <<"str">>,
    CallReturnError        |-> <<"str", "str">>,
    CallReturnResource     |-> <<"uint", "str">>,
    CallReturnChannel      |-> <<"uint">>,
    CallReturnResourceDecl |-> <<"uint", "str", "strs", "strs">>,
    CallReturnArray        |-> <<"arrow">>,
    CallReturnData         |-> <<"dv">>,
    CallReturnHandle       |-> <<"uint">>,
    Chan                   |-> <<"u8", "uint", "uint", "opt_dv", "str">>,
    GetManifest            |-> <<"version">>,
    ManifestReturn         |-> <<"version", "decls", "u32">>,
    MakeString             |-> <<"str">>,
    HandleToString         |-> <<"uint">>,
    Retain                 |-> <<"uint">>,
    Release                |-> <<"uints">>,
    CallMethodOnHandle     |-> <<"uint", "str", "uints">>,
    InvokeBlock            |-> <<"uint", "batches">>,
    InvokeBlockReturn      |-> <<"uints", "opt_str", "str">>,
    GetGlobal              |-> <<"str">>,
    MakeValue              |-> <<"dv">>,
    ReadHandle             |-> <<"uint">>,
    ReadHandleReturn       |-> <<"dv", "opt_str", "str">>,
    HostOpReturn           |-> <<"uint", "opt_str", "opt_str", "str">>]
Kinds     == DOMAIN Layout
Appended  == [k \in Kinds |-> IF k \in {"CallReturnError", "ManifestReturn", "InvokeBlockReturn",
                                        "ReadHandleReturn", "HostOpReturn"} THEN 1 ELSE 0]
Needed(k) == Len(Layout[k]) - Appended[k]
Terminals == {"CallReturn", "CallReturnError", "CallReturnResource", "CallReturnArray", "CallReturnData",
              "CallReturnHandle", "CallReturnChannel", "CallReturnResourceDecl"}
Default(ty) == IF ty = "str" THEN "" ELSE 0       \* read_appended_str, read_appended_u64

ItemOf  == [uints |-> "uint", strs |-> "str", arrows |-> "arrow", args |-> "arg", decls |-> "decl",
            batches |-> "uints"]
Parts   == [arrow |-> <<"dtype", "uint", "bin">>, decl |-> <<"str", "strs", "strs">>]
NarrowedTo == [u8 |-> Bits.b8, u32 |-> Bits.b32]
ArgType == <<"dv", "uint", "uint", "arrow", "uint">>  \* Data, Resource, Handle, Array, Chan

RECURSIVE WriteField(_, _)
WriteField(ty, x) ==
    LET Each(types) == FlattenSeq([k \in 1..Len(x) |-> WriteField(types[k], x[k])]) IN
    CASE ty \in {"uint", "u8", "u32", "version", "dtype"} -> write_uint(x)
      [] ty = "str"     -> <<<<"Str", x>>>>
      [] ty = "bin"     -> <<<<"Bytes", x>>>>
      [] ty = "opt_str" -> IF x = Nil THEN <<Nil>> ELSE <<x>>
      [] ty = "dv"      -> write_dv(x)
      [] ty = "opt_dv"  -> IF x \in {Nil, <<"Null">>} THEN <<Nil>> ELSE write_dv(x)
      [] ty \in DOMAIN ItemOf -> <<Arr(Len(x))>> \o Each([k \in 1..Len(x) |-> ItemOf[ty]])
      [] ty \in DOMAIN Parts  -> <<Arr(Len(x))>> \o Each(Parts[ty])
      [] ty = "arg"     -> <<Arr(2)>> \o write_uint(x[1]) \o WriteField(ArgType[x[1] + 1], x[2])

RECURSIVE ReadField(_, _), ReadFields(_, _)
ReadField(rd, ty) ==
    CASE ty = "uint" -> read_uint(rd)
      [] ty \in DOMAIN NarrowedTo ->                   \* `as u8`, `as u32`
            Then(read_uint(rd), LAMBDA got : Good(got.v % Two(NarrowedTo[ty]), got.rest))
      [] ty = "version" ->                             \* read_version
            Then(read_uint(rd), LAMBDA got : IF got.v < Two(Bits.b32) THEN got ELSE Bad)
      [] ty = "dtype" -> Then(read_uint(rd), LAMBDA got : IF got.v \in {0, 1} THEN got ELSE Bad)
      [] ty = "str"   -> ReadTok(rd, "Str")
      [] ty = "bin"   -> ReadTok(rd, "Bytes")
      [] ty \in {"opt_str", "opt_dv"} /\ rd # <<>> /\ Head(rd) = Nil -> Good(Nil, Tail(rd))
      [] ty = "opt_str" /\ ~(rd # <<>> /\ Head(rd) = Nil) ->
            Then(ReadTok(rd, "Str"), LAMBDA got : Good(<<"Str", got.v>>, got.rest))
      [] ty = "dv" \/ (ty = "opt_dv" /\ ~(rd # <<>> /\ Head(rd) = Nil)) -> read_dv(rd, 0)
      [] OTHER -> Then(ReadTok(rd, "arr"), LAMBDA n :
            CASE ty \in DOMAIN ItemOf -> ReadFields(n.rest, [k \in 1..n.v |-> ItemOf[ty]])
              [] ty \in DOMAIN Parts ->
                    IF n.v < Len(Parts[ty]) THEN Bad
                    ELSE Then(ReadFields(n.rest, Parts[ty]), LAMBDA got :
                         Then(skip_value(got.rest, n.v - Len(Parts[ty]), 0), LAMBDA end :
                         Good(got.v, end.rest)))
              [] ty = "arg" ->
                    IF n.v < 2 THEN Bad
                    ELSE Then(read_uint(n.rest), LAMBDA kind :
                         IF kind.v >= Len(ArgType) THEN Bad
                         ELSE Then(ReadField(kind.rest, ArgType[kind.v + 1]), LAMBDA got :
                              Then(skip_value(got.rest, n.v - 2, 0), LAMBDA end :
                              Good(<<kind.v, got.v>>, end.rest)))))
ReadFields(rd, types) ==
    IF types = <<>> THEN Good(<<>>, rd)
    ELSE Then(ReadField(rd, Head(types)), LAMBDA one :
         Then(ReadFields(one.rest, Tail(types)), LAMBDA more :
         Good(<<one.v>> \o more.v, more.rest)))

(* encode_with_meta.  `meta` is <<>> or <<handler_micros>>; `skew` is what  *)
(* a peer of another version does: an older one omits the appended field, a *)
(* newer one appends a value this decoder does not know.  Fields are        *)
(* positional, so a newer terminal has to write the meta before its own.    *)
encode_with_meta(k, fields, meta, skew) ==
    LET n    == IF skew = "older" THEN Needed(k) ELSE Len(Layout[k])
        tail == IF k \in Terminals /\ skew # "older" THEN meta ELSE <<>>
        more == IF skew = "newer" THEN <<<<"map", 1>>, <<"Str", "new">>, Nil>> ELSE <<>>
    IN  <<Arr(1 + n + Len(tail) + (IF skew = "newer" THEN 1 ELSE 0)), <<"kind", k>>>>
        \o FlattenSeq([i \in 1..n |-> WriteField(Layout[k][i], fields[i])])
        \o (IF tail = <<>> THEN <<>> ELSE write_uint(tail[1])) \o more

(* decode_frame_with_meta: [type, fields, appended fields, meta, extras],   *)
(* and nothing after them.                                                  *)
decode_frame(rd) ==
    IF Len(rd) < 2 \/ rd[1][1] # "arr" \/ rd[2][1] # "kind" \/ rd[1][2] < 1 THEN Bad
    ELSE LET k      == rd[2][2]
             nf     == rd[1][2] - 1
             has    == nf > Needed(k) /\ Appended[k] = 1
             types  == SubSeq(Layout[k], 1, Needed(k) + (IF has THEN 1 ELSE 0))
             hasM   == k \in Terminals /\ nf > Len(types)
             extra  == nf - Len(types) - (IF hasM THEN 1 ELSE 0)
             Filled(v) == IF has \/ Appended[k] = 0 THEN v ELSE Append(v, Default(Last(Layout[k])))
         IN  IF nf < Needed(k) THEN Bad
             ELSE Then(ReadFields(SubSeq(rd, 3, Len(rd)), types), LAMBDA fields :
                  Then(IF hasM THEN read_uint(fields.rest) ELSE Good(0, fields.rest), LAMBDA meta :
                  Then(skip_value(meta.rest, extra, 0), LAMBDA end :
                  IF end.rest # <<>> THEN Bad
                  ELSE [ok |-> TRUE, kind |-> k, meta |-> meta.v, fields |-> Filled(fields.v)])))

-----------------------------------------------------------------------------
(* Host values and the conversion.  <<"Ext", <<owner, id>>>> is an          *)
(* extension-backed instance; maps have string or other keys; <<"Opaque">>  *)
(* stands for symbols, blocks, sets, instances and other native types.      *)

RECURSIVE value_to_wire(_, _)
(* [ok, v]: refused when any part has no data form.  There is no depth      *)
(* limit on this side.                                                      *)
value_to_wire(x, owner) ==
    LET Parts0(items) == [k \in 1..Len(items) |-> value_to_wire(items[k], owner)]
        AllOk(seq)    == \A k \in 1..Len(seq) : seq[k].ok
    IN CASE x[1] = "Opaque" -> Bad
         [] x[1] = "Ext" -> IF x[2][1] = owner THEN Good(<<"Resource", <<x[2][2], "">>>>, <<>>) ELSE Bad
         [] x[1] = "List" -> LET c == Parts0(x[2]) IN
               IF AllOk(c) THEN Good(<<"List", [k \in 1..Len(c) |-> c[k].v]>>, <<>>) ELSE Bad
         [] x[1] = "Map" -> LET c == Parts0([k \in 1..Len(x[2]) |-> x[2][k][2]]) IN
               IF AllOk(c) /\ \A k \in 1..Len(c) : x[2][k][1][1] = "Str"
               THEN Good(<<"Map", [k \in 1..Len(c) |-> <<x[2][k][1][2], c[k].v>>]>>, <<>>) ELSE Bad
         [] OTHER -> Good(x, <<>>)

RECURSIVE wire_to_value(_, _)
(* `owner` is the receiving context's reap queue.                           *)
wire_to_value(d, owner) ==
    CASE d[1] = "Resource" -> <<"Ext", <<owner, d[2][1]>>>>
      [] d[1] = "List" -> <<"List", [k \in 1..Len(d[2]) |-> wire_to_value(d[2][k], owner)]>>
      [] d[1] = "Map"  -> <<"Map", [k \in 1..Len(d[2]) |-> <<<<"Str", d[2][k][1]>>, wire_to_value(d[2][k][2], owner)>>]>>
      [] OTHER -> d

(* classify_arg: how an argument crosses.                                   *)
classify_arg(x, owner) ==
    CASE x[1] = "Ext" /\ x[2][1] = owner -> <<1, x[2][2]>>
      [] x[1] = "Array" -> <<3, x[2]>>
      [] x[1] # "Array" /\ ~(x[1] = "Ext" /\ x[2][1] = owner) /\ value_to_wire(x, owner).ok ->
            <<0, value_to_wire(x, owner).v>>
      [] OTHER -> <<2, 1>>                        \* a local handle is minted

-----------------------------------------------------------------------------
(* The checked exchange: a message is made, framed, possibly damaged on the *)
(* way, and decoded.                                                        *)

RECURSIVE Nest(_)
Nest(n) == IF n = 0 THEN <<"Int", 1>> ELSE <<"List", <<Nest(n - 1)>>>>
Ints    == {<<"Int", i>> : i \in I64Min..I64Max}
DVs     == Ints \cup {Nest(n) : n \in 0..(MAX_DV_DEPTH + 1)} \cup
           {<<"Null">>, <<"Bool", FALSE>>, <<"Float", "x">>, <<"Str", "s">>, <<"Bytes", "b">>, <<"BigInt", "n">>,
            <<"Resource", <<1, "C">>>>, <<"List", <<>>>>,
            <<"Map", <<<<"k", <<"List", <<<<"Null">>>>>>>>, <<"j", <<"Int", -1>>>>>>>>}
Arrow   == <<1, 2, "b">>
Edges == {0} \cup {Two(Bits[b]) - 1 : b \in DOMAIN Bits} \cup {Two(Bits[b]) : b \in DOMAIN Bits \ {"b64"}}
(* The fields kind and lanes are u8 and u32 in the message already, so no   *)
(* encoder writes more; a version is whatever the other side says it is.    *)
Samples(ty) ==
    CASE ty \in {"uint", "version"} -> Edges
      [] ty \in DOMAIN NarrowedTo -> {x \in Edges : x < Two(NarrowedTo[ty])}
      [] ty = "str" -> {"", "s"}
      [] ty = "opt_str" -> {Nil, <<"Str", "">>, <<"Str", "s">>}
      [] ty = "dv" -> DVs
      [] ty = "opt_dv" -> {Nil} \cup DVs
      [] ty \in {"uints", "strs"} -> {<<>>} \cup {<<x>> : x \in IF ty = "uints" THEN {0, 9} ELSE {"s"}}
      [] ty = "batches" -> {<<>>, <<<<>>, <<1, 9>>>>}
      [] ty = "arrow" -> {Arrow} [] ty = "arrows" -> {<<>>, <<Arrow, Arrow>>}
      [] ty = "decls" -> {<<>>, <<<<"C", <<"m">>, <<>>>>>>}
      [] ty = "args" -> {<<>>, <<<<0, <<"Null">>>>, <<4, 9>>>>, <<<<1, 3>>, <<2, 4>>, <<3, Arrow>>>>}
Plain(ty) == CHOOSE x \in Samples(ty) : TRUE

Values == {<<"Nil">>, <<"Opaque">>, <<"Str", "s">>, <<"Ext", <<MyExt, 1>>>>, <<"Ext", <<OtherExt, 1>>>>}
HostValues == Values \cup {<<"List", <<x, y>>>> : x, y \in Values}
              \cup {<<"Map", <<<<key, x>>>>>> : key \in {<<"Str", "k">>, <<"Opaque">>}, x \in Values}

VARIABLES message, \* [kind, fields, meta, skew]
          wireSeq, \* the tokens under way
          damaged, \* the frame was cut or padded
          decoded  \* what the decoder made of it, <<>> before it ran

codecVars == <<message, wireSeq, damaged, decoded>>

CodecInit ==
    /\ \E k \in Kinds, skew \in {"same", "older", "newer"}, meta \in {<<>>, <<9>>} :
         /\ (skew = "newer" /\ k \in Terminals) => meta # <<>>
         /\ \E i \in 1..Len(Layout[k]) : \E x \in Samples(Layout[k][i]) :
            message = [kind |-> k, skew |-> skew, meta |-> meta,
                       fields |-> [j \in 1..Len(Layout[k]) |-> IF j = i THEN x ELSE Plain(Layout[k][j])]]
    /\ wireSeq = <<>> /\ damaged = FALSE /\ decoded = <<>>

Send ==
    /\ wireSeq = <<>> /\ ~damaged
    /\ wireSeq' = encode_with_meta(message.kind, message.fields, message.meta, message.skew)
    /\ UNCHANGED <<message, damaged, decoded>>
Damage ==
    /\ wireSeq # <<>> /\ ~damaged /\ decoded = <<>>
    /\ \/ \E n \in 0..(Len(wireSeq) - 1) : wireSeq' = SubSeq(wireSeq, 1, n)
       \/ wireSeq' = Append(wireSeq, Nil)
    /\ damaged' = TRUE
    /\ UNCHANGED <<message, decoded>>
Receive ==
    /\ (wireSeq # <<>> \/ damaged) /\ decoded = <<>>
    /\ decoded' = <<decode_frame(wireSeq)>>
    /\ UNCHANGED <<message, wireSeq, damaged>>
CodecNext == Send \/ Damage \/ Receive
CodecSpec == CodecInit /\ [][CodecNext]_codecVars

-----------------------------------------------------------------------------
RECURSIVE DepthOf(_)
DepthOf(d) ==
    CASE d[1] = "List" -> 1 + (IF d[2] = <<>> THEN 0 ELSE DepthOf(d[2][1]))
      [] d[1] = "Map" -> 1 + (IF d[2] = <<>> THEN 0 ELSE DepthOf(d[2][1][2]))
      [] OTHER -> 0
Refusable(m) == \E i \in 1..Len(m.fields) :
    \/ Layout[m.kind][i] \in {"dv", "opt_dv"} /\ DepthOf(m.fields[i]) > MAX_DV_DEPTH
    \/ Layout[m.kind][i] = "version" /\ m.fields[i] >= Two(Bits.b32)
(* What the receiver should see: an absent and a null optional value are    *)
(* one thing, and what an older peer does not send has its default.         *)
Meant(m) ==
    [i \in 1..Len(m.fields) |->
        LET ty == Layout[m.kind][i] IN
        IF m.skew = "older" /\ i > Needed(m.kind) THEN Default(ty)
        ELSE IF ty = "opt_dv" /\ m.fields[i] = <<"Null">> THEN Nil ELSE m.fields[i]]

(* Every message a peer of this, an older or a newer version encodes is     *)
(* decoded to what was meant, its appended fields and its timing included,  *)
(* for every integer of every width; a value nested past the limit and a    *)
(* version out of range are refused whole (codec.rs:560, the append-only contract at :11).           *)
FramesRoundTrip ==
    (decoded # <<>> /\ ~damaged) =>
        IF Refusable(message) THEN ~decoded[1].ok
        ELSE /\ decoded[1].ok /\ decoded[1].kind = message.kind
             /\ decoded[1].fields = Meant(message)
             /\ decoded[1].meta = IF message.kind \in Terminals /\ message.meta # <<>> /\ message.skew # "older"
                                  THEN message.meta[1] ELSE 0

(* A frame that was cut short or has something after its end is refused; it *)
(* is never taken for another message (codec.rs:844, :903).                 *)
DamageIsRefused == (decoded # <<>> /\ damaged) => ~decoded[1].ok

(* A value that crosses as data comes back equal, and only the receiving    *)
(* incarnation's own instances cross as references.                         *)
ValuesRoundTrip ==
    \A x \in HostValues :
        LET w == value_to_wire(x, MyExt) IN
        /\ w.ok => wire_to_value(w.v, MyExt) = x
        /\ classify_arg(x, MyExt)[1] = 1 => x = <<"Ext", <<MyExt, 1>>>>
=============================================================================
