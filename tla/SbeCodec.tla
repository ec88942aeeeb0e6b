------------------------------ MODULE SbeCodec -------------------------------
(***************************************************************************)
(* One SBE frame from the encoder's first call to the decoder's last: the  *)
(* generated codecs of sbe::binance run over the layouts of SbeLayout, and *)
(* the Binance adapter's choice of a decoder.  An encoder or decoder is a  *)
(* limit that moves through the frame, and inside a group an offset, an    *)
(* index that starts at usize::MAX and wraps, and a count; only one of the *)
(* two is at work at a time, so they share these variables.                *)
(*                                                                         *)
(* A frame is a function from positions to bytes; byte <<v, i, w>> is the  *)
(* i-th of the w bytes of v, so that a field read at another place or      *)
(* width than it was written gives no value of the message.                *)
(*                                                                         *)
(* The sender is the venue.  A later version of its schema may have longer *)
(* blocks (rootExtra, levelExtra bytes behind the fields we know): with 0  *)
(* it is the repository's encoder.                                         *)
(***************************************************************************)
EXTENDS SbeLayout

CONSTANTS
    Messages,       \* what the sender may send, see MessageOK
    UsizeMax,       \* usize::MAX
    NullPrice,      \* the null value of an optional price
    None            \* Option::None

SentBlock(m)    == Encoder[m.codec].blockLength + m.rootExtra
Groups(m)       == Len(Encoder[m.codec].groups)
SentLevel(m, g) == Encoder[m.codec].groups[g].blockLength + m.levelExtra

(* A message fits the widths of its lengths and counts.                    *)
MessageOK(m) ==
    /\ m.codec \in Codecs
    /\ m.rootExtra \in Nat /\ m.levelExtra \in Nat
    /\ DOMAIN m.root = DOMAIN Encoder[m.codec].root
    /\ m.levels \in [1 .. Groups(m) -> Seq(Int \X Int)]
    /\ SentBlock(m) < 65536
    /\ \A g \in 1 .. Groups(m) :
           /\ SentLevel(m, g) < 65536 /\ Len(m.levels[g]) < UsizeMax
           /\ m.codec # "response" => Len(m.levels[g]) < 65536
    /\ m.symbol \in Seq(Int) /\ Len(m.symbol) < 256
    /\ ~Encoder[m.codec].hasSymbol => m.symbol = <<>>

ASSUME MessageAssumption == UsizeMax \in Nat /\ \A m \in Messages : MessageOK(m)

VARIABLES
    msg,        \* what the sender says
    frame,      \* the bytes
    pc,         \* the call that comes next
    limit, group, offset, index, count, block,     \* the codec at work
    codec,      \* the decoder's, once it is chosen
    root, levels, symbol                           \* what the decoder has returned

codecVars == <<limit, group, offset, index, count, block>>
readVars  == <<root, levels, symbol>>
vars      == <<msg, frame, pc, codec, codecVars, readVars>>

-----------------------------------------------------------------------------
(* Where the parts of a message lie: what encoder and decoder have to agree *)
(* on, computed from the message alone.                                    *)
GroupLength(m, g) == Encoder[m.codec].groups[g].dimensionLength + Len(m.levels[g]) * SentLevel(m, g)

GroupAt(m, g) ==
    HeaderLength + SentBlock(m)
      + (IF g > 1 THEN GroupLength(m, 1) ELSE 0) + (IF g > 2 THEN GroupLength(m, 2) ELSE 0)

LevelAt(m, g, i) ==
    GroupAt(m, g) + Encoder[m.codec].groups[g].dimensionLength + (i - 1) * SentLevel(m, g)

SymbolAt(m)    == GroupAt(m, Groups(m) + 1)
FrameLength(m) ==
    SymbolAt(m) + (IF Encoder[m.codec].hasSymbol THEN 1 + Len(m.symbol) ELSE 0)

-----------------------------------------------------------------------------
(* WriteBuf: the fields of a block, at a position.                         *)
Bytes(at, field) == at + field[1] .. at + field[1] + field[2] - 1

Put(b, at, layout, values) ==
    [p \in DOMAIN b |->
        IF \E f \in DOMAIN layout : p \in Bytes(at, layout[f])
        THEN LET f == CHOOSE x \in DOMAIN layout : p \in Bytes(at, layout[x])
             IN  <<values[f], p - at - layout[f][1], layout[f][2]>>
        ELSE b[p]]

Garbage == -77      \* what a read across the bytes of several values gives

(* ReadBuf: get_i64_at, get_u16_at, ...                                    *)
Get(b, at, field) ==
    LET v == b[at + field[1]][1]
    IN  IF \A p \in Bytes(at, field) : b[p] = <<v, p - at - field[1], field[2]>>
        THEN v ELSE Garbage

GetBlock(b, at, layout) == [f \in DOMAIN layout |-> Get(b, at, layout[f])]

(* A text is a block of bytes.                                             *)
Text(n) == [i \in 1 .. n |-> <<i - 1, 1>>]

(* The length of a text is a u8.                                           *)
TextLength == [length |-> <<0, 1>>]

(* usize::wrapping_add(1).                                                 *)
WrappingInc(i) == IF i = UsizeMax THEN 0 ELSE i + 1

-----------------------------------------------------------------------------
Init ==
    /\ msg \in Messages
    /\ frame = [p \in 0 .. FrameLength(msg) - 1 |-> <<0, 0, 1>>]
    /\ pc = "wrap"
    /\ limit = 0 /\ group = 0 /\ offset = 0 /\ index = 0 /\ count = 0 /\ block = 0
    /\ codec = "none" /\ root = <<>> /\ levels = <<>> /\ symbol = <<>>

(* The encoder's wrap and header, and the root fields.                     *)
Header(m) ==
    [blockLength |-> SentBlock(m), templateId |-> Encoder[m.codec].templateId,
     schemaId |-> Encoder[m.codec].schemaId, version |-> Encoder[m.codec].version]

EncodeRoot ==
    /\ pc = "wrap"
    /\ frame' = Put(Put(frame, 0, HeaderEncoder, Header(msg)),
                    HeaderLength, Encoder[msg.codec].root, msg.root)
    /\ limit' = HeaderLength + SentBlock(msg)
    /\ group' = 1
    /\ pc' = "encode"
    /\ UNCHANGED <<msg, codec, offset, index, count, block, readVars>>

(* BidsEncoder::wrap, AsksEncoder::wrap.                                   *)
WrapEncoder ==
    /\ pc = "encode" /\ group <= Groups(msg)
    /\ LET g == Encoder[msg.codec].groups[group]
       IN  /\ frame' = Put(frame, limit, g.dimension,
                           [blockLength |-> SentLevel(msg, group),
                            count |-> Len(msg.levels[group])])
           /\ limit' = limit + g.dimensionLength
    /\ count' = Len(msg.levels[group])
    /\ block' = SentLevel(msg, group)
    /\ index' = UsizeMax /\ offset' = UsizeMax
    /\ pc' = "encodeLevels"
    /\ UNCHANGED <<msg, codec, group, readVars>>

(* advance, price and qty of a group encoder.                              *)
EncodeLevel ==
    LET next == WrappingInc(index)
        l    == msg.levels[group][next + 1]
    IN  /\ pc = "encodeLevels" /\ next < count
        /\ frame' = Put(frame, limit, Encoder[msg.codec].groups[group].level,
                        [price |-> l[1], qty |-> l[2]])
        /\ offset' = limit
        /\ limit' = limit + block
        /\ index' = next
        /\ UNCHANGED <<msg, codec, pc, group, count, block, readVars>>

(* advance that gives None, and parent.                                    *)
LeaveEncoder ==
    /\ pc = "encodeLevels" /\ WrappingInc(index) >= count
    /\ group' = group + 1
    /\ pc' = "encode"
    /\ UNCHANGED <<msg, codec, frame, limit, offset, index, count, block, readVars>>

(* symbol of the encoder; after it the frame is sent.                      *)
EncodeSymbol ==
    /\ pc = "encode" /\ group = Groups(msg) + 1
    /\ IF Encoder[msg.codec].hasSymbol
       THEN /\ frame' = Put(Put(frame, limit, TextLength, [length |-> Len(msg.symbol) % 256]),
                            limit + 1, Text(Len(msg.symbol)), msg.symbol)
            /\ limit' = limit + 1 + Len(msg.symbol)
       ELSE UNCHANGED <<frame, limit>>
    /\ pc' = "sent"
    /\ UNCHANGED <<msg, codec, group, offset, index, count, block, readVars>>

-----------------------------------------------------------------------------
(* The root block as the decoder of codec c returns it.                    *)
Optional(c, f, v) == IF f \in Decoder[c].optional /\ v = NullPrice THEN None ELSE v

GetRoot(b, c) ==
    LET read == GetBlock(b, HeaderLength, Decoder[c].root)
    IN  [f \in DOMAIN read |-> Optional(c, f, read[f])]

(* header and wrap of the decoder for codec c, and the root fields.        *)
DecodeRoot(c) ==
    /\ limit' = HeaderLength + GetBlock(frame, 0, HeaderDecoder).blockLength
    /\ root' = GetRoot(frame, c)
    /\ levels' = [g \in 1 .. Len(Decoder[c].groups) |-> <<>>]
    /\ group' = 1
    /\ codec' = c
    /\ pc' = "decode"
    /\ UNCHANGED <<msg, frame, offset, index, count, block, symbol>>

(* The first byte of the frame, the low byte of a little-endian u16.       *)
FirstByte(b) == b[0][1] % 256

LooksLikeJson(b) == FirstByte(b) \in {123, 91}     \* '{', '['

(* Faulty variant: the schema of the REST messages is asked for.           *)
Dispatch_RestSchema(h) ==
    IF h.schemaId # ResponseEncoder.schemaId THEN {}
    ELSE {c \in Streamed : Encoder[c].templateId = h.templateId}

(* The decoder that parse_market_event chooses, if any.                    *)
Dispatch(h) ==
    IF h.schemaId # DiffEncoder.schemaId THEN {}
    ELSE {c \in Streamed : Encoder[c].templateId = h.templateId}

(* parse_market_event of the Binance adapter, to its choice of a decoder.  *)
ParseMarketEvent ==
    LET chosen == IF FrameLength(msg) < HeaderLength \/ LooksLikeJson(frame) THEN {}
                  ELSE Dispatch(GetBlock(frame, 0, HeaderDecoder))
    IN  /\ pc = "sent"
        /\ \/ \E c \in chosen : DecodeRoot(c)
           \/ /\ chosen = {}
              /\ pc' = "ignored"
              /\ UNCHANGED <<msg, codec, frame, codecVars, readVars>>

(* The other codecs have no caller in the repository; theirs would wrap    *)
(* the decoder that belongs to the template, as debug_assert_eq demands.   *)
CallDecoder ==
    /\ pc = "sent" /\ msg.codec \notin Streamed
    /\ DecodeRoot(msg.codec)

-----------------------------------------------------------------------------
(* BidsDecoder::wrap, AsksDecoder::wrap.                                   *)
WrapDecoder ==
    /\ pc = "decode" /\ group <= Len(levels)
    /\ LET g == Decoder[codec].groups[group]
           d == GetBlock(frame, limit, g.dimension)
       IN  /\ limit' = limit + g.dimensionLength
           /\ block' = d.blockLength
           /\ count' = d.count
    /\ index' = UsizeMax /\ offset' = 0
    /\ pc' = "decodeLevels"
    /\ UNCHANGED <<msg, codec, frame, group, readVars>>

(* Faulty variant: the level is as long as this version of the schema has  *)
(* it.                                                                     *)
DecodeLevel_OwnLength ==
    LET l == GetBlock(frame, limit, Decoder[codec].groups[group].level)
    IN  /\ pc = "decodeLevels" /\ WrappingInc(index) < count
        /\ offset' = limit
        /\ limit' = limit + Encoder[codec].groups[group].blockLength
        /\ index' = WrappingInc(index)
        /\ levels' = [levels EXCEPT ![group] = Append(@, <<l.price, l.qty>>)]
        /\ UNCHANGED <<msg, codec, frame, pc, group, count, block, root, symbol>>

(* advance of a group decoder, and price and qty at its new offset.        *)
DecodeLevel ==
    LET l == GetBlock(frame, limit, Decoder[codec].groups[group].level)
    IN  /\ pc = "decodeLevels" /\ WrappingInc(index) < count
        /\ offset' = limit
        /\ limit' = limit + block
        /\ index' = WrappingInc(index)
        /\ levels' = [levels EXCEPT ![group] = Append(@, <<l.price, l.qty>>)]
        /\ UNCHANGED <<msg, codec, frame, pc, group, count, block, root, symbol>>

LeaveDecoder ==
    /\ pc = "decodeLevels" /\ WrappingInc(index) >= count
    /\ group' = group + 1
    /\ pc' = "decode"
    /\ UNCHANGED <<msg, codec, frame, limit, offset, index, count, block, readVars>>

(* symbol_decoder and symbol_slice.                                        *)
DecodeSymbol ==
    /\ pc = "decode" /\ group = Len(levels) + 1
    /\ IF Decoder[codec].hasSymbol
       THEN LET n == Get(frame, limit, TextLength.length)
            IN  /\ symbol' = GetBlock(frame, limit + 1, Text(n))
                /\ limit' = limit + 1 + n
       ELSE UNCHANGED <<symbol, limit>>
    /\ pc' = "decoded"
    /\ UNCHANGED <<msg, codec, frame, group, offset, index, count, block, root, levels>>

Next ==
    \/ EncodeRoot \/ WrapEncoder \/ EncodeLevel \/ LeaveEncoder \/ EncodeSymbol
    \/ ParseMarketEvent \/ CallDecoder
    \/ WrapDecoder \/ DecodeLevel \/ LeaveDecoder \/ DecodeSymbol

Spec == Init /\ [][Next]_vars

-----------------------------------------------------------------------------
Steps == {"wrap", "encode", "encodeLevels", "sent", "ignored", "decode", "decodeLevels",
          "decoded"}

(* The types.                                                              *)
TypeOK ==
    /\ msg \in Messages
    /\ DOMAIN frame = 0 .. FrameLength(msg) - 1
    /\ pc \in Steps
    /\ codec \in Codecs \cup {"none"}
    /\ limit \in 0 .. FrameLength(msg)
    /\ group \in 0 .. 3
    /\ index \in 0 .. UsizeMax
    /\ offset \in Nat /\ count \in Nat /\ block \in Nat

(* Encoder and decoder walk the same way: between two groups the limit is  *)
(* at the start of the next one, inside a group at the level that comes    *)
(* next, at the end of both at the end of the frame.  This is what keeps   *)
(* every read inside the frame, however long the venue's blocks are.       *)
CursorOnLayout ==
    /\ pc \in {"encode", "decode"} => limit = GroupAt(msg, group)
    /\ pc \in {"encodeLevels", "decodeLevels"} =>
           /\ count = Len(msg.levels[group])
           /\ WrappingInc(index) <= count
           /\ limit = LevelAt(msg, group, WrappingInc(index) + 1)
    /\ pc \in {"sent", "decoded"} => limit = FrameLength(msg)

(* What the adapter gets out of a frame is what the venue has put into it: *)
(* by the decoder of its template, for every number of levels on either    *)
(* side and for blocks longer than the ones this code was generated for.   *)
DecodedIsSent ==
    pc = "decoded" =>
        /\ codec = msg.codec
        /\ root = [f \in DOMAIN msg.root |-> Optional(codec, f, msg.root[f])]
        /\ levels = msg.levels
        /\ symbol = msg.symbol

(* No depth event is taken for something else, unless its block has grown  *)
(* to a length whose low byte is a bracket of JSON.                        *)
IgnoredIsForeign ==
    pc = "ignored" => msg.codec \notin Streamed \/ SentBlock(msg) % 256 \in {123, 91}

=============================================================================
