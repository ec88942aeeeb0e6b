--------------------------- MODULE SbeCodecProofs ----------------------------
(***************************************************************************)
(* What comes over the wire.  SbeCodec for every message: any number of    *)
(* levels, any text, blocks of a later schema of any length.  The frame is *)
(* an invariant: what has been encoded so far stands in it, field by       *)
(* field, because every call writes behind everything the calls before it  *)
(* wrote.                                                                  *)
(*                                                                         *)
(* Then ScaledBook, for all scales, widths and prices: rounding is half a  *)
(* unit off at most, and a book holds what the prices that are rounded to  *)
(* a tick have now, unless it left the width.                              *)
(***************************************************************************)
EXTENDS SbeCodec, ScaledBook, WellFoundedInduction, TLAPS

-----------------------------------------------------------------------------
(* Blocks in a frame.                                                      *)

(* The fields of a layout lie apart within n bytes.                        *)
Apart(layout, n) ==
    /\ \A f \in DOMAIN layout :
          /\ layout[f][1] \in Nat /\ layout[f][2] \in Nat \ {0}
          /\ layout[f][1] + layout[f][2] <= n
    /\ \A f, h \in DOMAIN layout :
          f # h => \/ layout[f][1] + layout[f][2] <= layout[h][1]
                   \/ layout[h][1] + layout[h][2] <= layout[f][1]

(* The values stand in the frame, at a position.                           *)
Holds(b, at, layout, values) ==
    \A f \in DOMAIN layout : \A p \in Bytes(at, layout[f]) :
        b[p] = <<values[f], p - at - layout[f][1], layout[f][2]>>

(* A position lies in one of two fields that lie apart.                    *)
LEMMA OneField ==
  ASSUME NEW a \in Nat, NEW w \in Nat, NEW c \in Nat, NEW v \in Nat, NEW at \in Nat, NEW p \in Int,
         a + w <= c \/ c + v <= a, at + a <= p, p < at + a + w, at + c <= p
  PROVE  ~(p < at + c + v)
  OBVIOUS

(* A block that has been put is there.                                     *)
LEMMA PutHolds ==
  ASSUME NEW b, NEW layout, NEW values, NEW n \in Nat, NEW at \in Nat, NEW N \in Nat,
         Apart(layout, n), DOMAIN b = 0 .. N - 1, at + n <= N
  PROVE  Holds(Put(b, at, layout, values), at, layout, values)
  <1> SUFFICES ASSUME NEW f \in DOMAIN layout, NEW p \in Bytes(at, layout[f])
               PROVE Put(b, at, layout, values)[p]
                       = <<values[f], p - at - layout[f][1], layout[f][2]>>
    BY DEF Holds
  <1>1. p \in DOMAIN b BY DEF Bytes, Apart
  <1>2. ASSUME NEW h \in DOMAIN layout, p \in Bytes(at, layout[h]), h # f PROVE FALSE
    <2>1. /\ layout[f][1] \in Nat /\ layout[f][2] \in Nat
          /\ layout[h][1] \in Nat /\ layout[h][2] \in Nat
      BY DEF Apart
    <2>2. \/ layout[f][1] + layout[f][2] <= layout[h][1]
          \/ layout[h][1] + layout[h][2] <= layout[f][1]
      BY <1>2 DEF Apart
    <2>3. /\ at + layout[f][1] <= p /\ p < at + layout[f][1] + layout[f][2] /\ p \in Int
      BY <2>1 DEF Bytes
    <2>4. /\ at + layout[h][1] <= p /\ p < at + layout[h][1] + layout[h][2]
      BY <1>2, <2>1 DEF Bytes
    <2> QED BY <2>1, <2>2, <2>3, <2>4, OneField
  <1>3. (CHOOSE x \in DOMAIN layout : p \in Bytes(at, layout[x])) = f
    BY <1>2
  <1> QED BY <1>1, <1>3 DEF Put

LEMMA PutDomain ==
  ASSUME NEW b, NEW layout, NEW values, NEW at
  PROVE  DOMAIN Put(b, at, layout, values) = DOMAIN b
  BY DEF Put

(* A block that stands before the position of a write still stands there.  *)
LEMMA HoldsBefore ==
  ASSUME NEW b, NEW N \in Nat, DOMAIN b = 0 .. N - 1,
         NEW layout, NEW values, NEW n \in Nat, NEW at \in Nat, Apart(layout, n),
         NEW old, NEW said, NEW k \in Nat, NEW o \in Nat, Apart(old, k),
         o + k <= at, at <= N, Holds(b, o, old, said)
  PROVE  Holds(Put(b, at, layout, values), o, old, said)
  <1> SUFFICES ASSUME NEW f \in DOMAIN old, NEW p \in Bytes(o, old[f])
               PROVE Put(b, at, layout, values)[p] = b[p]
    BY DEF Holds
  <1>1. p \in DOMAIN b /\ p \in Int /\ p < at
    <2>1. /\ old[f][1] \in Nat /\ old[f][2] \in Nat /\ old[f][1] + old[f][2] <= k
      BY DEF Apart
    <2> QED BY <2>1 DEF Bytes
  <1>2. ASSUME NEW h \in DOMAIN layout PROVE p \notin Bytes(at, layout[h])
    <2>1. layout[h][1] \in Nat /\ layout[h][2] \in Nat
      BY DEF Apart
    <2> QED BY <1>1, <2>1 DEF Bytes
  <1> QED BY <1>1, <1>2 DEF Put

(* What stands in the frame is read.                                       *)
LEMMA HoldsGet ==
  ASSUME NEW b, NEW at \in Nat, NEW layout, NEW values, NEW n \in Nat, Apart(layout, n),
         Holds(b, at, layout, values), NEW f \in DOMAIN layout
  PROVE  Get(b, at, layout[f]) = values[f]
  <1>1. at + layout[f][1] \in Bytes(at, layout[f]) BY DEF Bytes, Apart
  <1>2. b[at + layout[f][1]][1] = values[f] BY <1>1 DEF Holds
  <1>3. \A p \in Bytes(at, layout[f]) :
           b[p] = <<values[f], p - at - layout[f][1], layout[f][2]>>
    BY DEF Holds
  <1> QED BY <1>2, <1>3 DEF Get

LEMMA HoldsGetBlock ==
  ASSUME NEW b, NEW at \in Nat, NEW layout, NEW values, NEW n \in Nat, Apart(layout, n),
         Holds(b, at, layout, values)
  PROVE  GetBlock(b, at, layout) = [f \in DOMAIN layout |-> values[f]]
  BY HoldsGet DEF GetBlock

-----------------------------------------------------------------------------
(* The layouts.                                                            *)

(* Encoders put the fields of a block apart, and a decoder looks for each  *)
(* field where the encoder of its template has put it.                     *)
THEOREM LayoutsAgree ==
  /\ Apart(HeaderEncoder, HeaderLength) /\ HeaderDecoder = HeaderEncoder
  /\ \A c \in Codecs :
        /\ Apart(Encoder[c].root, Encoder[c].blockLength) /\ Encoder[c].blockLength \in Nat
        /\ Decoder[c].root = Encoder[c].root
        /\ Decoder[c].hasSymbol = Encoder[c].hasSymbol
        /\ Len(Encoder[c].groups) \in {0, 2}
        /\ Len(Decoder[c].groups) = Len(Encoder[c].groups)
        /\ \A g \in 1 .. Len(Encoder[c].groups) :
              /\ Apart(Encoder[c].groups[g].dimension, Encoder[c].groups[g].dimensionLength)
              /\ Apart(Encoder[c].groups[g].level, Encoder[c].groups[g].blockLength)
              /\ Decoder[c].groups[g].dimension = Encoder[c].groups[g].dimension
              /\ Decoder[c].groups[g].dimensionLength = Encoder[c].groups[g].dimensionLength
              /\ Decoder[c].groups[g].level = Encoder[c].groups[g].level
              /\ Encoder[c].groups[g].dimensionLength \in Nat
              /\ Encoder[c].groups[g].blockLength \in Nat
              /\ DOMAIN Encoder[c].groups[g].dimension = {"blockLength", "count"}
              /\ DOMAIN Encoder[c].groups[g].level = {"price", "qty"}
  <1>1. Apart(HeaderEncoder, HeaderLength) /\ HeaderDecoder = HeaderEncoder
    BY DEF Apart, HeaderEncoder, HeaderDecoder, HeaderLength
  <1>2. /\ Apart(DiffRootEncoder, 26) /\ Apart(SnapshotRootEncoder, 18)
        /\ Apart(ResponseRootEncoder, 10) /\ Apart(TickerRootEncoder, 34)
    BY DEF Apart, DiffRootEncoder, SnapshotRootEncoder, ResponseRootEncoder, TickerRootEncoder
  <1>3. ASSUME NEW n \in {<<2, 4>>, <<4, 6>>}
        PROVE  /\ Apart(GroupEncoder(n[1], n[2]).dimension, GroupEncoder(n[1], n[2]).dimensionLength)
               /\ Apart(GroupEncoder(n[1], n[2]).level, GroupEncoder(n[1], n[2]).blockLength)
               /\ GroupDecoder(n[1], n[2]).dimension = GroupEncoder(n[1], n[2]).dimension
               /\ GroupDecoder(n[1], n[2]).dimensionLength = GroupEncoder(n[1], n[2]).dimensionLength
               /\ GroupDecoder(n[1], n[2]).level = GroupEncoder(n[1], n[2]).level
               /\ GroupEncoder(n[1], n[2]).dimensionLength \in Nat
               /\ GroupEncoder(n[1], n[2]).blockLength \in Nat
               /\ DOMAIN GroupEncoder(n[1], n[2]).dimension = {"blockLength", "count"}
               /\ DOMAIN GroupEncoder(n[1], n[2]).level = {"price", "qty"}
    BY DEF Apart, GroupEncoder, GroupDecoder
  <1>4. ASSUME NEW c \in Codecs
        PROVE  /\ Apart(Encoder[c].root, Encoder[c].blockLength) /\ Encoder[c].blockLength \in Nat
               /\ Decoder[c].root = Encoder[c].root
               /\ Decoder[c].hasSymbol = Encoder[c].hasSymbol
               /\ \/ Encoder[c].groups = <<>> /\ Decoder[c].groups = <<>>
                  \/ \E n \in {<<2, 4>>, <<4, 6>>} :
                       /\ Encoder[c].groups = <<GroupEncoder(n[1], n[2]), GroupEncoder(n[1], n[2])>>
                       /\ Decoder[c].groups = <<GroupDecoder(n[1], n[2]), GroupDecoder(n[1], n[2])>>
    <2>1. CASE c = "diff"
      <3>1. Encoder[c] = DiffEncoder /\ Decoder[c] = DiffDecoder
        BY <2>1 DEF Encoder, Decoder
      <3>2. /\ DiffEncoder.root = DiffRootEncoder /\ DiffEncoder.blockLength = 26
            /\ DiffDecoder.root = DiffRootEncoder
            /\ DiffDecoder.hasSymbol = DiffEncoder.hasSymbol
        BY DEF DiffEncoder, DiffDecoder, DiffRootEncoder, DiffRootDecoder
      <3>3. /\ DiffEncoder.groups = <<GroupEncoder(2, 4), GroupEncoder(2, 4)>>
            /\ DiffDecoder.groups = <<GroupDecoder(2, 4), GroupDecoder(2, 4)>>
        BY DEF DiffEncoder, DiffDecoder, DiffBidsEncoder, DiffAsksEncoder, DiffBidsDecoder,
               DiffAsksDecoder
      <3>4. <<2, 4>>[1] = 2 /\ <<2, 4>>[2] = 4
        OBVIOUS
      <3> QED BY <1>2, <3>1, <3>2, <3>3, <3>4
    <2>2. CASE c = "snapshot"
      <3>1. Encoder[c] = SnapshotEncoder /\ Decoder[c] = SnapshotDecoder
        BY <2>2 DEF Encoder, Decoder
      <3>2. /\ SnapshotEncoder.root = SnapshotRootEncoder /\ SnapshotEncoder.blockLength = 18
            /\ SnapshotDecoder.root = SnapshotRootEncoder
            /\ SnapshotDecoder.hasSymbol = SnapshotEncoder.hasSymbol
        BY DEF SnapshotEncoder, SnapshotDecoder, SnapshotRootEncoder, SnapshotRootDecoder
      <3>3. /\ SnapshotEncoder.groups = <<GroupEncoder(2, 4), GroupEncoder(2, 4)>>
            /\ SnapshotDecoder.groups = <<GroupDecoder(2, 4), GroupDecoder(2, 4)>>
        BY DEF SnapshotEncoder, SnapshotDecoder, SnapshotBidsEncoder, SnapshotAsksEncoder, SnapshotBidsDecoder,
               SnapshotAsksDecoder
      <3>4. <<2, 4>>[1] = 2 /\ <<2, 4>>[2] = 4
        OBVIOUS
      <3> QED BY <1>2, <3>1, <3>2, <3>3, <3>4
    <2>3. CASE c = "response"
      <3>1. Encoder[c] = ResponseEncoder /\ Decoder[c] = ResponseDecoder
        BY <2>3 DEF Encoder, Decoder
      <3>2. /\ ResponseEncoder.root = ResponseRootEncoder /\ ResponseEncoder.blockLength = 10
            /\ ResponseDecoder.root = ResponseRootEncoder
            /\ ResponseDecoder.hasSymbol = ResponseEncoder.hasSymbol
        BY DEF ResponseEncoder, ResponseDecoder, ResponseRootEncoder, ResponseRootDecoder
      <3>3. /\ ResponseEncoder.groups = <<GroupEncoder(4, 6), GroupEncoder(4, 6)>>
            /\ ResponseDecoder.groups = <<GroupDecoder(4, 6), GroupDecoder(4, 6)>>
        BY DEF ResponseEncoder, ResponseDecoder, ResponseBidsEncoder, ResponseAsksEncoder, ResponseBidsDecoder,
               ResponseAsksDecoder
      <3>4. <<4, 6>>[1] = 4 /\ <<4, 6>>[2] = 6
        OBVIOUS
      <3> QED BY <1>2, <3>1, <3>2, <3>3, <3>4
    <2>4. CASE c = "ticker"
      <3>1. Encoder[c] = TickerEncoder /\ Decoder[c] = TickerDecoder
        BY <2>4 DEF Encoder, Decoder
      <3>2. /\ TickerEncoder.root = TickerRootEncoder /\ TickerEncoder.blockLength = 34
            /\ TickerDecoder.root = TickerRootEncoder
            /\ TickerDecoder.hasSymbol = TickerEncoder.hasSymbol
        BY DEF TickerEncoder, TickerDecoder, TickerRootEncoder, TickerRootDecoder
      <3>3. TickerEncoder.groups = <<>> /\ TickerDecoder.groups = <<>>
        BY DEF TickerEncoder, TickerDecoder
      <3> QED BY <1>2, <3>1, <3>2, <3>3
    <2> QED BY <2>1, <2>2, <2>3, <2>4 DEF Codecs
  <1>5. ASSUME NEW c \in Codecs
        PROVE  /\ Len(Encoder[c].groups) \in {0, 2}
               /\ Len(Decoder[c].groups) = Len(Encoder[c].groups)
               /\ \A g \in 1 .. Len(Encoder[c].groups) : \E n \in {<<2, 4>>, <<4, 6>>} :
                     /\ Encoder[c].groups[g] = GroupEncoder(n[1], n[2])
                     /\ Decoder[c].groups[g] = GroupDecoder(n[1], n[2])
    <2>1. CASE Encoder[c].groups = <<>> /\ Decoder[c].groups = <<>>
      BY <2>1
    <2>2. ASSUME NEW n \in {<<2, 4>>, <<4, 6>>},
                 Encoder[c].groups = <<GroupEncoder(n[1], n[2]), GroupEncoder(n[1], n[2])>>,
                 Decoder[c].groups = <<GroupDecoder(n[1], n[2]), GroupDecoder(n[1], n[2])>>
          PROVE  /\ Len(Encoder[c].groups) = 2 /\ Len(Decoder[c].groups) = 2
                 /\ \A g \in 1 .. 2 : /\ Encoder[c].groups[g] = GroupEncoder(n[1], n[2])
                                      /\ Decoder[c].groups[g] = GroupDecoder(n[1], n[2])
      BY <2>2
    <2> QED BY <1>4, <2>1, <2>2
  <1>6. ASSUME NEW c \in Codecs, NEW g \in 1 .. Len(Encoder[c].groups)
        PROVE  /\ Apart(Encoder[c].groups[g].dimension, Encoder[c].groups[g].dimensionLength)
               /\ Apart(Encoder[c].groups[g].level, Encoder[c].groups[g].blockLength)
               /\ Decoder[c].groups[g].dimension = Encoder[c].groups[g].dimension
               /\ Decoder[c].groups[g].dimensionLength = Encoder[c].groups[g].dimensionLength
               /\ Decoder[c].groups[g].level = Encoder[c].groups[g].level
               /\ Encoder[c].groups[g].dimensionLength \in Nat
               /\ Encoder[c].groups[g].blockLength \in Nat
               /\ DOMAIN Encoder[c].groups[g].dimension = {"blockLength", "count"}
               /\ DOMAIN Encoder[c].groups[g].level = {"price", "qty"}
    <2>1. PICK n \in {<<2, 4>>, <<4, 6>>} : /\ Encoder[c].groups[g] = GroupEncoder(n[1], n[2])
                                           /\ Decoder[c].groups[g] = GroupDecoder(n[1], n[2])
      BY <1>5, <1>6
    <2> QED BY <1>3, <2>1
  <1> QED BY <1>1, <1>4, <1>5, <1>6

(* A template names one codec, and the streamed ones have the schema that  *)
(* parse_market_event asks for.                                            *)
LEMMA Templates ==
  /\ \A c, d \in Codecs : Encoder[c].templateId = Encoder[d].templateId => c = d
  /\ \A c \in Streamed : c \in Codecs /\ Encoder[c].schemaId = DiffEncoder.schemaId
  <1>1. /\ Encoder["diff"].templateId = 10003 /\ Encoder["snapshot"].templateId = 10002
        /\ Encoder["response"].templateId = 200 /\ Encoder["ticker"].templateId = 211
    BY DEF Encoder, DiffEncoder, SnapshotEncoder, ResponseEncoder, TickerEncoder
  <1>2. /\ Encoder["diff"].schemaId = DiffEncoder.schemaId
        /\ Encoder["snapshot"].schemaId = DiffEncoder.schemaId
    BY DEF Encoder, DiffEncoder, SnapshotEncoder
  <1> QED BY <1>1, <1>2 DEF Codecs, Streamed

-----------------------------------------------------------------------------
(* The positions of a message.                                             *)

LEMMA Product == ASSUME NEW x \in Nat, NEW y \in Nat PROVE x * y \in Nat
  OBVIOUS

(* What a message is made of has its type.                                 *)
LEMMA MessageParts ==
  ASSUME NEW m \in Messages
  PROVE  /\ m.codec \in Codecs /\ Groups(m) \in {0, 2}
         /\ Encoder[m.codec].blockLength \in Nat
         /\ SentBlock(m) \in Nat /\ Encoder[m.codec].blockLength <= SentBlock(m)
         /\ \A g \in 1 .. Groups(m) :
               /\ m.levels[g] \in Seq(Int \X Int)
               /\ Len(m.levels[g]) \in Nat /\ Len(m.levels[g]) < UsizeMax
               /\ Encoder[m.codec].groups[g].dimensionLength \in Nat
               /\ Encoder[m.codec].groups[g].blockLength \in Nat
               /\ SentLevel(m, g) \in Nat
               /\ Encoder[m.codec].groups[g].blockLength <= SentLevel(m, g)
         /\ Len(m.symbol) \in Nat /\ Len(m.symbol) < 256 /\ m.symbol \in Seq(Int)
         /\ DOMAIN m.root = DOMAIN Encoder[m.codec].root
         /\ DOMAIN m.levels = 1 .. Groups(m)
         /\ m.levels = [g \in 1 .. Groups(m) |-> m.levels[g]]
         /\ (~Encoder[m.codec].hasSymbol => m.symbol = <<>>)
  <1>1. MessageOK(m) BY MessageAssumption
  <1>2. m.codec \in Codecs /\ m.rootExtra \in Nat /\ m.levelExtra \in Nat
    BY <1>1 DEF MessageOK
  <1>3. Groups(m) \in {0, 2} /\ Encoder[m.codec].blockLength \in Nat
    BY <1>2, LayoutsAgree DEF Groups
  <1>4. \A g \in 1 .. Groups(m) :
               /\ Encoder[m.codec].groups[g].dimensionLength \in Nat
               /\ Encoder[m.codec].groups[g].blockLength \in Nat
    BY <1>2, LayoutsAgree DEF Groups
  <1>5. \A g \in 1 .. Groups(m) : m.levels[g] \in Seq(Int \X Int) /\ Len(m.levels[g]) < UsizeMax
    <2>1. m.levels \in [1 .. Groups(m) -> Seq(Int \X Int)] BY <1>1 DEF MessageOK
    <2>2. \A g \in 1 .. Groups(m) : Len(m.levels[g]) < UsizeMax
      <3> SUFFICES ASSUME NEW g \in 1 .. Groups(m) PROVE Len(m.levels[g]) < UsizeMax OBVIOUS
      <3> QED BY <1>1 DEF MessageOK
    <2> QED BY <2>1, <2>2
  <1>6. /\ Len(m.symbol) \in Nat /\ Len(m.symbol) < 256 /\ m.symbol \in Seq(Int)
        /\ DOMAIN m.root = DOMAIN Encoder[m.codec].root
        /\ DOMAIN m.levels = 1 .. Groups(m)
        /\ m.levels = [g \in 1 .. Groups(m) |-> m.levels[g]]
        /\ (~Encoder[m.codec].hasSymbol => m.symbol = <<>>)
    <2>1. m.symbol \in Seq(Int) /\ Len(m.symbol) < 256 BY <1>1 DEF MessageOK
    <2>2. Len(m.symbol) \in Nat BY <2>1
    <2>3. m.levels \in [1 .. Groups(m) -> Seq(Int \X Int)] BY <1>1 DEF MessageOK
    <2>4. DOMAIN m.levels = 1 .. Groups(m) /\ m.levels = [g \in 1 .. Groups(m) |-> m.levels[g]]
      BY <2>3
    <2>5. /\ DOMAIN m.root = DOMAIN Encoder[m.codec].root
          /\ (~Encoder[m.codec].hasSymbol => m.symbol = <<>>)
      BY <1>1 DEF MessageOK
    <2> QED BY <2>1, <2>2, <2>4, <2>5
  <1>7. SentBlock(m) \in Nat /\ Encoder[m.codec].blockLength <= SentBlock(m)
    BY <1>2, <1>3 DEF SentBlock
  <1>8. ASSUME NEW g \in 1 .. Groups(m)
        PROVE  /\ SentLevel(m, g) \in Nat
               /\ Encoder[m.codec].groups[g].blockLength <= SentLevel(m, g)
    BY <1>2, <1>4 DEF SentLevel
  <1>9. \A g \in 1 .. Groups(m) : Len(m.levels[g]) \in Nat BY <1>5
  <1> QED BY <1>2, <1>3, <1>4, <1>5, <1>6, <1>7, <1>8, <1>9

(* Levels follow each other at the distance the sender gives them.         *)
LEMMA LevelsFollow ==
  ASSUME NEW m \in Messages, NEW g \in 1 .. Groups(m), GroupAt(m, g) \in Nat
  PROVE  /\ \A i \in Nat : i > 0 => LevelAt(m, g, i) \in Nat
         /\ LevelAt(m, g, 1) = GroupAt(m, g) + Encoder[m.codec].groups[g].dimensionLength
         /\ LevelAt(m, g, Len(m.levels[g]) + 1) = GroupAt(m, g) + GroupLength(m, g)
         /\ \A i \in Nat : LevelAt(m, g, i + 1) = LevelAt(m, g, i) + SentLevel(m, g)
         /\ \A i, j \in Nat : 0 < i /\ i < j =>
               LevelAt(m, g, i) + SentLevel(m, g) <= LevelAt(m, g, j)
  <1> DEFINE d == Encoder[m.codec].groups[g].dimensionLength
             w == SentLevel(m, g)
             n == Len(m.levels[g])
             a == GroupAt(m, g)
  <1>1. d \in Nat /\ w \in Nat /\ n \in Nat /\ a \in Nat BY MessageParts
  <1>2. /\ GroupLength(m, g) = d + n * w
        /\ \A i : LevelAt(m, g, i) = a + d + (i - 1) * w
    BY DEF GroupLength, LevelAt
  <1> HIDE DEF d, w, n, a
  <1>3. ASSUME NEW i \in Nat, i > 0 PROVE (i - 1) * w \in Nat
    BY <1>1, <1>3, Product
  <1>4. ASSUME NEW i \in Nat, NEW j \in Nat, 0 < i, i < j PROVE (i - 1) * w + w <= (j - 1) * w
    <2>1. (j - 1 - i) * w \in Nat
      <3>1. j - 1 - i \in Nat BY <1>4
      <3> QED BY <1>1, <3>1, Product
    <2>2. (j - 1) * w = (i - 1) * w + w + (j - 1 - i) * w BY <1>1
    <2>3. (i - 1) * w \in Nat BY <1>3, <1>4
    <2>4. (i - 1) * w + w \in Int BY <1>1, <2>3
    <2> QED BY <1>1, <2>1, <2>2, <2>3, <2>4
  <1>5. \A i \in Nat : i * w = (i - 1) * w + w BY <1>1
  <1>6. \A i \in Nat : (i + 1 - 1) * w = i * w BY <1>1
  <1>7. \A i \in Nat : (i - 1) * w \in Int BY <1>1
  <1>8. \A i \in Nat : i > 0 => LevelAt(m, g, i) \in Nat BY <1>1, <1>2, <1>3
  <1>9. LevelAt(m, g, 1) = a + d BY <1>1, <1>2
  <1>10. LevelAt(m, g, n + 1) = a + GroupLength(m, g)
    <2>1. n * w \in Nat BY <1>1, Product
    <2> QED BY <1>1, <1>2, <1>6, <2>1
  <1>11. \A i \in Nat : LevelAt(m, g, i + 1) = LevelAt(m, g, i) + w
    BY <1>1, <1>2, <1>5, <1>6, <1>7
  <1>12. \A i, j \in Nat : 0 < i /\ i < j => LevelAt(m, g, i) + w <= LevelAt(m, g, j)
    BY <1>1, <1>2, <1>3, <1>4
  <1> QED BY <1>8, <1>9, <1>10, <1>11, <1>12 DEF d, w, n, a

(* Groups follow each other, and the text is behind them.                  *)
LEMMA GroupsFollow ==
  ASSUME NEW m \in Messages
  PROVE  /\ GroupAt(m, 1) = HeaderLength + SentBlock(m)
         /\ \A g \in 1 .. Groups(m) + 1 : GroupAt(m, g) \in Nat /\ GroupAt(m, 1) <= GroupAt(m, g)
         /\ \A g \in 1 .. Groups(m) :
               /\ LevelAt(m, g, Len(m.levels[g]) + 1) = GroupAt(m, g + 1)
               /\ GroupAt(m, g) <= GroupAt(m, g + 1)
         /\ \A g, h \in 1 .. Groups(m) + 1 : g <= h => GroupAt(m, g) <= GroupAt(m, h)
         /\ \A g \in 1 .. Groups(m) + 1 : GroupAt(m, g) <= FrameLength(m)
         /\ FrameLength(m) \in Nat
  <1>1. ASSUME NEW g \in 1 .. Groups(m) PROVE GroupLength(m, g) \in Nat
    <2>1. /\ Len(m.levels[g]) \in Nat /\ SentLevel(m, g) \in Nat
          /\ Encoder[m.codec].groups[g].dimensionLength \in Nat
      BY MessageParts
    <2> DEFINE x == Len(m.levels[g]) * SentLevel(m, g)
    <2>2. x \in Nat BY <2>1, Product
    <2>3. GroupLength(m, g) = Encoder[m.codec].groups[g].dimensionLength + x BY DEF GroupLength
    <2> HIDE DEF x
    <2> QED BY <2>1, <2>2, <2>3
  <1>3. HeaderLength \in Nat /\ SentBlock(m) \in Nat /\ Groups(m) \in {0, 2}
    BY MessageParts DEF HeaderLength
  <1>2. /\ GroupAt(m, 1) = HeaderLength + SentBlock(m)
        /\ Groups(m) = 2 =>
              /\ GroupAt(m, 2) = GroupAt(m, 1) + GroupLength(m, 1)
              /\ GroupAt(m, 3) = GroupAt(m, 2) + GroupLength(m, 2)
    <2>1. GroupAt(m, 1) = HeaderLength + SentBlock(m) BY <1>3 DEF GroupAt
    <2>2. CASE Groups(m) = 2
      <3>1. GroupLength(m, 1) \in Nat /\ GroupLength(m, 2) \in Nat BY <1>1, <2>2
      <3> QED BY <1>3, <3>1 DEF GroupAt
    <2> QED BY <2>1, <2>2
  <1>4. \A g \in 1 .. Groups(m) + 1 : GroupAt(m, g) \in Nat /\ GroupAt(m, 1) <= GroupAt(m, g)
    BY <1>1, <1>2, <1>3
  <1>5. \A g \in 1 .. Groups(m) : GroupAt(m, g + 1) = GroupAt(m, g) + GroupLength(m, g)
    BY <1>1, <1>2, <1>3
  <1>6. \A g \in 1 .. Groups(m) : LevelAt(m, g, Len(m.levels[g]) + 1) = GroupAt(m, g + 1)
    <2> SUFFICES ASSUME NEW g \in 1 .. Groups(m)
                 PROVE LevelAt(m, g, Len(m.levels[g]) + 1) = GroupAt(m, g + 1)
      OBVIOUS
    <2>1. GroupAt(m, g) \in Nat BY <1>3, <1>4
    <2> QED BY <1>5, <2>1, LevelsFollow
  <1>7. \A g, h \in 1 .. Groups(m) + 1 : g <= h => GroupAt(m, g) <= GroupAt(m, h)
    BY <1>1, <1>2, <1>3, <1>4
  <1>8. SymbolAt(m) \in Nat /\ SymbolAt(m) <= FrameLength(m) /\ FrameLength(m) \in Nat
    BY <1>3, <1>4, MessageParts DEF SymbolAt, FrameLength
  <1>9. \A g \in 1 .. Groups(m) + 1 : GroupAt(m, g) <= SymbolAt(m)
    BY <1>3, <1>7 DEF SymbolAt
  <1>10. \A g \in 1 .. Groups(m) + 1 : GroupAt(m, g) <= FrameLength(m)
    BY <1>3, <1>4, <1>8, <1>9
  <1>11. \A g \in 1 .. Groups(m) : GroupAt(m, g) <= GroupAt(m, g + 1)
    BY <1>3, <1>7
  <1> QED BY <1>2, <1>4, <1>6, <1>7, <1>8, <1>10, <1>11

(* A level that has not been passed lies before the next group.            *)
LEMMA LevelPlaces ==
  ASSUME NEW m \in Messages, NEW g \in 1 .. Groups(m), NEW i \in 0 .. Len(m.levels[g])
  PROVE  /\ LevelAt(m, g, i + 1) \in Nat /\ LevelAt(m, g, i + 1) <= GroupAt(m, g + 1)
         /\ GroupAt(m, g) + Encoder[m.codec].groups[g].dimensionLength <= LevelAt(m, g, i + 1)
         /\ GroupAt(m, g + 1) <= FrameLength(m)
         /\ LevelAt(m, g, i + 1 + 1) = LevelAt(m, g, i + 1) + SentLevel(m, g)
         /\ i < Len(m.levels[g]) => LevelAt(m, g, i + 1) + SentLevel(m, g) <= GroupAt(m, g + 1)
  <1>1. /\ Groups(m) \in {0, 2} /\ Len(m.levels[g]) \in Nat /\ SentLevel(m, g) \in Nat
        /\ Encoder[m.codec].groups[g].dimensionLength \in Nat
    BY MessageParts
  <1>2. g \in 1 .. Groups(m) + 1 /\ g + 1 \in 1 .. Groups(m) + 1 BY <1>1
  <1>3. /\ GroupAt(m, g) \in Nat /\ GroupAt(m, g + 1) \in Nat
        /\ GroupAt(m, g + 1) <= FrameLength(m)
        /\ LevelAt(m, g, Len(m.levels[g]) + 1) = GroupAt(m, g + 1)
    BY <1>2, GroupsFollow
  <1>4. /\ \A j \in Nat : j > 0 => LevelAt(m, g, j) \in Nat
        /\ LevelAt(m, g, 1) = GroupAt(m, g) + Encoder[m.codec].groups[g].dimensionLength
        /\ \A j \in Nat : LevelAt(m, g, j + 1) = LevelAt(m, g, j) + SentLevel(m, g)
        /\ \A j, k \in Nat : 0 < j /\ j < k =>
               LevelAt(m, g, j) + SentLevel(m, g) <= LevelAt(m, g, k)
    BY <1>3, LevelsFollow
  <1>5. i \in Nat /\ i + 1 \in Nat /\ i + 1 > 0 /\ i <= Len(m.levels[g]) BY <1>1
  <1>6. /\ LevelAt(m, g, i + 1) \in Nat
        /\ LevelAt(m, g, i + 1 + 1) = LevelAt(m, g, i + 1) + SentLevel(m, g)
    BY <1>4, <1>5
  <1>7. ASSUME i < Len(m.levels[g])
        PROVE  LevelAt(m, g, i + 1) + SentLevel(m, g) <= GroupAt(m, g + 1)
    <2>1. /\ Len(m.levels[g]) + 1 \in Nat /\ i + 1 < Len(m.levels[g]) + 1 /\ 0 < i + 1
      BY <1>1, <1>5, <1>7
    <2>2. LevelAt(m, g, i + 1) + SentLevel(m, g) <= LevelAt(m, g, Len(m.levels[g]) + 1)
      BY <1>4, <1>5, <2>1
    <2> QED BY <1>3, <2>2
  <1>8. LevelAt(m, g, i + 1) <= GroupAt(m, g + 1)
    <2>1. CASE i = Len(m.levels[g]) BY <1>3, <2>1
    <2>2. CASE i < Len(m.levels[g]) BY <1>1, <1>3, <1>6, <1>7, <2>2
    <2> QED BY <1>1, <1>5, <2>1, <2>2
  <1>9. LevelAt(m, g, 1) <= LevelAt(m, g, i + 1)
    <2>1. CASE i = 0 BY <1>4, <2>1
    <2>2. CASE i > 0
      <3>1. LevelAt(m, g, 1) + SentLevel(m, g) <= LevelAt(m, g, i + 1) BY <1>4, <1>5, <2>2
      <3>2. LevelAt(m, g, 1) \in Nat BY <1>4
      <3> QED BY <1>1, <1>6, <3>1, <3>2
    <2> QED BY <1>5, <2>1, <2>2
  <1> QED BY <1>3, <1>4, <1>6, <1>7, <1>8, <1>9

-----------------------------------------------------------------------------
(* What stands in a frame.                                                 *)

RootWritten(b, m) ==
    /\ Holds(b, 0, HeaderEncoder, Header(m))
    /\ Holds(b, HeaderLength, Encoder[m.codec].root, m.root)

Dimension(m, g) == [blockLength |-> SentLevel(m, g), count |-> Len(m.levels[g])]
LevelFields(l)  == [price |-> l[1], qty |-> l[2]]

(* A group, up to its level n.                                             *)
LevelsWritten(b, m, g, n) ==
    /\ Holds(b, GroupAt(m, g), Encoder[m.codec].groups[g].dimension, Dimension(m, g))
    /\ \A i \in 1 .. n :
          Holds(b, LevelAt(m, g, i), Encoder[m.codec].groups[g].level, LevelFields(m.levels[g][i]))

GroupWritten(b, m, g) == LevelsWritten(b, m, g, Len(m.levels[g]))

SymbolWritten(b, m) ==
    Encoder[m.codec].hasSymbol =>
        /\ Holds(b, SymbolAt(m), TextLength, [length |-> Len(m.symbol)])
        /\ Holds(b, SymbolAt(m) + 1, Text(Len(m.symbol)), m.symbol)

LEMMA RootKept ==
  ASSUME NEW m \in Messages, NEW b, DOMAIN b = 0 .. FrameLength(m) - 1, RootWritten(b, m),
         NEW layout, NEW values, NEW n \in Nat, Apart(layout, n),
         NEW at \in Nat, GroupAt(m, 1) <= at, at <= FrameLength(m)
  PROVE  RootWritten(Put(b, at, layout, values), m)
  <1>1. /\ FrameLength(m) \in Nat /\ GroupAt(m, 1) = HeaderLength + SentBlock(m)
        /\ SentBlock(m) \in Nat /\ m.codec \in Codecs /\ HeaderLength \in Nat /\ 0 \in Nat
        /\ Encoder[m.codec].blockLength \in Nat /\ Encoder[m.codec].blockLength <= SentBlock(m)
    BY GroupsFollow, MessageParts DEF HeaderLength
  <1>2. Apart(HeaderEncoder, HeaderLength) /\ Apart(Encoder[m.codec].root, Encoder[m.codec].blockLength)
    BY <1>1, LayoutsAgree
  <1>3. 0 + HeaderLength <= at /\ HeaderLength + Encoder[m.codec].blockLength <= at BY <1>1
  <1>4. Holds(Put(b, at, layout, values), 0, HeaderEncoder, Header(m))
    BY <1>1, <1>2, <1>3, HoldsBefore DEF RootWritten
  <1>5. Holds(Put(b, at, layout, values), HeaderLength, Encoder[m.codec].root, m.root)
    BY <1>1, <1>2, <1>3, HoldsBefore DEF RootWritten
  <1> QED BY <1>4, <1>5 DEF RootWritten

LEMMA LevelsKept ==
  ASSUME NEW m \in Messages, NEW b, DOMAIN b = 0 .. FrameLength(m) - 1,
         NEW g \in 1 .. Groups(m), NEW k \in 0 .. Len(m.levels[g]), LevelsWritten(b, m, g, k),
         NEW layout, NEW values, NEW n \in Nat, Apart(layout, n),
         NEW at \in Nat, LevelAt(m, g, k + 1) <= at, at <= FrameLength(m)
  PROVE  LevelsWritten(Put(b, at, layout, values), m, g, k)
  <1> DEFINE e == Encoder[m.codec].groups[g]
  <1>1. /\ FrameLength(m) \in Nat /\ GroupAt(m, g) \in Nat /\ m.codec \in Codecs
        /\ Groups(m) \in {0, 2}
    <2>1. m.codec \in Codecs /\ Groups(m) \in {0, 2} BY MessageParts
    <2>2. g \in 1 .. Groups(m) + 1 BY <2>1
    <2> QED BY <2>1, <2>2, GroupsFollow
  <1>2. /\ e.dimensionLength \in Nat /\ e.blockLength \in Nat /\ SentLevel(m, g) \in Nat
        /\ e.blockLength <= SentLevel(m, g) /\ k \in Nat
    <2>1. Len(m.levels[g]) \in Nat BY MessageParts
    <2>2. k \in Nat BY <2>1
    <2>3. /\ e.dimensionLength \in Nat /\ e.blockLength \in Nat /\ SentLevel(m, g) \in Nat
          /\ e.blockLength <= SentLevel(m, g)
      BY MessageParts
    <2> QED BY <2>2, <2>3
  <1>3. Apart(e.dimension, e.dimensionLength) /\ Apart(e.level, e.blockLength)
    BY <1>1, LayoutsAgree DEF Groups
  <1>4. /\ \A i \in Nat : i > 0 => LevelAt(m, g, i) \in Nat
        /\ LevelAt(m, g, 1) = GroupAt(m, g) + e.dimensionLength
        /\ \A i, j \in Nat : 0 < i /\ i < j =>
               LevelAt(m, g, i) + SentLevel(m, g) <= LevelAt(m, g, j)
    BY <1>1, LevelsFollow
  <1> HIDE DEF e
  <1>5. GroupAt(m, g) + e.dimensionLength <= at
    <2>1. LevelAt(m, g, 1) <= LevelAt(m, g, k + 1)
      <3>1. CASE k = 0 BY <1>4, <3>1
      <3>2. CASE k > 0
        <4>1. LevelAt(m, g, 1) + SentLevel(m, g) <= LevelAt(m, g, k + 1)
          BY <1>2, <1>4, <3>2
        <4>2. LevelAt(m, g, 1) \in Nat /\ LevelAt(m, g, k + 1) \in Nat BY <1>2, <1>4
        <4> QED BY <1>2, <4>1, <4>2
      <3> QED BY <1>2, <3>1, <3>2
    <2>2. LevelAt(m, g, 1) \in Nat /\ LevelAt(m, g, k + 1) \in Nat BY <1>2, <1>4
    <2> QED BY <1>4, <2>1, <2>2
  <1>6. Holds(Put(b, at, layout, values), GroupAt(m, g), e.dimension, Dimension(m, g))
    BY <1>1, <1>2, <1>3, <1>5, HoldsBefore DEF LevelsWritten, e
  <1>7. ASSUME NEW i \in 1 .. k
        PROVE  Holds(Put(b, at, layout, values), LevelAt(m, g, i), e.level,
                     LevelFields(m.levels[g][i]))
    <2>1. LevelAt(m, g, i) \in Nat /\ LevelAt(m, g, k + 1) \in Nat BY <1>2, <1>4
    <2>2. LevelAt(m, g, i) + SentLevel(m, g) <= LevelAt(m, g, k + 1) BY <1>2, <1>4
    <2>3. LevelAt(m, g, i) + e.blockLength <= at BY <1>2, <2>1, <2>2
    <2>4. Holds(b, LevelAt(m, g, i), e.level, LevelFields(m.levels[g][i]))
      BY DEF LevelsWritten, e
    <2> QED BY <1>1, <1>2, <1>3, <2>1, <2>3, <2>4, HoldsBefore
  <1> QED BY <1>6, <1>7 DEF LevelsWritten, e

LEMMA GroupKept ==
  ASSUME NEW m \in Messages, NEW b, DOMAIN b = 0 .. FrameLength(m) - 1,
         NEW g \in 1 .. Groups(m), GroupWritten(b, m, g),
         NEW layout, NEW values, NEW n \in Nat, Apart(layout, n),
         NEW at \in Nat, GroupAt(m, g + 1) <= at, at <= FrameLength(m)
  PROVE  GroupWritten(Put(b, at, layout, values), m, g)
  <1>1. LevelAt(m, g, Len(m.levels[g]) + 1) = GroupAt(m, g + 1) BY GroupsFollow
  <1>2. Len(m.levels[g]) \in 0 .. Len(m.levels[g]) BY MessageParts
  <1> QED BY <1>1, <1>2, LevelsKept DEF GroupWritten

-----------------------------------------------------------------------------
(* The inductive invariant: where the codec is, what stands in the frame   *)
(* and what has been read of it.                                           *)

Placed ==
    /\ CursorOnLayout
    /\ pc \in {"encode", "decode"} => group \in 1 .. Groups(msg) + 1
    /\ pc \in {"encodeLevels", "decodeLevels"} =>
           group \in 1 .. Groups(msg) /\ block = SentLevel(msg, group)

Written ==
    /\ pc # "wrap" => RootWritten(frame, msg)
    /\ pc \in {"encode", "encodeLevels"} => \A g \in 1 .. group - 1 : GroupWritten(frame, msg, g)
    /\ pc = "encodeLevels" => LevelsWritten(frame, msg, group, WrappingInc(index))
    /\ pc \notin {"wrap", "encode", "encodeLevels"} =>
           /\ \A g \in 1 .. Groups(msg) : GroupWritten(frame, msg, g)
           /\ SymbolWritten(frame, msg)

(* The levels of a side that have been read.                               *)
ReadSoFar(g) ==
    IF g < group THEN msg.levels[g]
    ELSE IF g = group /\ pc = "decodeLevels" THEN SubSeq(msg.levels[g], 1, WrappingInc(index))
    ELSE <<>>

SentRoot(m) == [f \in DOMAIN m.root |-> Optional(m.codec, f, m.root[f])]

ReadBack ==
    /\ pc \in {"decode", "decodeLevels", "decoded"} => codec = msg.codec /\ root = SentRoot(msg)
    /\ pc \in {"decode", "decodeLevels"} =>
           levels = [g \in 1 .. Groups(msg) |-> ReadSoFar(g)] /\ symbol = <<>>
    /\ pc \in {"wrap", "encode", "encodeLevels", "sent"} => symbol = <<>>
    /\ pc = "decoded" => levels = msg.levels /\ symbol = msg.symbol

IInv == TypeOK /\ Placed /\ Written /\ ReadBack /\ IgnoredIsForeign

(* An index that has just been wrapped starts at the first level.          *)
LEMMA Wrapping ==
  /\ UsizeMax \in Nat /\ WrappingInc(UsizeMax) = 0
  /\ \A i \in 0 .. UsizeMax : WrappingInc(i) \in 0 .. UsizeMax
  /\ \A i \in 0 .. UsizeMax - 1 : WrappingInc(i) = i + 1
  BY MessageAssumption DEF WrappingInc

LEMMA InitInv == Init => IInv
  <1> SUFFICES ASSUME Init PROVE IInv OBVIOUS
  <1>1. FrameLength(msg) \in Nat BY GroupsFollow DEF Init
  <1>2. TypeOK BY <1>1, Wrapping DEF Init, TypeOK, Steps
  <1> QED
    BY <1>2 DEF Init, IInv, Placed, CursorOnLayout, Written, ReadBack, IgnoredIsForeign

LEMMA EncodeRootInv == IInv /\ EncodeRoot => IInv'
  <1> SUFFICES ASSUME IInv, EncodeRoot PROVE IInv' OBVIOUS
  <1> DEFINE b == Put(frame, 0, HeaderEncoder, Header(msg))
             k == Encoder[msg.codec].blockLength
  <1>1. /\ msg \in Messages /\ msg' = msg /\ pc' = "encode" /\ group' = 1
        /\ DOMAIN frame = 0 .. FrameLength(msg) - 1
        /\ frame' = Put(b, HeaderLength, Encoder[msg.codec].root, msg.root)
        /\ limit' = HeaderLength + SentBlock(msg)
    BY DEF IInv, TypeOK, EncodeRoot
  <1>2. /\ FrameLength(msg) \in Nat /\ msg.codec \in Codecs /\ Groups(msg) \in {0, 2}
        /\ k \in Nat /\ SentBlock(msg) \in Nat /\ k <= SentBlock(msg)
        /\ GroupAt(msg, 1) = HeaderLength + SentBlock(msg)
        /\ GroupAt(msg, 1) <= FrameLength(msg)
        /\ HeaderLength \in Nat /\ 0 \in Nat
    <2>1. Groups(msg) \in {0, 2} BY <1>1, MessageParts
    <2>2. 1 \in 1 .. Groups(msg) + 1 BY <2>1
    <2> QED BY <1>1, <2>1, <2>2, GroupsFollow, MessageParts DEF HeaderLength
  <1>3. Apart(HeaderEncoder, HeaderLength) /\ Apart(Encoder[msg.codec].root, k)
    BY <1>2, LayoutsAgree
  <1>4. DOMAIN b = 0 .. FrameLength(msg) - 1 /\ DOMAIN frame' = 0 .. FrameLength(msg) - 1
    BY <1>1, PutDomain
  <1> HIDE DEF b, k
  <1>5. Holds(b, 0, HeaderEncoder, Header(msg))
    <2>1. 0 + HeaderLength <= FrameLength(msg) BY <1>2
    <2> QED BY <1>1, <1>2, <1>3, <2>1, PutHolds DEF b
  <1>6. Holds(frame', 0, HeaderEncoder, Header(msg))
    <2>1. 0 + HeaderLength <= HeaderLength /\ HeaderLength <= FrameLength(msg) BY <1>2
    <2> QED BY <1>1, <1>2, <1>3, <1>4, <1>5, <2>1, HoldsBefore
  <1>7. Holds(frame', HeaderLength, Encoder[msg.codec].root, msg.root)
    <2>1. HeaderLength + k <= FrameLength(msg) BY <1>2
    <2> QED BY <1>1, <1>2, <1>3, <1>4, <2>1, PutHolds
  <1>8. RootWritten(frame', msg)
    BY <1>6, <1>7 DEF RootWritten
  <1>9. TypeOK'
    BY <1>1, <1>2, <1>4 DEF IInv, TypeOK, Steps, EncodeRoot
  <1>10. Written' BY <1>1, <1>8 DEF Written
  <1>11. Placed' BY <1>1, <1>2 DEF Placed, CursorOnLayout
  <1>12. ReadBack' BY <1>1 DEF IInv, ReadBack, EncodeRoot, readVars
  <1>13. IgnoredIsForeign' BY <1>1 DEF IgnoredIsForeign
  <1> QED BY <1>9, <1>10, <1>11, <1>12, <1>13 DEF IInv

(* What every call inside a frame can rely on.                             *)
LEMMA Sound ==
  ASSUME IInv
  PROVE  /\ msg \in Messages /\ FrameLength(msg) \in Nat
         /\ msg.codec \in Codecs /\ Groups(msg) \in {0, 2}
         /\ DOMAIN frame = 0 .. FrameLength(msg) - 1
         /\ \A g \in 1 .. Groups(msg) + 1 :
               /\ GroupAt(msg, g) \in Nat /\ GroupAt(msg, g) <= FrameLength(msg)
               /\ GroupAt(msg, 1) <= GroupAt(msg, g)
         /\ \A g, h \in 1 .. Groups(msg) + 1 : g <= h => GroupAt(msg, g) <= GroupAt(msg, h)
  BY GroupsFollow, MessageParts DEF IInv, TypeOK

LEMMA WrapEncoderInv == IInv /\ WrapEncoder => IInv'
  <1> SUFFICES ASSUME IInv, WrapEncoder PROVE IInv' OBVIOUS
  <1> DEFINE e == Encoder[msg.codec].groups[group]
  <1>1. /\ pc = "encode" /\ pc' = "encodeLevels" /\ msg' = msg /\ group' = group
        /\ frame' = Put(frame, limit, e.dimension, Dimension(msg, group))
        /\ limit' = limit + e.dimensionLength
        /\ count' = Len(msg.levels[group]) /\ block' = SentLevel(msg, group)
        /\ index' = UsizeMax /\ offset' = UsizeMax /\ codec' = codec
        /\ symbol' = symbol
    BY DEF WrapEncoder, Dimension, readVars
  <1>2. group \in 1 .. Groups(msg) /\ limit = GroupAt(msg, group)
    BY Sound DEF IInv, Placed, CursorOnLayout, WrapEncoder
  <1>3. /\ e.dimensionLength \in Nat /\ SentLevel(msg, group) \in Nat
        /\ Len(msg.levels[group]) \in Nat
    BY <1>2, Sound, MessageParts
  <1>4. Apart(e.dimension, e.dimensionLength) BY <1>2, Sound, LayoutsAgree DEF Groups
  <1>5. /\ LevelAt(msg, group, 0 + 1) \in Nat
        /\ limit + e.dimensionLength <= FrameLength(msg)
        /\ limit \in Nat /\ limit <= FrameLength(msg) /\ GroupAt(msg, 1) <= limit
        /\ LevelAt(msg, group, 0 + 1) = limit'
    <2>1. 0 \in 0 .. Len(msg.levels[group]) BY <1>3
    <2>2. GroupAt(msg, group) \in Nat /\ GroupAt(msg, group) <= FrameLength(msg)
          /\ GroupAt(msg, 1) <= GroupAt(msg, group)
      BY <1>2, Sound
    <2>3. LevelAt(msg, group, 1) = limit' BY <1>1, <1>2, <2>2, LevelsFollow, Sound
    <2>4. /\ LevelAt(msg, group, 0 + 1) \in Nat
          /\ LevelAt(msg, group, 0 + 1) <= GroupAt(msg, group + 1)
          /\ GroupAt(msg, group + 1) <= FrameLength(msg)
      BY <1>2, <2>1, LevelPlaces, Sound
    <2>5. group + 1 \in 1 .. Groups(msg) + 1 BY <1>2, Sound
    <2>6. GroupAt(msg, group + 1) \in Nat BY <2>5, Sound
    <2> QED BY <1>1, <1>2, <1>3, <2>2, <2>3, <2>4, <2>6, Sound
  <1> HIDE DEF e
  <1>6. DOMAIN frame' = 0 .. FrameLength(msg) - 1 BY <1>1, Sound, PutDomain
  <1>7. RootWritten(frame', msg)
    <2>1. RootWritten(frame, msg) BY <1>1 DEF IInv, Written
    <2> QED BY <1>1, <1>3, <1>4, <1>5, <2>1, Sound, RootKept
  <1>8. ASSUME NEW g \in 1 .. group - 1 PROVE GroupWritten(frame', msg, g)
    <2>1. GroupWritten(frame, msg, g) BY <1>1 DEF IInv, Written
    <2>2. g \in 1 .. Groups(msg) /\ GroupAt(msg, g + 1) <= limit
      <3>1. g \in 1 .. Groups(msg) /\ g + 1 \in 1 .. Groups(msg) + 1
            /\ group \in 1 .. Groups(msg) + 1 /\ g + 1 <= group
        BY <1>2, Sound
      <3> QED BY <1>2, <3>1, Sound
    <2> QED BY <1>1, <1>3, <1>4, <1>5, <2>1, <2>2, Sound, GroupKept
  <1>9. LevelsWritten(frame', msg, group, 0)
    <2>1. Holds(frame', GroupAt(msg, group), e.dimension, Dimension(msg, group))
      BY <1>1, <1>2, <1>3, <1>4, <1>5, Sound, PutHolds
    <2> QED BY <2>1 DEF LevelsWritten, e
  <1>10. TypeOK'
    <2>1. limit' \in 0 .. FrameLength(msg) BY <1>1, <1>3, <1>5, Sound
    <2>2. index' \in 0 .. UsizeMax /\ offset' \in Nat BY <1>1, Wrapping
    <2> QED BY <1>1, <1>3, <1>6, <2>1, <2>2 DEF IInv, TypeOK, Steps
  <1>11. Placed'
    <2>1. WrappingInc(index') = 0 BY <1>1, Wrapping
    <2> QED BY <1>1, <1>2, <1>3, <1>5, <2>1 DEF Placed, CursorOnLayout
  <1>12. Written'
    <2>1. WrappingInc(index') = 0 BY <1>1, Wrapping
    <2> QED BY <1>1, <1>7, <1>8, <1>9, <2>1 DEF Written
  <1>13. ReadBack' BY <1>1 DEF IInv, ReadBack
  <1>14. IgnoredIsForeign' BY <1>1 DEF IgnoredIsForeign
  <1> QED BY <1>10, <1>11, <1>12, <1>13, <1>14 DEF IInv

LEMMA EncodeLevelInv == IInv /\ EncodeLevel => IInv'
  <1> SUFFICES ASSUME IInv, EncodeLevel PROVE IInv' OBVIOUS
  <1> DEFINE e == Encoder[msg.codec].groups[group]
             i == WrappingInc(index)
             l == msg.levels[group][i + 1]
             n == Len(msg.levels[group])
  <1>1. /\ pc = "encodeLevels" /\ pc' = pc /\ msg' = msg /\ group' = group /\ i < count
        /\ frame' = Put(frame, limit, e.level, LevelFields(l))
        /\ offset' = limit /\ limit' = limit + block /\ index' = i
        /\ count' = count /\ block' = block /\ codec' = codec /\ symbol' = symbol
    BY DEF EncodeLevel, LevelFields, readVars
  <1>2. /\ group \in 1 .. Groups(msg) /\ block = SentLevel(msg, group) /\ count = n
        /\ limit = LevelAt(msg, group, i + 1) /\ index \in 0 .. UsizeMax /\ limit \in Nat
    BY <1>1 DEF IInv, Placed, CursorOnLayout, TypeOK
  <1>3. /\ n \in Nat /\ n < UsizeMax /\ e.blockLength \in Nat /\ SentLevel(msg, group) \in Nat
        /\ e.blockLength <= SentLevel(msg, group)
    BY <1>2, Sound, MessageParts
  <1>4. Apart(e.level, e.blockLength) BY <1>2, Sound, LayoutsAgree DEF Groups
  <1>5. i \in 0 .. UsizeMax BY <1>2, Wrapping
  <1>6. i \in 0 .. n /\ i < n /\ i + 1 \in 0 .. n /\ WrappingInc(i) = i + 1 /\ i \in Nat
        /\ i + 1 \in 0 .. UsizeMax
    <2>1. i < n /\ i \in Nat BY <1>1, <1>2, <1>5
    <2>2. i \in 0 .. UsizeMax - 1 BY <1>3, <1>5, <2>1, Wrapping
    <2> HIDE DEF i, n
    <2>3. i \in 0 .. n /\ i + 1 \in 0 .. n /\ i + 1 \in 0 .. UsizeMax BY <1>3, <2>1, Wrapping
    <2>4. WrappingInc(i) = i + 1 BY <2>2, Wrapping
    <2> QED BY <2>1, <2>3, <2>4
  <1> HIDE DEF e, i, l, n
  <1>7. /\ LevelAt(msg, group, i + 1 + 1) = limit' /\ limit' <= FrameLength(msg)
        /\ limit + e.blockLength <= FrameLength(msg) /\ limit <= FrameLength(msg)
        /\ GroupAt(msg, group) <= limit /\ GroupAt(msg, 1) <= limit
        /\ GroupAt(msg, group) \in Nat
    <2>1. /\ LevelAt(msg, group, i + 1) \in Nat
          /\ GroupAt(msg, group) + e.dimensionLength <= LevelAt(msg, group, i + 1)
          /\ GroupAt(msg, group + 1) <= FrameLength(msg)
          /\ LevelAt(msg, group, i + 1 + 1) = LevelAt(msg, group, i + 1) + SentLevel(msg, group)
          /\ LevelAt(msg, group, i + 1) + SentLevel(msg, group) <= GroupAt(msg, group + 1)
      BY <1>2, <1>6, LevelPlaces, Sound DEF e, n
    <2>2. group \in 1 .. Groups(msg) + 1 /\ group + 1 \in 1 .. Groups(msg) + 1
      BY <1>2, Sound
    <2>3. /\ GroupAt(msg, group) \in Nat /\ GroupAt(msg, 1) <= GroupAt(msg, group)
          /\ GroupAt(msg, group + 1) \in Nat /\ GroupAt(msg, 1) \in Nat
      BY <2>2, Sound
    <2>4. e.dimensionLength \in Nat BY <1>2, Sound, MessageParts DEF e
    <2>5. /\ limit' = limit + SentLevel(msg, group) /\ LevelAt(msg, group, i + 1 + 1) = limit'
          /\ limit + SentLevel(msg, group) <= GroupAt(msg, group + 1)
      BY <1>1, <1>2, <2>1
    <2>6. limit' \in Nat /\ limit' <= FrameLength(msg) BY <1>2, <1>3, <2>1, <2>3, <2>5, Sound
    <2>7. limit + e.blockLength <= FrameLength(msg) /\ limit <= FrameLength(msg)
      BY <1>2, <1>3, <2>5, <2>6, Sound
    <2>8. GroupAt(msg, group) <= limit BY <1>2, <2>1, <2>3, <2>4
    <2> QED BY <1>2, <2>3, <2>5, <2>6, <2>7, <2>8
  <1>8. DOMAIN frame' = 0 .. FrameLength(msg) - 1 BY <1>1, Sound, PutDomain
  <1>9. RootWritten(frame', msg)
    <2>1. RootWritten(frame, msg) BY <1>1 DEF IInv, Written
    <2> QED BY <1>1, <1>2, <1>3, <1>4, <1>7, <2>1, Sound, RootKept
  <1>10. ASSUME NEW g \in 1 .. group - 1 PROVE GroupWritten(frame', msg, g)
    <2>1. GroupWritten(frame, msg, g) BY <1>1 DEF IInv, Written
    <2>2. g \in 1 .. Groups(msg) /\ GroupAt(msg, g + 1) <= limit
      <3>1. g \in 1 .. Groups(msg) /\ g + 1 \in 1 .. Groups(msg) + 1
            /\ group \in 1 .. Groups(msg) + 1 /\ g + 1 <= group
        BY <1>2, Sound
      <3>2. GroupAt(msg, g + 1) <= GroupAt(msg, group) BY <3>1, Sound
      <3>3. GroupAt(msg, g + 1) \in Nat BY <3>1, Sound
      <3> QED BY <1>2, <1>7, <3>1, <3>2, <3>3
    <2> QED BY <1>1, <1>2, <1>3, <1>4, <1>7, <2>1, <2>2, Sound, GroupKept
  <1>11. LevelsWritten(frame', msg, group, i + 1)
    <2>1. LevelsWritten(frame, msg, group, i) BY <1>1 DEF IInv, Written, i
    <2>2. LevelAt(msg, group, i + 1) <= limit BY <1>2
    <2>3. LevelsWritten(frame', msg, group, i)
      BY <1>1, <1>2, <1>3, <1>4, <1>6, <1>7, <2>1, <2>2, Sound, LevelsKept DEF n
    <2>4. Holds(frame', LevelAt(msg, group, i + 1), e.level, LevelFields(l))
      BY <1>1, <1>2, <1>3, <1>4, <1>7, Sound, PutHolds
    <2>5. \A j \in 1 .. i + 1 : j \in 1 .. i \/ j = i + 1 BY <1>6
    <2> QED BY <2>3, <2>4, <2>5 DEF LevelsWritten, e, l
  <1>12. TypeOK'
    <2>1. limit' \in 0 .. FrameLength(msg) BY <1>1, <1>2, <1>3, <1>7, Sound
    <2>2. index' \in 0 .. UsizeMax /\ offset' \in Nat BY <1>1, <1>2, <1>5
    <2> QED BY <1>1, <1>3, <1>8, <2>1, <2>2 DEF IInv, TypeOK, Steps
  <1>13. Placed' BY <1>1, <1>2, <1>6, <1>7 DEF Placed, CursorOnLayout, n
  <1>14. Written' BY <1>1, <1>6, <1>9, <1>10, <1>11 DEF Written
  <1>15. ReadBack' BY <1>1 DEF IInv, ReadBack
  <1>16. IgnoredIsForeign' BY <1>1 DEF IgnoredIsForeign
  <1> QED BY <1>12, <1>13, <1>14, <1>15, <1>16 DEF IInv

LEMMA LeaveEncoderInv == IInv /\ LeaveEncoder => IInv'
  <1> SUFFICES ASSUME IInv, LeaveEncoder PROVE IInv' OBVIOUS
  <1> DEFINE n == Len(msg.levels[group])
  <1>1. /\ pc = "encodeLevels" /\ pc' = "encode" /\ msg' = msg /\ group' = group + 1
        /\ frame' = frame /\ limit' = limit /\ WrappingInc(index) >= count
        /\ UNCHANGED <<offset, index, count, block, codec, symbol>>
    BY DEF LeaveEncoder, readVars
  <1>2. /\ group \in 1 .. Groups(msg) /\ count = n /\ WrappingInc(index) <= count
        /\ limit = LevelAt(msg, group, WrappingInc(index) + 1) /\ index \in 0 .. UsizeMax
    BY <1>1 DEF IInv, Placed, CursorOnLayout, TypeOK
  <1>3. n \in Nat BY <1>2, Sound, MessageParts
  <1>4. WrappingInc(index) = n BY <1>1, <1>2, <1>3, Wrapping
  <1>5. limit = GroupAt(msg, group + 1) /\ group + 1 \in 1 .. Groups(msg) + 1
    <2>1. LevelAt(msg, group, n + 1) = GroupAt(msg, group + 1) BY <1>2, Sound, GroupsFollow
    <2> QED BY <1>2, <1>4, <2>1, Sound
  <1>6. ASSUME NEW g \in 1 .. group PROVE GroupWritten(frame, msg, g)
    <2>1. g \in 1 .. group - 1 \/ g = group BY <1>2, Sound
    <2> QED BY <1>1, <1>4, <2>1 DEF IInv, Written, GroupWritten
  <1>7. Written'
    <2>1. group' - 1 = group BY <1>1, <1>2, Sound
    <2> QED BY <1>1, <1>6, <2>1 DEF IInv, Written
  <1>8. TypeOK'
    <2>1. group' \in 0 .. 3 BY <1>1, <1>2, Sound
    <2> QED BY <1>1, <2>1 DEF IInv, TypeOK, Steps
  <1>9. Placed' BY <1>1, <1>5 DEF Placed, CursorOnLayout
  <1>10. ReadBack' BY <1>1 DEF IInv, ReadBack
  <1>11. IgnoredIsForeign' BY <1>1 DEF IgnoredIsForeign
  <1> QED BY <1>7, <1>8, <1>9, <1>10, <1>11 DEF IInv

(* A text and its length are blocks like any other.                        *)
LEMMA TextApart ==
  /\ Apart(TextLength, 1) /\ DOMAIN TextLength = {"length"}
  /\ \A n \in Nat : Apart(Text(n), n)
  <1>1. Apart(TextLength, 1) /\ DOMAIN TextLength = {"length"} BY DEF Apart, TextLength
  <1>2. ASSUME NEW n \in Nat PROVE Apart(Text(n), n)
    <2>1. DOMAIN Text(n) = 1 .. n /\ \A i \in 1 .. n : Text(n)[i][1] = i - 1 /\ Text(n)[i][2] = 1
      BY DEF Text
    <2> QED BY <2>1 DEF Apart
  <1> QED BY <1>1, <1>2

LEMMA EncodeSymbolInv == IInv /\ EncodeSymbol => IInv'
  <1> SUFFICES ASSUME IInv, EncodeSymbol PROVE IInv' OBVIOUS
  <1> DEFINE n == Len(msg.symbol)
             said == [length |-> n]
             b == Put(frame, limit, TextLength, said)
  <1>1. /\ pc = "encode" /\ pc' = "sent" /\ msg' = msg /\ group' = group
        /\ group = Groups(msg) + 1
        /\ UNCHANGED <<offset, index, count, block, codec, symbol>>
    BY DEF EncodeSymbol, readVars
  <1>2. limit = SymbolAt(msg) /\ limit \in Nat /\ GroupAt(msg, 1) <= limit
        /\ limit = GroupAt(msg, Groups(msg) + 1)
    <2>1. Groups(msg) + 1 \in 1 .. Groups(msg) + 1 BY Sound
    <2> QED BY <1>1, <2>1, Sound DEF IInv, Placed, CursorOnLayout, SymbolAt
  <1>3. n \in Nat /\ n < 256 BY Sound, MessageParts
  <1>4. /\ RootWritten(frame, msg) /\ \A g \in 1 .. Groups(msg) : GroupWritten(frame, msg, g)
    <2>1. group - 1 = Groups(msg) BY <1>1, Sound
    <2> QED BY <1>1, <2>1 DEF IInv, Written
  <1>5. /\ RootWritten(frame', msg) /\ \A g \in 1 .. Groups(msg) : GroupWritten(frame', msg, g)
        /\ SymbolWritten(frame', msg) /\ DOMAIN frame' = 0 .. FrameLength(msg) - 1
        /\ limit' = FrameLength(msg)
    <2>1. CASE Encoder[msg.codec].hasSymbol
      <3>1. FrameLength(msg) = limit + 1 + n BY <1>2, <1>3, <2>1 DEF FrameLength
      <3>2. n % 256 = n
        <4> HIDE DEF n
        <4> QED BY <1>3
      <3>3. /\ frame' = Put(b, limit + 1, Text(n), msg.symbol) /\ limit' = limit + 1 + n
        BY <2>1, <3>2 DEF EncodeSymbol
      <3>4. /\ DOMAIN b = 0 .. FrameLength(msg) - 1 /\ DOMAIN frame' = 0 .. FrameLength(msg) - 1
        BY <3>3, PutDomain, Sound
      <3> HIDE DEF n, b, said
      <3>5. /\ limit + 1 \in Nat /\ limit + 1 <= FrameLength(msg) /\ limit <= FrameLength(msg)
            /\ limit + 1 + n <= FrameLength(msg) /\ GroupAt(msg, 1) <= limit + 1
            /\ 1 \in Nat
        <4>1. 1 \in 1 .. Groups(msg) + 1 BY Sound
        <4>2. GroupAt(msg, 1) \in Nat BY <4>1, Sound
        <4> QED BY <1>2, <1>3, <3>1, <4>2
      <3>6. RootWritten(b, msg) BY <1>2, <1>4, <3>5, TextApart, Sound, RootKept DEF b
      <3>7. RootWritten(frame', msg)
        BY <1>3, <3>3, <3>4, <3>5, <3>6, TextApart, Sound, RootKept
      <3>8. ASSUME NEW g \in 1 .. Groups(msg) PROVE GroupWritten(frame', msg, g)
        <4>1. GroupAt(msg, g + 1) <= limit /\ GroupAt(msg, g + 1) <= limit + 1
          <5>1. /\ g + 1 \in 1 .. Groups(msg) + 1 /\ Groups(msg) + 1 \in 1 .. Groups(msg) + 1
                /\ g + 1 <= Groups(msg) + 1
            BY Sound
          <5>2. GroupAt(msg, g + 1) <= limit /\ GroupAt(msg, g + 1) \in Nat
            BY <1>2, <5>1, Sound
          <5> QED BY <1>2, <5>2
        <4>2. GroupWritten(b, msg, g)
          BY <1>2, <1>4, <3>5, <4>1, TextApart, Sound, GroupKept DEF b
        <4> QED BY <1>3, <3>3, <3>4, <3>5, <4>1, <4>2, TextApart, Sound, GroupKept
      <3>9. Holds(b, limit, TextLength, said)
        BY <1>2, <3>5, TextApart, Sound, PutHolds DEF b
      <3>10. Holds(frame', limit, TextLength, said)
        <4>1. limit + 1 <= limit + 1 BY <1>2
        <4> QED BY <1>2, <1>3, <3>3, <3>4, <3>5, <3>9, <4>1, TextApart, Sound, HoldsBefore
      <3>11. Holds(frame', limit + 1, Text(n), msg.symbol)
        BY <1>3, <3>3, <3>4, <3>5, TextApart, Sound, PutHolds
      <3> QED BY <1>2, <3>1, <3>3, <3>4, <3>7, <3>8, <3>10, <3>11 DEF SymbolWritten, n, said
    <2>2. CASE ~Encoder[msg.codec].hasSymbol
      <3>1. frame' = frame /\ limit' = limit BY <2>2 DEF EncodeSymbol
      <3>2. limit = FrameLength(msg) BY <1>2, <2>2 DEF FrameLength
      <3> QED BY <1>4, <2>2, <3>1, <3>2, Sound DEF SymbolWritten
    <2> QED BY <2>1, <2>2
  <1>6. TypeOK' BY <1>1, <1>5, Sound DEF IInv, TypeOK, Steps
  <1>7. Placed' BY <1>1, <1>5 DEF Placed, CursorOnLayout
  <1>8. Written' BY <1>1, <1>5 DEF Written
  <1>9. ReadBack' BY <1>1 DEF IInv, ReadBack
  <1>10. IgnoredIsForeign' BY <1>1 DEF IgnoredIsForeign
  <1> QED BY <1>6, <1>7, <1>8, <1>9, <1>10 DEF IInv

-----------------------------------------------------------------------------
(* The decoder.                                                            *)

(* The header is read as it was written.                                   *)
LEMMA HeaderRead ==
  ASSUME IInv, pc = "sent"
  PROVE  /\ GetBlock(frame, 0, HeaderDecoder).blockLength = SentBlock(msg)
         /\ GetBlock(frame, 0, HeaderDecoder).schemaId = Encoder[msg.codec].schemaId
         /\ GetBlock(frame, 0, HeaderDecoder).templateId = Encoder[msg.codec].templateId
         /\ FirstByte(frame) = SentBlock(msg) % 256
  <1>1. Holds(frame, 0, HeaderEncoder, Header(msg)) BY DEF IInv, Written, RootWritten
  <1>2. GetBlock(frame, 0, HeaderDecoder) = [f \in DOMAIN HeaderEncoder |-> Header(msg)[f]]
    <2>1. /\ Apart(HeaderEncoder, HeaderLength) /\ HeaderDecoder = HeaderEncoder
          /\ HeaderLength \in Nat /\ 0 \in Nat
      BY LayoutsAgree DEF HeaderLength
    <2> DEFINE h == Header(msg)
    <2>2. Holds(frame, 0, HeaderEncoder, h) BY <1>1
    <2> HIDE DEF h
    <2>3. GetBlock(frame, 0, HeaderEncoder) = [f \in DOMAIN HeaderEncoder |-> h[f]]
      BY ONLY <2>1, <2>2, HoldsGetBlock
    <2> QED BY <2>1, <2>3 DEF h
  <1>3. DOMAIN HeaderEncoder = {"blockLength", "templateId", "schemaId", "version"}
    BY DEF HeaderEncoder
  <1>4. frame[0][1] = SentBlock(msg)
    <2>1. 0 \in Bytes(0, HeaderEncoder["blockLength"]) BY DEF Bytes, HeaderEncoder
    <2>2. frame[0] = <<Header(msg)["blockLength"], 0 - 0 - HeaderEncoder["blockLength"][1],
                       HeaderEncoder["blockLength"][2]>>
      BY <1>1, <1>3, <2>1 DEF Holds
    <2> QED BY <2>2 DEF Header
  <1>5. FirstByte(frame) = SentBlock(msg) % 256 BY <1>4 DEF FirstByte
  <1> QED BY <1>2, <1>3, <1>5 DEF Header

LEMMA DecodeRootInv == IInv /\ pc = "sent" /\ DecodeRoot(msg.codec) => IInv'
  <1> SUFFICES ASSUME IInv, pc = "sent", DecodeRoot(msg.codec) PROVE IInv' OBVIOUS
  <1>1. /\ pc' = "decode" /\ msg' = msg /\ frame' = frame /\ group' = 1
        /\ codec' = msg.codec /\ root' = GetRoot(frame, msg.codec)
        /\ limit' = HeaderLength + SentBlock(msg)
        /\ levels' = [g \in 1 .. Len(Decoder[msg.codec].groups) |-> <<>>]
        /\ UNCHANGED <<offset, index, count, block, symbol>>
    BY HeaderRead DEF DecodeRoot
  <1>2. Len(Decoder[msg.codec].groups) = Groups(msg) BY Sound, LayoutsAgree DEF Groups
  <1>3. root' = SentRoot(msg)
    <2>1. /\ Apart(Encoder[msg.codec].root, Encoder[msg.codec].blockLength)
          /\ Encoder[msg.codec].blockLength \in Nat /\ HeaderLength \in Nat
          /\ Decoder[msg.codec].root = Encoder[msg.codec].root
      BY Sound, LayoutsAgree DEF HeaderLength
    <2>2. Holds(frame, HeaderLength, Encoder[msg.codec].root, msg.root)
      BY DEF IInv, Written, RootWritten
    <2>3. DOMAIN msg.root = DOMAIN Encoder[msg.codec].root BY Sound, MessageParts
    <2>4. GetBlock(frame, HeaderLength, Encoder[msg.codec].root)
            = [f \in DOMAIN Encoder[msg.codec].root |-> msg.root[f]]
      <3>1. \A f \in DOMAIN Encoder[msg.codec].root :
               Get(frame, HeaderLength, Encoder[msg.codec].root[f]) = msg.root[f]
        BY <2>1, <2>2, HoldsGet
      <3> QED BY <3>1 DEF GetBlock
    <2> QED BY <1>1, <2>1, <2>3, <2>4 DEF GetRoot, SentRoot
  <1>4. limit' = GroupAt(msg, 1) /\ GroupAt(msg, 1) \in 0 .. FrameLength(msg)
    <2>1. 1 \in 1 .. Groups(msg) + 1 BY Sound
    <2>2. GroupAt(msg, 1) \in Nat /\ GroupAt(msg, 1) <= FrameLength(msg) BY <2>1, Sound
    <2> QED BY <1>1, <2>2, Sound, GroupsFollow
  <1>5. TypeOK' BY <1>1, <1>4, Sound DEF IInv, TypeOK, Steps
  <1>6. Placed' BY <1>1, <1>4, Sound DEF Placed, CursorOnLayout
  <1>7. Written' BY <1>1 DEF IInv, Written
  <1>8. ReadBack'
    <2>1. \A g \in 1 .. Groups(msg) : ReadSoFar(g)' = <<>> BY <1>1 DEF ReadSoFar
    <2>2. levels' = [g \in 1 .. Groups(msg) |-> ReadSoFar(g)'] BY <1>1, <1>2, <2>1
    <2>3. symbol' = <<>> BY <1>1 DEF IInv, ReadBack
    <2> QED BY <1>1, <1>3, <2>2, <2>3 DEF ReadBack
  <1>9. IgnoredIsForeign' BY <1>1 DEF IgnoredIsForeign
  <1> QED BY <1>5, <1>6, <1>7, <1>8, <1>9 DEF IInv

LEMMA ParseInv == IInv /\ ParseMarketEvent => IInv'
  <1> SUFFICES ASSUME IInv, ParseMarketEvent PROVE IInv' OBVIOUS
  <1> DEFINE chosen == IF FrameLength(msg) < HeaderLength \/ LooksLikeJson(frame) THEN {}
                       ELSE Dispatch(GetBlock(frame, 0, HeaderDecoder))
  <1>1. pc = "sent" BY DEF ParseMarketEvent
  <1>2. CASE \E c \in chosen : DecodeRoot(c)
    <2>1. PICK c \in chosen : DecodeRoot(c) BY <1>2
    <2>2. c = msg.codec
      <3>1. c \in Streamed /\ Encoder[c].templateId = Encoder[msg.codec].templateId
        BY <1>1, HeaderRead DEF Dispatch
      <3> QED BY <3>1, Sound, Templates
    <2> QED BY <1>1, <2>1, <2>2, DecodeRootInv
  <1>3. CASE /\ chosen = {} /\ pc' = "ignored"
             /\ UNCHANGED <<msg, codec, frame, codecVars, readVars>>
    <2>1. msg.codec \notin Streamed \/ SentBlock(msg) % 256 \in {123, 91}
      <3>1. ~(FrameLength(msg) < HeaderLength)
        <4>1. 1 \in 1 .. Groups(msg) + 1 BY Sound
        <4>2. /\ GroupAt(msg, 1) <= FrameLength(msg) /\ SentBlock(msg) \in Nat
              /\ GroupAt(msg, 1) = HeaderLength + SentBlock(msg)
          BY <4>1, Sound, GroupsFollow, MessageParts
        <4> QED BY <4>2, Sound DEF HeaderLength
      <3>2. CASE LooksLikeJson(frame) BY <1>1, <3>2, HeaderRead DEF LooksLikeJson
      <3>3. CASE Dispatch(GetBlock(frame, 0, HeaderDecoder)) = {}
        <4> SUFFICES ASSUME msg.codec \in Streamed PROVE FALSE OBVIOUS
        <4>1. GetBlock(frame, 0, HeaderDecoder).schemaId = DiffEncoder.schemaId
          BY <1>1, HeaderRead, Templates
        <4>2. Dispatch(GetBlock(frame, 0, HeaderDecoder))
                = {c \in Streamed : Encoder[c].templateId = Encoder[msg.codec].templateId}
          BY <1>1, <4>1, HeaderRead DEF Dispatch
        <4> QED BY <3>3, <4>2
      <3> QED BY <1>3, <3>1, <3>2, <3>3
    <2>2. TypeOK' BY <1>1, <1>3 DEF IInv, TypeOK, Steps, codecVars
    <2>3. Placed' BY <1>3 DEF Placed, CursorOnLayout
    <2>4. Written' BY <1>1, <1>3 DEF IInv, Written, codecVars
    <2>5. ReadBack' BY <1>3 DEF ReadBack
    <2>6. IgnoredIsForeign' BY <1>3, <2>1 DEF IgnoredIsForeign, SentBlock
    <2> QED BY <2>2, <2>3, <2>4, <2>5, <2>6 DEF IInv
  <1> QED BY <1>2, <1>3 DEF ParseMarketEvent

LEMMA WrapDecoderInv == IInv /\ WrapDecoder => IInv'
  <1> SUFFICES ASSUME IInv, WrapDecoder PROVE IInv' OBVIOUS
  <1> DEFINE e == Encoder[msg.codec].groups[group]
             n == Len(msg.levels[group])
  <1>1. /\ pc = "decode" /\ pc' = "decodeLevels" /\ msg' = msg /\ group' = group
        /\ frame' = frame /\ codec' = codec /\ codec = msg.codec
        /\ index' = UsizeMax /\ offset' = 0
        /\ UNCHANGED <<root, levels, symbol>>
    BY DEF WrapDecoder, readVars, IInv, ReadBack
  <1>2. group \in 1 .. Groups(msg) /\ limit = GroupAt(msg, group)
    <2>1. levels = [g \in 1 .. Groups(msg) |-> ReadSoFar(g)] BY <1>1 DEF IInv, ReadBack
    <2>2. Len(levels) = Groups(msg) BY <2>1, Sound
    <2> QED BY <1>1, <2>2, Sound DEF IInv, Placed, CursorOnLayout, WrapDecoder
  <1>3. n \in Nat /\ SentLevel(msg, group) \in Nat /\ limit \in Nat
    <2>1. n \in Nat /\ SentLevel(msg, group) \in Nat BY <1>2, Sound, MessageParts
    <2>2. limit \in Nat BY Sound DEF IInv, TypeOK
    <2> QED BY <2>1, <2>2
  <1>4. /\ Apart(e.dimension, e.dimensionLength) /\ e.dimensionLength \in Nat
        /\ DOMAIN e.dimension = {"blockLength", "count"}
        /\ Decoder[msg.codec].groups[group].dimension = e.dimension
        /\ Decoder[msg.codec].groups[group].dimensionLength = e.dimensionLength
    BY <1>2, Sound, LayoutsAgree DEF Groups
  <1>5. limit' = limit + e.dimensionLength /\ block' = SentLevel(msg, group) /\ count' = n
    <2>1. LevelsWritten(frame, msg, group, n) BY <1>1, <1>2 DEF IInv, Written, GroupWritten
    <2>2. Holds(frame, limit, e.dimension, Dimension(msg, group))
      BY <1>2, <2>1 DEF LevelsWritten
    <2> HIDE DEF e, n
    <2>3. GetBlock(frame, limit, e.dimension)
            = [f \in DOMAIN e.dimension |-> Dimension(msg, group)[f]]
      <3>1. \A f \in DOMAIN e.dimension :
               Get(frame, limit, e.dimension[f]) = Dimension(msg, group)[f]
        BY <1>3, <1>4, <2>2, HoldsGet
      <3> QED BY <3>1 DEF GetBlock
    <2>4. /\ GetBlock(frame, limit, e.dimension).blockLength = SentLevel(msg, group)
          /\ GetBlock(frame, limit, e.dimension).count = n
      BY <1>4, <2>3 DEF Dimension, n
    <2> QED BY <1>1, <1>4, <2>4 DEF WrapDecoder
  <1> HIDE DEF e, n
  <1>6. limit' = LevelAt(msg, group, 0 + 1) /\ limit' \in 0 .. FrameLength(msg)
    <2>1. 0 \in 0 .. n BY <1>3
    <2>2. GroupAt(msg, group) \in Nat BY <1>2, <1>3
    <2>3. LevelAt(msg, group, 1) = limit' BY <1>2, <1>5, <2>2, LevelsFollow, Sound DEF e
    <2>4. /\ LevelAt(msg, group, 0 + 1) \in Nat
          /\ LevelAt(msg, group, 0 + 1) <= GroupAt(msg, group + 1)
          /\ GroupAt(msg, group + 1) <= FrameLength(msg)
      BY <1>2, <2>1, LevelPlaces, Sound DEF n
    <2>5. group + 1 \in 1 .. Groups(msg) + 1 BY <1>2, Sound
    <2>6. GroupAt(msg, group + 1) \in Nat BY <2>5, Sound
    <2> QED BY <2>3, <2>4, <2>6, Sound
  <1>7. WrappingInc(index') = 0 BY <1>1, Wrapping
  <1>8. TypeOK' BY <1>1, <1>3, <1>5, <1>6, Wrapping DEF IInv, TypeOK, Steps
  <1>9. Placed'
    <2>1. WrappingInc(index') <= count' BY <1>3, <1>5, <1>7
    <2>2. limit' = LevelAt(msg, group, WrappingInc(index') + 1) BY <1>6, <1>7
    <2> QED BY <1>1, <1>2, <1>5, <2>1, <2>2 DEF Placed, CursorOnLayout, n
  <1>10. Written' BY <1>1 DEF IInv, Written
  <1>11. ReadBack'
    <2>1. ASSUME NEW g \in 1 .. Groups(msg) PROVE ReadSoFar(g)' = ReadSoFar(g)
      <3>1. SubSeq(msg.levels[g], 1, 0) = <<>>
        <4>1. msg.levels[g] \in Seq(Int \X Int) BY Sound, MessageParts
        <4> QED BY <4>1
      <3> QED BY <1>1, <1>7, <3>1 DEF ReadSoFar
    <2>2. levels = [g \in 1 .. Groups(msg) |-> ReadSoFar(g)] BY <1>1 DEF IInv, ReadBack
    <2>3. levels' = [g \in 1 .. Groups(msg) |-> ReadSoFar(g)'] BY <1>1, <2>1, <2>2
    <2> QED BY <1>1, <2>3 DEF IInv, ReadBack, SentRoot
  <1>12. IgnoredIsForeign' BY <1>1 DEF IgnoredIsForeign
  <1> QED BY <1>8, <1>9, <1>10, <1>11, <1>12 DEF IInv

(* One more level of a side.                                               *)
LEMMA OneMore ==
  ASSUME NEW s \in Seq(Int \X Int), NEW i \in Nat, i < Len(s)
  PROVE  Append(SubSeq(s, 1, i), <<s[i + 1][1], s[i + 1][2]>>) = SubSeq(s, 1, i + 1)
  <1>1. i + 1 \in 1 .. Len(s) /\ Len(s) \in Nat OBVIOUS
  <1>2. s[i + 1] \in Int \X Int BY <1>1
  <1>3. <<s[i + 1][1], s[i + 1][2]>> = s[i + 1] BY <1>2
  <1>4. SubSeq(s, 1, i) \in Seq(Int \X Int) /\ Len(SubSeq(s, 1, i)) = i BY <1>1
  <1>5. SubSeq(s, 1, i + 1) \in Seq(Int \X Int) /\ Len(SubSeq(s, 1, i + 1)) = i + 1 BY <1>1
  <1>6. Append(SubSeq(s, 1, i), s[i + 1]) = SubSeq(s, 1, i + 1)
    <2>1. /\ Append(SubSeq(s, 1, i), s[i + 1]) \in Seq(Int \X Int)
          /\ Len(Append(SubSeq(s, 1, i), s[i + 1])) = i + 1
      BY <1>2, <1>4
    <2>2. \A k \in 1 .. i + 1 : Append(SubSeq(s, 1, i), s[i + 1])[k] = SubSeq(s, 1, i + 1)[k]
      BY <1>1, <1>2, <1>4, <1>5
    <2> QED BY <1>5, <2>1, <2>2
  <1> QED BY <1>3, <1>6

LEMMA DecodeLevelInv == IInv /\ DecodeLevel => IInv'
  <1> SUFFICES ASSUME IInv, DecodeLevel PROVE IInv' OBVIOUS
  <1> DEFINE e == Encoder[msg.codec].groups[group]
             i == WrappingInc(index)
             s == msg.levels[group]
             n == Len(s)
             read == GetBlock(frame, limit, Decoder[codec].groups[group].level)
  <1>1. /\ pc = "decodeLevels" /\ pc' = pc /\ msg' = msg /\ group' = group /\ i < count
        /\ frame' = frame /\ codec' = codec /\ codec = msg.codec
        /\ offset' = limit /\ limit' = limit + block /\ index' = i
        /\ levels' = [levels EXCEPT ![group] = Append(@, <<read.price, read.qty>>)]
        /\ count' = count /\ block' = block /\ root' = root /\ symbol' = symbol
    BY DEF DecodeLevel, IInv, ReadBack
  <1>2. /\ group \in 1 .. Groups(msg) /\ block = SentLevel(msg, group) /\ count = n
        /\ limit = LevelAt(msg, group, i + 1) /\ index \in 0 .. UsizeMax /\ limit \in Nat
    BY <1>1 DEF IInv, Placed, CursorOnLayout, TypeOK
  <1>3. /\ n \in Nat /\ n < UsizeMax /\ SentLevel(msg, group) \in Nat
        /\ s \in Seq(Int \X Int)
    BY <1>2, Sound, MessageParts
  <1>4. /\ Apart(e.level, e.blockLength) /\ e.blockLength \in Nat
        /\ DOMAIN e.level = {"price", "qty"}
        /\ Decoder[msg.codec].groups[group].level = e.level
    BY <1>2, Sound, LayoutsAgree DEF Groups
  <1>5. i \in 0 .. UsizeMax BY <1>2, Wrapping
  <1>6. i \in 0 .. n /\ i < n /\ i + 1 \in 0 .. n /\ i + 1 \in 1 .. n /\ i \in Nat
        /\ WrappingInc(i) = i + 1
    <2>1. i < n /\ i \in Nat BY <1>1, <1>2, <1>5
    <2>2. i \in 0 .. UsizeMax - 1 BY <1>3, <1>5, <2>1, Wrapping
    <2> HIDE DEF i, n
    <2>3. i \in 0 .. n /\ i + 1 \in 0 .. n /\ i + 1 \in 1 .. n BY <1>3, <2>1
    <2>4. WrappingInc(i) = i + 1 BY <2>2, Wrapping
    <2> QED BY <2>1, <2>3, <2>4
  <1>7. <<read.price, read.qty>> = <<s[i + 1][1], s[i + 1][2]>>
    <2>1. LevelsWritten(frame, msg, group, n) BY <1>1, <1>2 DEF IInv, Written, GroupWritten
    <2>2. Holds(frame, limit, e.level, LevelFields(s[i + 1]))
      BY <1>2, <1>6, <2>1 DEF LevelsWritten
    <2> DEFINE l == s[i + 1]
    <2>3. read = GetBlock(frame, limit, e.level) BY <1>1, <1>4
    <2> HIDE DEF e, i, s, n, l, read
    <2>4. GetBlock(frame, limit, e.level) = [f \in DOMAIN e.level |-> LevelFields(l)[f]]
      <3>1. \A f \in DOMAIN e.level : Get(frame, limit, e.level[f]) = LevelFields(l)[f]
        BY <1>2, <1>4, <2>2, HoldsGet DEF l
      <3> QED BY <3>1 DEF GetBlock
    <2>5. read.price = l[1] /\ read.qty = l[2] BY <1>4, <2>3, <2>4 DEF LevelFields
    <2> QED BY <2>5 DEF l
  <1> HIDE DEF e, i, n, s, read
  <1>8. LevelAt(msg, group, i + 1 + 1) = limit' /\ limit' \in 0 .. FrameLength(msg)
    <2>1. /\ LevelAt(msg, group, i + 1) \in Nat
          /\ GroupAt(msg, group + 1) <= FrameLength(msg)
          /\ LevelAt(msg, group, i + 1 + 1) = LevelAt(msg, group, i + 1) + SentLevel(msg, group)
          /\ LevelAt(msg, group, i + 1) + SentLevel(msg, group) <= GroupAt(msg, group + 1)
      BY <1>2, <1>6, LevelPlaces, Sound DEF e, n, s
    <2>2. group + 1 \in 1 .. Groups(msg) + 1 BY <1>2, Sound
    <2>3. GroupAt(msg, group + 1) \in Nat BY <2>2, Sound
    <2>4. limit' = limit + SentLevel(msg, group) /\ LevelAt(msg, group, i + 1 + 1) = limit'
          /\ limit + SentLevel(msg, group) <= GroupAt(msg, group + 1)
      BY <1>1, <1>2, <2>1
    <2> QED BY <1>2, <1>3, <2>1, <2>3, <2>4, Sound
  <1>9. TypeOK' BY <1>1, <1>2, <1>5, <1>8 DEF IInv, TypeOK, Steps
  <1>10. Placed' BY <1>1, <1>2, <1>6, <1>8 DEF Placed, CursorOnLayout, n, s
  <1>11. Written' BY <1>1 DEF IInv, Written
  <1>12. ReadBack'
    <2>1. levels = [g \in 1 .. Groups(msg) |-> ReadSoFar(g)] BY <1>1 DEF IInv, ReadBack
    <2>2. levels[group] = SubSeq(s, 1, i)
      <3>1. ReadSoFar(group) = SubSeq(s, 1, i)
        <4>1. ~(group < group) /\ pc = "decodeLevels" BY <1>1, <1>2, Sound
        <4> QED BY <4>1 DEF ReadSoFar, s, i
      <3>2. levels[group] = ReadSoFar(group) BY <1>2, <2>1
      <3> QED BY <3>1, <3>2
    <2>3. Append(levels[group], <<read.price, read.qty>>) = SubSeq(s, 1, i + 1)
      BY <1>3, <1>6, <1>7, <2>2, OneMore DEF n
    <2>4. ReadSoFar(group)' = SubSeq(s, 1, i + 1) BY <1>1, <1>2, <1>6, Sound DEF ReadSoFar, s
    <2>5. \A g \in 1 .. Groups(msg) : g # group => ReadSoFar(g)' = ReadSoFar(g)
      BY <1>1 DEF ReadSoFar
    <2>6. levels' = [g \in 1 .. Groups(msg) |-> ReadSoFar(g)']
      BY <1>1, <1>2, <2>1, <2>3, <2>4, <2>5
    <2> QED BY <1>1, <2>6 DEF IInv, ReadBack, SentRoot
  <1>13. IgnoredIsForeign' BY <1>1 DEF IgnoredIsForeign
  <1> QED BY <1>9, <1>10, <1>11, <1>12, <1>13 DEF IInv

LEMMA LeaveDecoderInv == IInv /\ LeaveDecoder => IInv'
  <1> SUFFICES ASSUME IInv, LeaveDecoder PROVE IInv' OBVIOUS
  <1> DEFINE n == Len(msg.levels[group])
  <1>1. /\ pc = "decodeLevels" /\ pc' = "decode" /\ msg' = msg /\ group' = group + 1
        /\ frame' = frame /\ limit' = limit /\ WrappingInc(index) >= count
        /\ UNCHANGED <<offset, index, count, block, codec, root, levels, symbol>>
    BY DEF LeaveDecoder, readVars
  <1>2. /\ group \in 1 .. Groups(msg) /\ count = n /\ WrappingInc(index) <= count
        /\ limit = LevelAt(msg, group, WrappingInc(index) + 1) /\ index \in 0 .. UsizeMax
    BY <1>1 DEF IInv, Placed, CursorOnLayout, TypeOK
  <1>3. n \in Nat /\ msg.levels[group] \in Seq(Int \X Int) BY <1>2, Sound, MessageParts
  <1>4. WrappingInc(index) = n BY <1>1, <1>2, <1>3, Wrapping
  <1>5. limit = GroupAt(msg, group + 1) /\ group + 1 \in 1 .. Groups(msg) + 1
    <2>1. LevelAt(msg, group, n + 1) = GroupAt(msg, group + 1) BY <1>2, Sound, GroupsFollow
    <2> QED BY <1>2, <1>4, <2>1, Sound
  <1>6. Written' BY <1>1 DEF IInv, Written
  <1>7. TypeOK'
    <2>1. group' \in 0 .. 3 BY <1>1, <1>2, Sound
    <2> QED BY <1>1, <2>1 DEF IInv, TypeOK, Steps
  <1>8. Placed' BY <1>1, <1>5 DEF Placed, CursorOnLayout
  <1>9. ReadBack'
    <2>1. ASSUME NEW g \in 1 .. Groups(msg) PROVE ReadSoFar(g)' = ReadSoFar(g)
      <3>1. CASE g < group
        <4>1. g < group + 1 BY <1>2, <3>1, Sound
        <4> QED BY <1>1, <3>1, <4>1 DEF ReadSoFar
      <3>2. CASE g = group
        <4>1. ~(group < group) /\ group < group + 1 BY <1>2, Sound
        <4>2. SubSeq(msg.levels[group], 1, n) = msg.levels[group] BY <1>3
        <4>3. ReadSoFar(group) = msg.levels[group] BY <1>1, <1>4, <4>1, <4>2 DEF ReadSoFar
        <4> QED BY <1>1, <3>2, <4>1, <4>3 DEF ReadSoFar
      <3>3. CASE g > group
        <4>1. ~(g < group) /\ g # group /\ ~(g < group + 1) BY <1>2, <3>3, Sound
        <4> QED BY <1>1, <4>1 DEF ReadSoFar
      <3> QED BY <1>2, <3>1, <3>2, <3>3, Sound
    <2>2. levels = [g \in 1 .. Groups(msg) |-> ReadSoFar(g)] BY <1>1 DEF IInv, ReadBack
    <2>3. levels' = [g \in 1 .. Groups(msg) |-> ReadSoFar(g)'] BY <1>1, <2>1, <2>2
    <2> QED BY <1>1, <2>3 DEF IInv, ReadBack, SentRoot
  <1>10. IgnoredIsForeign' BY <1>1 DEF IgnoredIsForeign
  <1> QED BY <1>6, <1>7, <1>8, <1>9, <1>10 DEF IInv

LEMMA DecodeSymbolInv == IInv /\ DecodeSymbol => IInv'
  <1> SUFFICES ASSUME IInv, DecodeSymbol PROVE IInv' OBVIOUS
  <1> DEFINE n == Len(msg.symbol)
  <1>1. /\ pc = "decode" /\ pc' = "decoded" /\ msg' = msg /\ group' = group
        /\ frame' = frame /\ codec' = codec /\ codec = msg.codec /\ root = SentRoot(msg)
        /\ symbol = <<>> /\ levels = [g \in 1 .. Groups(msg) |-> ReadSoFar(g)]
        /\ UNCHANGED <<offset, index, count, block, root, levels>>
    BY DEF DecodeSymbol, IInv, ReadBack
  <1>2. group = Groups(msg) + 1 /\ limit = SymbolAt(msg) /\ limit \in Nat
    <2>1. Len(levels) = Groups(msg) BY <1>1, Sound
    <2>2. limit \in Nat BY Sound DEF IInv, TypeOK
    <2>3. group = Groups(msg) + 1 BY <2>1 DEF DecodeSymbol
    <2> QED BY <1>1, <2>2, <2>3 DEF IInv, Placed, CursorOnLayout, SymbolAt
  <1>3. n \in Nat /\ msg.symbol \in Seq(Int) BY Sound, MessageParts
  <1>4. levels = msg.levels
    <2>1. \A g \in 1 .. Groups(msg) : ReadSoFar(g) = msg.levels[g]
      <3>1. \A g \in 1 .. Groups(msg) : g < group BY <1>2, Sound
      <3> QED BY <3>1 DEF ReadSoFar
    <2>2. msg.levels = [g \in 1 .. Groups(msg) |-> msg.levels[g]] BY Sound, MessageParts
    <2> QED BY <1>1, <2>1, <2>2
  <1>5. symbol' = msg.symbol /\ limit' = FrameLength(msg)
    <2>1. CASE Encoder[msg.codec].hasSymbol
      <3>1. FrameLength(msg) = limit + 1 + n
        <4>1. FrameLength(msg) = SymbolAt(msg) + (1 + n) BY <2>1 DEF FrameLength
        <4> HIDE DEF n
        <4> QED BY <1>2, <1>3, <4>1
      <3>2. Decoder[msg.codec].hasSymbol BY <2>1, Sound, LayoutsAgree
      <3>3. /\ symbol' = GetBlock(frame, limit + 1, Text(Get(frame, limit, TextLength.length)))
            /\ limit' = limit + 1 + Get(frame, limit, TextLength.length)
        BY <1>1, <3>2 DEF DecodeSymbol
      <3>4. /\ Holds(frame, limit, TextLength, [length |-> n])
            /\ Holds(frame, limit + 1, Text(n), msg.symbol)
        BY <1>1, <1>2, <2>1 DEF IInv, Written, SymbolWritten
      <3>5. Get(frame, limit, TextLength.length) = n
        <4>1. Get(frame, limit, TextLength["length"]) = [length |-> n]["length"]
          BY <1>2, <3>4, TextApart, HoldsGet
        <4> QED BY <4>1
      <3>6. GetBlock(frame, limit + 1, Text(n)) = msg.symbol
        <4> HIDE DEF n
        <4>1. \A i \in DOMAIN Text(n) : Get(frame, limit + 1, Text(n)[i]) = msg.symbol[i]
          BY <1>2, <1>3, <3>4, TextApart, HoldsGet
        <4>2. DOMAIN Text(n) = 1 .. n BY DEF Text
        <4>3. msg.symbol = [i \in 1 .. n |-> msg.symbol[i]] BY <1>3 DEF n
        <4> QED BY <4>1, <4>2, <4>3 DEF GetBlock
      <3> QED BY <3>1, <3>3, <3>5, <3>6
    <2>2. CASE ~Encoder[msg.codec].hasSymbol
      <3>1. ~Decoder[msg.codec].hasSymbol BY <2>2, Sound, LayoutsAgree
      <3>2. symbol' = symbol /\ limit' = limit BY <1>1, <3>1 DEF DecodeSymbol
      <3>3. msg.symbol = <<>> BY <2>2, Sound, MessageParts
      <3> QED BY <1>1, <1>2, <2>2, <3>2, <3>3 DEF FrameLength
    <2> QED BY <2>1, <2>2
  <1>6. TypeOK' BY <1>1, <1>5, Sound DEF IInv, TypeOK, Steps
  <1>7. Placed' BY <1>1, <1>5 DEF Placed, CursorOnLayout
  <1>8. Written' BY <1>1 DEF IInv, Written
  <1>9. ReadBack' BY <1>1, <1>4, <1>5 DEF ReadBack, SentRoot
  <1>10. IgnoredIsForeign' BY <1>1 DEF IgnoredIsForeign
  <1> QED BY <1>6, <1>7, <1>8, <1>9, <1>10 DEF IInv

LEMMA NextInv == IInv /\ [Next]_vars => IInv'
  <1> SUFFICES ASSUME IInv, [Next]_vars PROVE IInv' OBVIOUS
  <1>1. CASE EncodeRoot BY <1>1, EncodeRootInv
  <1>2. CASE WrapEncoder BY <1>2, WrapEncoderInv
  <1>3. CASE EncodeLevel BY <1>3, EncodeLevelInv
  <1>4. CASE LeaveEncoder BY <1>4, LeaveEncoderInv
  <1>5. CASE EncodeSymbol BY <1>5, EncodeSymbolInv
  <1>6. CASE ParseMarketEvent BY <1>6, ParseInv
  <1>7. CASE CallDecoder BY <1>7, DecodeRootInv DEF CallDecoder
  <1>8. CASE WrapDecoder BY <1>8, WrapDecoderInv
  <1>9. CASE DecodeLevel BY <1>9, DecodeLevelInv
  <1>10. CASE LeaveDecoder BY <1>10, LeaveDecoderInv
  <1>11. CASE DecodeSymbol BY <1>11, DecodeSymbolInv
  <1>12. CASE UNCHANGED vars
    <2>1. TypeOK' BY <1>12 DEF IInv, TypeOK, vars, codecVars, readVars
    <2>2. Placed' BY <1>12 DEF IInv, Placed, CursorOnLayout, vars, codecVars, readVars
    <2>3. Written' BY <1>12 DEF IInv, Written, vars, codecVars, readVars
    <2>4. ReadBack'
      <3>1. \A g : ReadSoFar(g)' = ReadSoFar(g) BY <1>12 DEF ReadSoFar, vars, codecVars
      <3> QED BY <1>12, <3>1 DEF IInv, ReadBack, SentRoot, vars, codecVars, readVars
    <2>5. IgnoredIsForeign' BY <1>12 DEF IInv, IgnoredIsForeign, vars
    <2> QED BY <2>1, <2>2, <2>3, <2>4, <2>5 DEF IInv
  <1> QED
    BY <1>1, <1>2, <1>3, <1>4, <1>5, <1>6, <1>7, <1>8, <1>9, <1>10, <1>11, <1>12 DEF Next

-----------------------------------------------------------------------------
LEMMA Invariance == Spec => []IInv
  BY InitInv, NextInv, PTL DEF Spec

(* The limit never leaves the frame and the index never leaves usize, for  *)
(* any message: no read or write of the codecs is out of bounds.           *)
THEOREM TypeCorrect == Spec => []TypeOK
  <1>1. IInv => TypeOK BY DEF IInv
  <1> QED BY <1>1, Invariance, PTL

(* Encoder and decoder walk the frame the same way.                        *)
THEOREM CursorsAgree == Spec => []CursorOnLayout
  <1>1. IInv => CursorOnLayout BY DEF IInv, Placed
  <1> QED BY <1>1, Invariance, PTL

(* A depth event arrives as the venue has sent it, by the decoder of its   *)
(* template, whatever the number of its levels and the length of its       *)
(* blocks.                                                                 *)
THEOREM RoundTrip == Spec => []DecodedIsSent
  <1>1. IInv => DecodedIsSent BY DEF IInv, ReadBack, DecodedIsSent, SentRoot
  <1> QED BY <1>1, Invariance, PTL

(* Only a frame whose block length looks like JSON is lost on the way.     *)
THEOREM OnlyForeignIgnored == Spec => []IgnoredIsForeign
  <1>1. IInv => IgnoredIsForeign BY DEF IInv
  <1> QED BY <1>1, Invariance, PTL

-----------------------------------------------------------------------------
(* Rounding.                                                               *)

(* Facts of arithmetic, one at a time.                                     *)
LEMMA DivMod == ASSUME NEW n \in Nat, NEW d \in Nat \ {0}
  PROVE /\ n \div d \in Nat /\ (n % d) \in 0 .. d - 1
        /\ n = d * (n \div d) + (n % d)
  OBVIOUS

LEMMA ProductsOrdered == ASSUME NEW a \in Int, NEW b \in Int, NEW c \in Nat, a <= b
  PROVE c * a <= c * b
  OBVIOUS

LEMMA ProductType == ASSUME NEW a \in Nat, NEW b \in Nat PROVE a * b \in Nat
  OBVIOUS

(* Round is half a unit away from the fraction at most.                    *)
LEMMA RoundIsNear == ASSUME NEW n \in Nat, NEW d \in Nat \ {0}
  PROVE  /\ Round(n, d) \in Nat
         /\ 2 * n <= (2 * Round(n, d) + 1) * d
         /\ (2 * Round(n, d) - 1) * d <= 2 * n
  <1> DEFINE q == n \div d
             r == n % d
             k == Round(n, d)
  <1>1. q \in Nat /\ r \in Nat /\ r < d /\ n = d * q + r BY DivMod
  <1>2. k \in {q, q + 1} /\ (k = q + 1 => 2 * r >= d) /\ (k = q => 2 * r <= d)
    <2> HIDE DEF q, r
    <2>1. Round(n, d) = IF 2 * r > d \/ (2 * r = d /\ q % 2 = 1) THEN q + 1 ELSE q BY DEF Round, q, r
    <2> QED BY <1>1, <2>1
  <1> HIDE DEF q, r, k
  <1>3. (2 * k + 1) * d = 2 * (k * d) + d /\ (2 * k - 1) * d = 2 * (k * d) - d
    BY <1>1, <1>2
  <1>4. k * d = d * q \/ k * d = d * q + d
    BY <1>1, <1>2
  <1>5. d * q \in Nat BY <1>1
  <1>6. CASE k = q
    <2>1. k * d = d * q BY <1>1, <1>6
    <2> QED BY <1>1, <1>2, <1>3, <1>5, <1>6, <2>1 DEF k
  <1>7. CASE k = q + 1
    <2>1. k * d = d * q + d BY <1>1, <1>7
    <2> QED BY <1>1, <1>2, <1>3, <1>5, <1>7, <2>1 DEF k
  <1> QED BY <1>2, <1>6, <1>7

(* What is less than half a unit beyond max is rounded to max or below.    *)
LEMMA RoundFits == ASSUME NEW n \in Nat, NEW d \in Nat \ {0}, NEW max \in Nat, 2 * n < (2 * max + 1) * d
  PROVE  Round(n, d) <= max
  <1> DEFINE k == Round(n, d)
  <1>1. k \in Nat /\ (2 * k - 1) * d <= 2 * n BY RoundIsNear
  <1> HIDE DEF k
  <1>2. SUFFICES ASSUME k >= max + 1 PROVE FALSE
    BY <1>1 DEF k
  <1>3. d * (2 * max + 1) <= d * (2 * k - 1)
    BY <1>1, <1>2, ProductsOrdered
  <1>4. d * (2 * max + 1) = (2 * max + 1) * d /\ d * (2 * k - 1) = (2 * k - 1) * d
    BY <1>1
  <1>5. (2 * max + 1) * d \in Int /\ (2 * k - 1) * d \in Int
    BY <1>1
  <1> QED BY <1>1, <1>3, <1>4, <1>5

(* More than half a unit is not rounded away.                              *)
LEMMA RoundVisible == ASSUME NEW n \in Nat, NEW d \in Nat \ {0}, 2 * n > d PROVE Round(n, d) # 0
  <1>1. 2 * n <= (2 * Round(n, d) + 1) * d BY RoundIsNear
  <1> QED BY <1>1

-----------------------------------------------------------------------------
(* Levels.                                                                 *)

(* The largest of some prices.                                             *)
LEMMA LargestPrice == ASSUME NEW S, S \subseteq VenuePrices, S # {} PROVE Max(S) \in S
  <1> DEFINE T == {MaxMantissa - p : p \in S}
  <1>1. MaxMantissa \in Nat /\ \A p \in S : p \in Nat /\ p <= MaxMantissa BY VenueAssumption
  <1>2. T \subseteq Nat /\ T # {} BY <1>1
  <1> HIDE DEF T
  <1>3. PICK x \in T : \A y \in T : ~ (<<y, x>> \in OpToRel(<, Nat))
    BY <1>2, NatLessThanWellFounded, WFMin
  <1>4. ASSUME NEW y \in T PROVE x <= y
    <2>1. ~ (<<y, x>> \in {s \in Nat \X Nat : s[1] < s[2]}) BY <1>3 DEF OpToRel
    <2> QED BY <1>2, <2>1
  <1>5. PICK p \in S : x = MaxMantissa - p BY DEF T
  <1>6. ASSUME NEW r \in S PROVE p >= r
    <2>1. x <= MaxMantissa - r BY <1>4 DEF T
    <2> QED BY <1>1, <1>5, <2>1
  <1> QED BY <1>6 DEF Max

PriceDen == 10 ^ (-PriceExp)
QtyDen   == 10 ^ (-QtyExp)

(* Where a price of the venue is in the book, and what a size becomes.     *)
TickOf(p)  == Round(p * PriceScale, PriceDen)
UnitsOf(q) == Round(q * QtyScale, QtyDen)

LEMMA ScaledTypes ==
  /\ PriceDen \in Nat \ {0} /\ QtyDen \in Nat \ {0}
  /\ PriceScale \in Nat \ {0} /\ QtyScale \in Nat \ {0} /\ MaxPrice \in Nat /\ MaxSize \in Nat
  /\ \A p \in Nat : p * PriceScale \in Nat /\ TickOf(p) \in Nat
  /\ \A q \in Nat : q * QtyScale \in Nat /\ UnitsOf(q) \in Nat
  /\ \A p \in VenuePrices : p \in Nat
  /\ \A q \in VenueSizes : q \in Nat
  <1>1. /\ PriceDen \in Nat \ {0} /\ QtyDen \in Nat \ {0}
        /\ PriceScale \in Nat \ {0} /\ QtyScale \in Nat \ {0} /\ MaxPrice \in Nat /\ MaxSize \in Nat
    BY PowersOfTen, ScalingAssumption DEF PriceDen, QtyDen
  <1>2. ASSUME NEW p \in Nat PROVE p * PriceScale \in Nat /\ TickOf(p) \in Nat
    <2>1. p * PriceScale \in Nat BY <1>1, ProductType
    <2> QED BY <1>1, <2>1, RoundIsNear DEF TickOf
  <1>3. ASSUME NEW q \in Nat PROVE q * QtyScale \in Nat /\ UnitsOf(q) \in Nat
    <2>1. q * QtyScale \in Nat BY <1>1, ProductType
    <2> QED BY <1>1, <2>1, RoundIsNear DEF UnitsOf
  <1> QED BY <1>1, <1>2, <1>3, VenueAssumption

(* Text and mantissas make the same levels.                                *)
LEMMA LevelOf ==
  ASSUME NEW p \in Nat, NEW q \in Nat
  PROVE  /\ ToLevel(Price(p), Qty(q)) =
              IF TickOf(p) <= MaxPrice /\ UnitsOf(q) <= MaxSize
              THEN [price |-> TickOf(p), size |-> UnitsOf(q)] ELSE NoLevel
         /\ StreamLevel(p, q) = ToLevel(Price(p), Qty(q))
  <1>1. TickOf(p) \in Nat /\ UnitsOf(q) \in Nat /\ MaxPrice \in Nat /\ MaxSize \in Nat
    BY ScaledTypes
  <1>2. Price(p)[1] = p /\ Price(p)[2] = PriceDen /\ Qty(q)[1] = q /\ Qty(q)[2] = QtyDen
    BY DEF Price, Qty, PriceDen, QtyDen
  <1>3. ToLevel(Price(p), Qty(q)) =
          IF TickOf(p) \in 0 .. MaxPrice /\ UnitsOf(q) \in 0 .. MaxSize
          THEN [price |-> TickOf(p), size |-> UnitsOf(q)] ELSE NoLevel
    BY <1>2 DEF ToLevel, TickOf, UnitsOf
  <1>4. FromMantissa(p, PriceExp) = Price(p) /\ FromMantissa(q, QtyExp) = Qty(q)
    <2>1. p >= 0 /\ q >= 0 /\ PriceExp < 0 /\ QtyExp < 0 /\ ~(p < 0) /\ ~(q < 0)
          /\ ~(PriceExp >= 0) /\ ~(QtyExp >= 0)
      BY VenueAssumption
    <2> QED BY <2>1 DEF FromMantissa, Price, Qty
  <1>5. Price(p) # <<>> /\ Qty(q) # <<>> BY DEF Price, Qty
  <1>6. StreamLevel(p, q) = ToLevel(Price(p), Qty(q))
    BY <1>4, <1>5 DEF StreamLevel, ParseLevel
  <1> QED BY <1>1, <1>3, <1>6

LEMMA LevelPrice ==
  ASSUME NEW p \in Nat, NEW q \in Nat, NEW x \in 0 .. MaxPrice
  PROVE  /\ StreamLevel(p, q).price = x <=> TickOf(p) = x /\ UnitsOf(q) <= MaxSize
         /\ StreamLevel(p, q).price = x => StreamLevel(p, q).size = UnitsOf(q)
  <1>1. StreamLevel(p, q) = IF TickOf(p) <= MaxPrice /\ UnitsOf(q) <= MaxSize
                            THEN [price |-> TickOf(p), size |-> UnitsOf(q)] ELSE NoLevel
    BY LevelOf
  <1>2. NoLevel.price = -1 /\ x # -1 /\ x <= MaxPrice /\ TickOf(p) \in Nat
    BY ScaledTypes DEF NoLevel
  <1> QED BY <1>1, <1>2

-----------------------------------------------------------------------------
(* Messages.                                                               *)

(* What a message of the sizes v of some prices makes of a book.           *)
LEMMA UpdatedBook ==
  ASSUME NEW b \in [0 .. MaxPrice -> 0 .. MaxSize], NEW v \in [VenuePrices -> VenueSizes],
         NEW prices, prices \subseteq VenuePrices
  PROVE  LET u == Updated(b, Told(v, prices))
         IN  /\ u \in [0 .. MaxPrice -> 0 .. MaxSize]
             /\ \A x \in 0 .. MaxPrice :
                  \/ /\ u[x] = b[x]
                     /\ \A p \in prices : ~(TickOf(p) = x /\ UnitsOf(v[p]) <= MaxSize)
                  \/ \E p \in prices : TickOf(p) = x /\ UnitsOf(v[p]) <= MaxSize /\ u[x] = UnitsOf(v[p])
  <1> DEFINE told == Told(v, prices)
             u == Updated(b, told)
             touched == {told[p].price : p \in DOMAIN told}
  <1>1. DOMAIN told = prices /\ \A p \in prices : told[p] = StreamLevel(p, v[p]) BY DEF Told
  <1>2. \A p \in prices : p \in VenuePrices /\ p \in Nat /\ v[p] \in Nat /\ UnitsOf(v[p]) \in Nat
    BY ScaledTypes
  <1>3. u = [x \in 0 .. MaxPrice |->
               IF x \notin touched THEN b[x]
               ELSE told[Max({p \in DOMAIN told : told[p].price = x})].size]
    BY DEF Updated
  <1> HIDE DEF told, u
  <1>4. ASSUME NEW x \in 0 .. MaxPrice
        PROVE  /\ u[x] \in 0 .. MaxSize
               /\ \/ /\ u[x] = b[x]
                     /\ \A p \in prices : ~(TickOf(p) = x /\ UnitsOf(v[p]) <= MaxSize)
                  \/ \E p \in prices : TickOf(p) = x /\ UnitsOf(v[p]) <= MaxSize /\ u[x] = UnitsOf(v[p])
    <2>1. \A p \in prices : told[p].price = x <=> TickOf(p) = x /\ UnitsOf(v[p]) <= MaxSize
      BY <1>1, <1>2, LevelPrice
    <2>2. CASE x \notin touched
      <3>1. \A p \in prices : told[p].price # x BY <1>1, <2>2
      <3>2. u[x] = b[x] BY <1>3, <2>2
      <3> QED BY <2>1, <3>1, <3>2
    <2>3. CASE x \in touched
      <3> DEFINE at == {p \in DOMAIN told : told[p].price = x}
                 m == Max(at)
      <3>1. at # {} /\ at \subseteq VenuePrices BY <1>1, <1>2, <2>3
      <3>2. u[x] = told[m].size BY <1>3, <2>3
      <3> HIDE DEF m
      <3>3. m \in at BY <3>1, LargestPrice DEF m
      <3>4. m \in prices /\ told[m].price = x BY <1>1, <3>3
      <3>5. TickOf(m) = x /\ UnitsOf(v[m]) <= MaxSize BY <2>1, <3>4
      <3>6. told[m].size = UnitsOf(v[m]) BY <1>1, <1>2, <3>4, LevelPrice
      <3> QED BY <1>2, <3>2, <3>4, <3>5, <3>6, ScaledTypes
    <2> QED BY <2>2, <2>3
  <1>5. u \in [0 .. MaxPrice -> 0 .. MaxSize] BY <1>3, <1>4
  <1> QED BY <1>4, <1>5 DEF u, told


-----------------------------------------------------------------------------
(* The invariant.                                                          *)

ScaledTyped ==
    /\ exchange \in Exchanges
    /\ time \in 1 .. MaxTime
    /\ venue \in [VenuePrices -> VenueSizes]
    /\ loaded \in BOOLEAN
    /\ book \in [0 .. MaxPrice -> 0 .. MaxSize]
    /\ last_ts \in Nat

Alone(p) == \A q \in VenuePrices \ {p} : TickOf(q) # TickOf(p)

(* A size of the book is what a price rounded to it has now, or had before *)
(* it left the width: a tie is no witness, since the other tick has it.    *)
NothingInvented(b, v) ==
    \A x \in 0 .. MaxPrice : b[x] # 0 =>
        \E p \in VenuePrices :
            TickOf(p) = x /\ (UnitsOf(v[p]) = b[x] \/ UnitsOf(v[p]) > MaxSize)

(* A price that has its tick for itself is there, with its size.           *)
NothingMissing(b, v) ==
    \A p \in VenuePrices :
        TickOf(p) <= MaxPrice /\ UnitsOf(v[p]) <= MaxSize /\ Alone(p)
        => b[TickOf(p)] = UnitsOf(v[p])

RowsInv ==
    \A r \in rows :
        /\ r.of \in VenuePrices
        /\ r.price = <<TickOf(r.of), PriceScale>>
        /\ r.size = <<UnitsOf(venue[r.of]), QtyScale>>

StampsInv ==
    exchange = "bybit" =>
        /\ loaded => last_ts = time
        /\ \A r \in rows \cup {snapshot} : r.stamp = Nanos(r.at)

ScaledInv ==
    /\ ScaledTyped
    /\ loaded => NothingInvented(book, venue) /\ NothingMissing(book, venue)
    /\ RowsInv

(* A snapshot leaves what the venue has.                                   *)
LEMMA LoadedBook ==
  ASSUME ScaledTyped
  PROVE  LET u == Updated(ClearedBook, Told(venue, Present))
         IN  u \in [0 .. MaxPrice -> 0 .. MaxSize] /\ NothingInvented(u, venue) /\ NothingMissing(u, venue)
  <1> DEFINE u == Updated(ClearedBook, Told(venue, Present))
  <1>1. Present \subseteq VenuePrices BY DEF Present
  <1>2. ClearedBook \in [0 .. MaxPrice -> 0 .. MaxSize] /\ \A x \in 0 .. MaxPrice : ClearedBook[x] = 0
    BY ScaledTypes DEF ClearedBook
  <1>3. venue \in [VenuePrices -> VenueSizes] BY DEF ScaledTyped
  <1>7. /\ u \in [0 .. MaxPrice -> 0 .. MaxSize]
        /\ \A x \in 0 .. MaxPrice :
             \/ /\ u[x] = ClearedBook[x]
                /\ \A p \in Present : ~(TickOf(p) = x /\ UnitsOf(venue[p]) <= MaxSize)
             \/ \E p \in Present : TickOf(p) = x /\ UnitsOf(venue[p]) <= MaxSize /\ u[x] = UnitsOf(venue[p])
    BY <1>1, <1>2, <1>3, UpdatedBook
  <1> HIDE DEF u
  <1>4. /\ u \in [0 .. MaxPrice -> 0 .. MaxSize]
        /\ \A x \in 0 .. MaxPrice :
             \/ /\ u[x] = 0
                /\ \A p \in Present : ~(TickOf(p) = x /\ UnitsOf(venue[p]) <= MaxSize)
             \/ \E p \in Present : TickOf(p) = x /\ UnitsOf(venue[p]) <= MaxSize /\ u[x] = UnitsOf(venue[p])
    BY <1>2, <1>7
  <1>5. NothingInvented(u, venue) BY <1>1, <1>4 DEF NothingInvented
  <1>6. ASSUME NEW p \in VenuePrices, TickOf(p) <= MaxPrice, UnitsOf(venue[p]) <= MaxSize, Alone(p)
        PROVE  u[TickOf(p)] = UnitsOf(venue[p])
    <2>1. TickOf(p) \in 0 .. MaxPrice BY <1>6, ScaledTypes
    <2>2. CASE p \in Present BY <1>1, <1>4, <1>6, <2>1, <2>2 DEF Alone
    <2>3. CASE p \notin Present
      <3>1. venue[p] = 0 BY <2>3 DEF Present
      <3>2. UnitsOf(0) = 0
        <4>1. UnitsOf(0) \in Nat /\ (2 * UnitsOf(0) - 1) * QtyDen <= 2 * 0 /\ 0 * QtyScale = 0
              /\ QtyDen \in Nat \ {0}
          BY ScaledTypes, RoundIsNear DEF UnitsOf
        <4>2. SUFFICES ASSUME UnitsOf(0) >= 1 PROVE FALSE BY <4>1
        <4>3. QtyDen * 1 <= QtyDen * (2 * UnitsOf(0) - 1) BY <4>1, <4>2, ProductsOrdered
        <4>4. QtyDen * (2 * UnitsOf(0) - 1) = (2 * UnitsOf(0) - 1) * QtyDen BY <4>1
        <4> QED BY <4>1, <4>3, <4>4
      <3>3. u[TickOf(p)] = 0 BY <1>1, <1>4, <1>6, <2>1, <2>3 DEF Alone
      <3> QED BY <3>1, <3>2, <3>3
    <2> QED BY <2>2, <2>3
  <1>8. NothingMissing(u, venue) BY <1>6 DEF NothingMissing
  <1> QED BY <1>4, <1>5, <1>8 DEF u

(* The bootstrap makes the same levels, and needs all of them.             *)
LEMMA BootstrapTold ==
  ASSUME ScaledTyped
  PROVE  [p \in Present |-> ToLevel(Price(p), Qty(venue[p]))] = Told(venue, Present)
  <1>1. \A p \in Present : p \in Nat /\ venue[p] \in Nat
    BY ScaledTypes DEF Present, ScaledTyped
  <1> QED BY <1>1, LevelOf DEF Told

(* A diff changes what it tells, in the book as at the venue.              *)
LEMMA ChangedBook ==
  ASSUME ScaledTyped, NothingInvented(book, venue), NothingMissing(book, venue),
         NEW prices, prices \subseteq VenuePrices, NEW v \in [VenuePrices -> VenueSizes],
         \A p \in VenuePrices \ prices : v[p] = venue[p]
  PROVE  LET u == Updated(book, Told(v, prices))
         IN  u \in [0 .. MaxPrice -> 0 .. MaxSize] /\ NothingInvented(u, v) /\ NothingMissing(u, v)
  <1> DEFINE u == Updated(book, Told(v, prices))
  <1>1. book \in [0 .. MaxPrice -> 0 .. MaxSize] BY DEF ScaledTyped
  <1>2. /\ u \in [0 .. MaxPrice -> 0 .. MaxSize]
        /\ \A x \in 0 .. MaxPrice :
             \/ /\ u[x] = book[x]
                /\ \A p \in prices : ~(TickOf(p) = x /\ UnitsOf(v[p]) <= MaxSize)
             \/ \E p \in prices : TickOf(p) = x /\ UnitsOf(v[p]) <= MaxSize /\ u[x] = UnitsOf(v[p])
    BY <1>1, UpdatedBook
  <1> HIDE DEF u
  <1>3. \A p \in VenuePrices : UnitsOf(v[p]) \in Nat /\ TickOf(p) \in Nat /\ MaxSize \in Nat
    BY ScaledTypes
  <1>4. ASSUME NEW x \in 0 .. MaxPrice, u[x] # 0
        PROVE  \E p \in VenuePrices : TickOf(p) = x /\ (UnitsOf(v[p]) = u[x] \/ UnitsOf(v[p]) > MaxSize)
    <2>1. CASE \E p \in prices : TickOf(p) = x /\ UnitsOf(v[p]) <= MaxSize /\ u[x] = UnitsOf(v[p])
      BY <2>1
    <2>2. CASE /\ u[x] = book[x]
               /\ \A p \in prices : ~(TickOf(p) = x /\ UnitsOf(v[p]) <= MaxSize)
      <3>1. PICK p \in VenuePrices :
                TickOf(p) = x /\ (UnitsOf(venue[p]) = book[x] \/ UnitsOf(venue[p]) > MaxSize)
        BY <1>4, <2>2 DEF NothingInvented
      <3>2. CASE p \in prices BY <1>3, <2>2, <3>1, <3>2
      <3>3. CASE p \notin prices BY <2>2, <3>1, <3>3
      <3> QED BY <3>2, <3>3
    <2> QED BY <1>2, <2>1, <2>2
  <1>5. ASSUME NEW p \in VenuePrices, TickOf(p) <= MaxPrice, UnitsOf(v[p]) <= MaxSize, Alone(p)
        PROVE  u[TickOf(p)] = UnitsOf(v[p])
    <2>1. TickOf(p) \in 0 .. MaxPrice BY <1>3, <1>5, ScaledTypes
    <2>2. \A r \in prices : TickOf(r) = TickOf(p) => r = p BY <1>5 DEF Alone
    <2>3. CASE p \in prices BY <1>2, <1>5, <2>1, <2>2, <2>3
    <2>4. CASE p \notin prices
      <3>1. u[TickOf(p)] = book[TickOf(p)] BY <1>2, <2>1, <2>2, <2>4
      <3>2. v[p] = venue[p] BY <2>4
      <3> QED BY <1>5, <3>1, <3>2 DEF NothingMissing
    <2> QED BY <2>3, <2>4
  <1> QED BY <1>2, <1>4, <1>5 DEF u, NothingInvented, NothingMissing

LEMMA InitScaled == ScaledInit => ScaledInv
  <1> SUFFICES ASSUME ScaledInit PROVE ScaledInv
    OBVIOUS
  <1>1. time \in 1 .. MaxTime /\ last_ts \in Nat /\ rows = {}
    BY VenueAssumption DEF ScaledInit
  <1>5. loaded \in BOOLEAN /\ ~loaded
    <2>1. loaded = FALSE BY DEF ScaledInit
    <2> QED BY <2>1, Zenon
  <1>2. ClearedBook \in [0 .. MaxPrice -> 0 .. MaxSize]
    BY ScaledTypes DEF ClearedBook
  <1>3. book \in [0 .. MaxPrice -> 0 .. MaxSize] BY <1>2 DEF ScaledInit
  <1>4. ScaledTyped BY <1>1, <1>3, <1>5 DEF ScaledInit, ScaledTyped
  <1> QED BY <1>1, <1>4, <1>5 DEF ScaledInv, RowsInv

LEMMA LoadKeeps == ASSUME ScaledInv, SnapshotFrame \/ Bootstrap PROVE ScaledInv'
  <1>1. Load(Told(venue, Present))
    BY BootstrapTold DEF ScaledInv, SnapshotFrame, Bootstrap
  <1>2. book' \in [0 .. MaxPrice -> 0 .. MaxSize] /\ NothingInvented(book', venue) /\ NothingMissing(book', venue)
    BY <1>1, LoadedBook DEF ScaledInv, Load
  <1>3. UNCHANGED <<exchange, time, venue>> /\ loaded' = TRUE /\ last_ts' = time /\ rows' = {}
    BY <1>1 DEF Load
  <1>4. ScaledTyped' BY <1>2, <1>3 DEF ScaledInv, ScaledTyped
  <1>5. NothingInvented(book', venue') /\ NothingMissing(book', venue')
    BY <1>2, <1>3
  <1> QED BY <1>3, <1>4, <1>5 DEF ScaledInv, RowsInv

(* The rows of a diff.                                                     *)
LEMMA RowOf ==
  ASSUME NEW p \in VenuePrices, NEW q \in VenueSizes, NEW t \in Nat, StreamLevel(p, q) # NoLevel
  PROVE  LET r == TickRow(p, StreamLevel(p, q), t)
         IN  /\ r.of = p
             /\ r.price = <<TickOf(p), PriceScale>>
             /\ r.size = <<UnitsOf(q), QtyScale>>
             /\ r.at = t /\ r.stamp = TickStamp(EventTime(exchange, t))
  <1>1. StreamLevel(p, q) = [price |-> TickOf(p), size |-> UnitsOf(q)]
    BY ScaledTypes, LevelOf
  <1> QED BY <1>1 DEF TickRow, DecimalFromPrice, DecimalFromSize

LEMMA DeltaKeeps == ASSUME ScaledInv, Delta PROVE ScaledInv'
  <1>1. time < MaxTime /\ time' = time + 1 /\ UNCHANGED <<exchange, loaded, snapshot>> BY DEF Delta
  <1>11. PICK prices \in UNION {kSubset(k, VenuePrices) : k \in 1 .. MaxChanges} :
           \E change \in [prices -> VenueSizes] :
              /\ venue' = [p \in VenuePrices |-> IF p \in prices THEN change[p] ELSE venue[p]]
              /\ IF loaded
                 THEN /\ book' = Updated(book, Told(venue', prices))
                      /\ last_ts' = EventTime(exchange, time + 1)
                      /\ rows' = Ticks(book', change, time + 1)
                 ELSE UNCHANGED <<book, last_ts>> /\ rows' = {}
    BY DEF Delta
  <1>2. PICK change \in [prices -> VenueSizes] :
          /\ venue' = [p \in VenuePrices |-> IF p \in prices THEN change[p] ELSE venue[p]]
          /\ IF loaded
             THEN /\ book' = Updated(book, Told(venue', prices))
                  /\ last_ts' = EventTime(exchange, time + 1)
                  /\ rows' = Ticks(book', change, time + 1)
             ELSE UNCHANGED <<book, last_ts>> /\ rows' = {}
    BY <1>11
  <1>3. prices \subseteq VenuePrices BY DEF kSubset
  <1>4. venue \in [VenuePrices -> VenueSizes] BY DEF ScaledInv, ScaledTyped
  <1>5. venue' \in [VenuePrices -> VenueSizes] BY <1>2, <1>4
  <1>6. \A p \in VenuePrices \ prices : venue'[p] = venue[p] BY <1>2
  <1>7. \A p \in prices : venue'[p] = change[p] BY <1>2, <1>3
  <1>8. time \in Nat /\ time' \in 1 .. MaxTime /\ EventTime(exchange, time + 1) \in Nat
    <2>1. time \in Nat /\ Kilo \in Nat BY StampAssumption, VenueAssumption DEF ScaledInv, ScaledTyped
    <2>2. (time + 1) * Kilo \in Nat BY <2>1, ProductType
    <2>3. time' \in 1 .. MaxTime BY <1>1, <2>1, VenueAssumption
    <2> QED BY <2>1, <2>2, <2>3 DEF EventTime
  <1>9. CASE loaded
    <2>1. book' \in [0 .. MaxPrice -> 0 .. MaxSize] /\ NothingInvented(book', venue') /\ NothingMissing(book', venue')
      <3> DEFINE v == venue'
      <3>1. book' = Updated(book, Told(v, prices)) BY <1>2, <1>9
      <3>2. v \in [VenuePrices -> VenueSizes] /\ \A p \in VenuePrices \ prices : v[p] = venue[p]
        BY <1>5, <1>6
      <3> HIDE DEF v
      <3>3. book' \in [0 .. MaxPrice -> 0 .. MaxSize] /\ NothingInvented(book', v) /\ NothingMissing(book', v)
        BY <1>3, <1>9, <3>1, <3>2, ChangedBook DEF ScaledInv
      <3> QED BY <3>3 DEF v
    <2>2. ScaledTyped' BY <1>1, <1>2, <1>5, <1>8, <1>9, <2>1 DEF ScaledInv, ScaledTyped
    <2>3. RowsInv'
      <3> SUFFICES ASSUME NEW r \in rows'
                   PROVE  /\ r.of \in VenuePrices
                          /\ r.price = <<TickOf(r.of), PriceScale>>
                          /\ r.size = <<UnitsOf(venue'[r.of]), QtyScale>>
        BY DEF RowsInv
      <3>1. PICK p \in prices : /\ StreamLevel(p, change[p]) # NoLevel
                                /\ r = TickRow(p, StreamLevel(p, change[p]), time + 1)
        BY <1>2, <1>9 DEF Ticks
      <3>2. p \in VenuePrices /\ change[p] \in VenueSizes /\ time + 1 \in Nat BY <1>3, <1>8
      <3>3. r.of = p /\ r.price = <<TickOf(p), PriceScale>> /\ r.size = <<UnitsOf(change[p]), QtyScale>>
        BY <3>1, <3>2, RowOf
      <3> QED BY <1>7, <3>2, <3>3
    <2> QED BY <2>1, <2>2, <2>3 DEF ScaledInv
  <1>10. CASE ~loaded
    <2>1. ScaledTyped' BY <1>1, <1>2, <1>5, <1>8, <1>10 DEF ScaledInv, ScaledTyped
    <2> QED BY <1>1, <1>2, <1>10, <2>1 DEF ScaledInv, RowsInv
  <1> QED BY <1>9, <1>10

LEMMA ScaledInductive == ScaledSpec => []ScaledInv
  <1>1. ASSUME ScaledInv, EmitSnapshot PROVE ScaledInv'
    BY <1>1 DEF EmitSnapshot, ScaledInv, ScaledTyped, RowsInv, NothingInvented, NothingMissing
  <1>2. ASSUME ScaledInv, UNCHANGED scaledVars PROVE ScaledInv'
    BY <1>2 DEF scaledVars, ScaledInv, ScaledTyped, RowsInv, NothingInvented, NothingMissing
  <1>3. ScaledInv /\ [ScaledNext]_scaledVars => ScaledInv'
    BY <1>1, <1>2, LoadKeeps, DeltaKeeps DEF ScaledNext
  <1> QED BY InitScaled, <1>3, PTL DEF ScaledSpec

-----------------------------------------------------------------------------
(* From the integers to the decimals.                                      *)

LEMMA AbsBound == ASSUME NEW a \in Int, NEW m \in Int, 2 * a <= m, 0 - m <= 2 * a PROVE 2 * Abs(a) <= m
  BY DEF Abs

LEMMA NearestTick ==
  ASSUME NEW n \in Nat, NEW d \in Nat \ {0}, NEW scale \in Nat, n * scale \in Nat
  PROVE  /\ Near(<<n, d>>, Round(n * scale, d), scale)
         /\ 2 * Abs(n * scale - Round(n * scale, d) * d) <= d
  <1> DEFINE k == Round(n * scale, d)
             a == n * scale
  <1>1. k \in Nat /\ 2 * a <= (2 * k + 1) * d /\ (2 * k - 1) * d <= 2 * a
    BY RoundIsNear
  <1> HIDE DEF k, a
  <1>2. a \in Nat BY DEF a
  <1>3. (2 * k + 1) * d = 2 * (k * d) + d /\ (2 * k - 1) * d = 2 * (k * d) - d /\ k * d \in Nat
    BY <1>1
  <1>4. 2 * (a - k * d) <= d /\ 0 - d <= 2 * (a - k * d)
    <2> DEFINE z == k * d
    <2> HIDE DEF z
    <2>1. z \in Nat /\ 2 * a <= 2 * z + d /\ 2 * z - d <= 2 * a BY <1>1, <1>3 DEF z
    <2>2. 2 * (a - z) <= d /\ 0 - d <= 2 * (a - z) BY <1>2, <2>1
    <2> QED BY <2>2 DEF z
  <1>5. 2 * Abs(a - k * d) <= d BY <1>1, <1>2, <1>3, <1>4, AbsBound
  <1> QED BY <1>5 DEF Near, k, a

(* The decimal of k ticks of 1/scale.                                      *)
LEMMA HalfATick ==
  ASSUME NEW n \in Nat, NEW d \in Nat \ {0}, NEW scale \in Nat \ {0}, n * scale \in Nat
  PROVE  AtMostHalf(<<Round(n * scale, d), scale>>, <<n, d>>, scale)
  <1> DEFINE k == Round(n * scale, d)
  <1>1. k \in Nat /\ 2 * Abs(n * scale - k * d) <= d BY NearestTick, RoundIsNear
  <1> HIDE DEF k
  <1> DEFINE x == n * scale
             z == k * d
  <1>2. x \in Nat /\ z \in Nat BY <1>1
  <1>3. 2 * Abs(x - z) <= d BY <1>1
  <1> HIDE DEF x, z
  <1>4. Abs(z - x) = Abs(x - z) /\ Abs(z - x) \in Nat BY <1>2 DEF Abs
  <1>5. scale * (2 * Abs(z - x)) <= scale * d BY <1>3, <1>4, ProductsOrdered
  <1>6. 2 * scale * Abs(z - x) = scale * (2 * Abs(z - x)) BY <1>4
  <1>7. 2 * scale * Abs(z - x) <= scale * d BY <1>5, <1>6
  <1> QED BY <1>7 DEF AtMostHalf, k, x, z

LEMMA NotTooLarge ==
  ASSUME NEW n \in Nat, NEW d \in Nat \ {0}, NEW scale \in Nat, NEW max \in Nat, n * scale \in Nat,
         Fits(<<n, d>>, scale, max)
  PROVE  Round(n * scale, d) <= max
  <1>1. 2 * n * scale < (2 * max + 1) * d BY DEF Fits
  <1>2. 2 * n * scale = 2 * (n * scale) BY SMT
  <1> QED BY <1>1, <1>2, RoundFits

(* A book's integers are within half a tick of the venue's decimals, and   *)
(* what does not come through is a price or size beyond its width, a size  *)
(* below half a tick, or a price that shares its tick, for all scales,     *)
(* widths and prices of the venue.                                         *)
THEOREM BookIsWithinTick == ScaledSpec => []BookWithinTick
  <1>1. ASSUME ScaledInv, loaded PROVE BookWithinTick
    <2>1. ScaledTyped /\ NothingInvented(book, venue) /\ NothingMissing(book, venue)
      BY <1>1 DEF ScaledInv
    <2>2. \A p \in VenuePrices : venue[p] \in Nat /\ p \in Nat
      BY <2>1, ScaledTypes DEF ScaledTyped
    <2>3. ASSUME NEW p \in VenuePrices
          PROVE  /\ Near(Price(p), TickOf(p), PriceScale)
                 /\ Near(Qty(venue[p]), UnitsOf(venue[p]), QtyScale)
                 /\ Fits(Price(p), PriceScale, MaxPrice) => TickOf(p) <= MaxPrice
                 /\ SizeFits(venue[p]) => UnitsOf(venue[p]) <= MaxSize
                 /\ SizeVisible(venue[p]) => UnitsOf(venue[p]) # 0
      <3>1. /\ p \in Nat /\ venue[p] \in Nat /\ p * PriceScale \in Nat /\ venue[p] * QtyScale \in Nat
            /\ PriceDen \in Nat \ {0} /\ QtyDen \in Nat \ {0}
            /\ PriceScale \in Nat /\ QtyScale \in Nat /\ MaxPrice \in Nat /\ MaxSize \in Nat
        BY <2>2, ScaledTypes
      <3>2. Near(Price(p), TickOf(p), PriceScale)
        BY <3>1, NearestTick DEF Price, TickOf, PriceDen
      <3>3. Near(Qty(venue[p]), UnitsOf(venue[p]), QtyScale)
        BY <3>1, NearestTick DEF Qty, UnitsOf, QtyDen
      <3>4. Fits(Price(p), PriceScale, MaxPrice) => TickOf(p) <= MaxPrice
        BY <3>1, NotTooLarge DEF Price, TickOf, PriceDen
      <3>5. SizeFits(venue[p]) => UnitsOf(venue[p]) <= MaxSize
        BY <3>1, NotTooLarge DEF SizeFits, Qty, UnitsOf, QtyDen
      <3>6. SizeVisible(venue[p]) => UnitsOf(venue[p]) # 0
        <4>1. 2 * venue[p] * QtyScale = 2 * (venue[p] * QtyScale) BY <3>1
        <4> QED BY <3>1, <4>1, RoundVisible DEF SizeVisible, UnitsOf, QtyDen
      <3> QED BY <3>2, <3>3, <3>4, <3>5, <3>6
    <2>4. ASSUME NEW x \in 0 .. MaxPrice, book[x] # 0
          PROVE  \E p \in VenuePrices : /\ Near(Price(p), x, PriceScale)
                                        /\ Near(Qty(venue[p]), book[x], QtyScale) \/ ~SizeFits(venue[p])
      <3>1. PICK p \in VenuePrices :
                TickOf(p) = x /\ (UnitsOf(venue[p]) = book[x] \/ UnitsOf(venue[p]) > MaxSize)
        BY <2>1, <2>4 DEF NothingInvented
      <3>2. UnitsOf(venue[p]) \in Nat /\ MaxSize \in Nat BY <2>2, ScaledTypes
      <3> QED BY <2>3, <3>1, <3>2
    <2>5. ASSUME NEW p \in VenuePrices, Fits(Price(p), PriceScale, MaxPrice), SizeFits(venue[p]),
                 SizeVisible(venue[p]), \A q \in VenuePrices \ {p} : ~Shares(p, q)
          PROVE  \E x \in 0 .. MaxPrice : /\ Near(Price(p), x, PriceScale)
                                          /\ Near(Qty(venue[p]), book[x], QtyScale) /\ book[x] # 0
      <3>1. TickOf(p) \in 0 .. MaxPrice BY <2>2, <2>3, <2>5, ScaledTypes
      <3>2. Alone(p)
        <4> SUFFICES ASSUME NEW q \in VenuePrices \ {p}, TickOf(q) = TickOf(p) PROVE Shares(p, q)
          BY <2>5 DEF Alone
        <4> QED BY <2>3, <3>1 DEF Shares
      <3>3. book[TickOf(p)] = UnitsOf(venue[p]) BY <2>1, <2>3, <2>5, <3>1, <3>2 DEF NothingMissing
      <3> QED BY <2>3, <2>5, <3>1, <3>3
    <2> QED BY <2>4, <2>5 DEF BookWithinTick
  <1>2. ScaledInv => BookWithinTick BY <1>1 DEF BookWithinTick
  <1> QED BY <1>2, ScaledInductive, PTL

(* The times of Bybit, within what 64 bits hold as nanoseconds.            *)
ClockFits == \A t \in 0 .. MaxTime : Nanos(t) \in 0 .. MaxInt64

LEMMA WrappedFits == ASSUME NEW n \in 0 .. MaxInt64 PROVE Wrapped(n) = n
  <1>1. ASSUME NEW a \in Nat, NEW b \in Nat \ {0}, a < b PROVE a % b = a
    BY <1>1
  <1>2. MaxInt64 \in Nat BY StampAssumption
  <1> QED BY <1>1, <1>2 DEF Wrapped

LEMMA StampFits ==
  ASSUME ClockFits, NEW t \in 0 .. MaxTime
  PROVE  TickStamp(t) = Nanos(t) /\ SnapshotStamp(t) = Nanos(t)
  <1> DEFINE n == Nanos(t)
  <1>1. n \in 0 .. MaxInt64 BY DEF ClockFits
  <1> HIDE DEF n
  <1>2. Wrapped(n) = n /\ ~(n > MaxInt64) BY <1>1, WrappedFits, StampAssumption
  <1> QED BY <1>2 DEF TickStamp, SnapshotStamp, n

LEMMA StampsKeep ==
  ASSUME ClockFits, ScaledInv, StampsInv, [ScaledNext]_scaledVars PROVE StampsInv'
  <1>1. time \in 0 .. MaxTime /\ time \in Nat /\ MaxTime \in Nat
    BY VenueAssumption DEF ScaledInv, ScaledTyped
  <1>2. CASE SnapshotFrame \/ Bootstrap
    BY <1>2 DEF SnapshotFrame, Bootstrap, Load, StampsInv
  <1>3. CASE Delta
    <2>1. time < MaxTime /\ time' = time + 1 /\ UNCHANGED <<exchange, loaded, snapshot>>
      BY <1>3 DEF Delta
    <2>2. SUFFICES ASSUME exchange = "bybit"
                   PROVE  /\ loaded => last_ts' = time + 1
                          /\ \A r \in rows' : r.stamp = Nanos(r.at)
      BY <2>1 DEF StampsInv
    <2>3. CASE ~loaded BY <1>3, <2>3 DEF Delta
    <2>4. CASE loaded
      <3>1. \E change : rows' = Ticks(book', change, time + 1)
        BY <1>3, <2>4 DEF Delta
      <3>2. last_ts' = EventTime(exchange, time + 1) BY <1>3, <2>4 DEF Delta
      <3>3. EventTime(exchange, time + 1) = time + 1 BY <2>2 DEF EventTime
      <3>4. time + 1 \in 0 .. MaxTime BY <1>1, <2>1
      <3>5. TickStamp(time + 1) = Nanos(time + 1) BY <3>4, StampFits
      <3>6. \A p, l : TickRow(p, l, time + 1).stamp = TickStamp(time + 1)
                      /\ TickRow(p, l, time + 1).at = time + 1
        BY <3>3 DEF TickRow
      <3>7. \A r \in rows' : \E p, l : r = TickRow(p, l, time + 1)
        BY <3>1 DEF Ticks
      <3> QED BY <3>2, <3>3, <3>5, <3>6, <3>7
    <2> QED BY <2>3, <2>4
  <1>4. CASE EmitSnapshot
    <2>1. /\ loaded /\ snapshot' = [at |-> time, stamp |-> SnapshotStamp(last_ts)] /\ rows' = {}
          /\ UNCHANGED <<exchange, time, loaded, last_ts>>
      BY <1>4 DEF EmitSnapshot
    <2>2. SUFFICES ASSUME exchange = "bybit" PROVE snapshot'.stamp = Nanos(snapshot'.at)
      BY <2>1 DEF StampsInv
    <2>3. last_ts = time BY <2>1, <2>2 DEF StampsInv
    <2> QED BY <1>1, <2>1, <2>3, StampFits
  <1>5. CASE UNCHANGED scaledVars BY <1>5 DEF scaledVars, StampsInv
  <1> QED BY <1>2, <1>3, <1>4, <1>5 DEF ScaledNext

(* The decimals of a row are within half a tick of the venue's, and while  *)
(* a time fits 64 bits as nanoseconds the rows of Bybit have theirs.       *)
THEOREM RowsAreWithinTick == ASSUME ClockFits PROVE ScaledSpec => []RowWithinTick
  <1>1. ScaledInit => StampsInv
    <2> SUFFICES ASSUME ScaledInit PROVE StampsInv
      OBVIOUS
    <2>1. rows = {} /\ ~loaded /\ snapshot.at = 0 /\ snapshot.stamp = 0 BY DEF ScaledInit
    <2>2. Nanos(0) = 0 BY StampAssumption DEF Nanos
    <2> QED BY <2>1, <2>2 DEF StampsInv
  <1>2. ScaledInv /\ StampsInv => RowWithinTick
    <2> SUFFICES ASSUME ScaledInv, StampsInv PROVE RowWithinTick
      OBVIOUS
    <2>1. ASSUME NEW r \in rows
          PROVE  /\ AtMostHalf(r.price, Price(r.of), PriceScale)
                 /\ AtMostHalf(r.size, Qty(venue[r.of]), QtyScale)
      <3>1. /\ r.of \in VenuePrices
            /\ r.price = <<TickOf(r.of), PriceScale>> /\ r.size = <<UnitsOf(venue[r.of]), QtyScale>>
        BY DEF ScaledInv, RowsInv
      <3>2. r.of \in Nat /\ venue[r.of] \in Nat
        BY <3>1, ScaledTypes DEF ScaledInv, ScaledTyped
      <3>3. AtMostHalf(<<TickOf(r.of), PriceScale>>, Price(r.of), PriceScale)
        BY <3>2, ScaledTypes, HalfATick DEF TickOf, Price, PriceDen
      <3>4. AtMostHalf(<<UnitsOf(venue[r.of]), QtyScale>>, Qty(venue[r.of]), QtyScale)
        BY <3>2, ScaledTypes, HalfATick DEF UnitsOf, Qty, QtyDen
      <3> QED BY <3>1, <3>3, <3>4
    <2> QED BY <2>1 DEF StampsInv, RowWithinTick
  <1>3. ScaledInv /\ StampsInv /\ [ScaledNext]_scaledVars => StampsInv' BY StampsKeep
  <1> QED BY <1>1, <1>2, <1>3, ScaledInductive, PTL DEF ScaledSpec
=============================================================================
