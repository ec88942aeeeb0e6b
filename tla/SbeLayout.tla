------------------------------ MODULE SbeLayout ------------------------------
(***************************************************************************)
(* Where the generated SBE codecs write each field, and where they read    *)
(* it.  A block is a function from its fields to <<offset, width>>, in     *)
(* bytes from the start of the block.  Encoders and decoders are separate  *)
(* code, so their layouts are separate definitions: that they agree is a   *)
(* theorem (SbeCodecProofs) and not an assumption.                         *)
(***************************************************************************)
EXTENDS Integers, Sequences

-----------------------------------------------------------------------------
(* message_header_codec.rs.                                                *)
HeaderLength == 8

HeaderEncoder ==
    [blockLength |-> <<0, 2>>, templateId |-> <<2, 2>>, schemaId |-> <<4, 2>>,
     version |-> <<6, 2>>]

HeaderDecoder ==
    [blockLength |-> <<0, 2>>, templateId |-> <<2, 2>>, schemaId |-> <<4, 2>>,
     version |-> <<6, 2>>]

-----------------------------------------------------------------------------
(* A repeating group: the block length and the count of its dimension, the *)
(* length of both, the encoder's own block length and the fields of a      *)
(* level.                                                                  *)
GroupEncoder(countWidth, dimensionLength) ==
    [dimension |-> [blockLength |-> <<0, 2>>, count |-> <<2, countWidth>>],
     dimensionLength |-> dimensionLength,
     blockLength |-> 16,
     level |-> [price |-> <<0, 8>>, qty |-> <<8, 8>>]]

GroupDecoder(countWidth, dimensionLength) ==
    [dimension |-> [blockLength |-> <<0, 2>>, count |-> <<2, countWidth>>],
     dimensionLength |-> dimensionLength,
     level |-> [price |-> <<0, 8>>, qty |-> <<8, 8>>]]

-----------------------------------------------------------------------------
(* depth_diff_stream_event_codec.rs.                                       *)
DiffBidsEncoder == GroupEncoder(2, 4)
DiffAsksEncoder == GroupEncoder(2, 4)

DiffRootEncoder ==
    [eventTime |-> <<0, 8>>, firstBookUpdateId |-> <<8, 8>>,
     lastBookUpdateId |-> <<16, 8>>, priceExponent |-> <<24, 1>>, qtyExponent |-> <<25, 1>>]

DiffEncoder ==
    [blockLength |-> 26, templateId |-> 10003, schemaId |-> 1, version |-> 0,
     root |-> DiffRootEncoder, groups |-> <<DiffBidsEncoder, DiffAsksEncoder>>,
     hasSymbol |-> TRUE]

DiffBidsDecoder == GroupDecoder(2, 4)
DiffAsksDecoder == GroupDecoder(2, 4)

(* Faulty variant: the ids where the snapshot has its exponents.           *)
DiffRootDecoder_Snapshot ==
    [eventTime |-> <<0, 8>>, firstBookUpdateId |-> <<8, 8>>,
     lastBookUpdateId |-> <<16, 8>>, priceExponent |-> <<16, 1>>, qtyExponent |-> <<17, 1>>]

DiffRootDecoder ==
    [eventTime |-> <<0, 8>>, firstBookUpdateId |-> <<8, 8>>,
     lastBookUpdateId |-> <<16, 8>>, priceExponent |-> <<24, 1>>, qtyExponent |-> <<25, 1>>]

DiffDecoder ==
    [root |-> DiffRootDecoder, optional |-> {},
     groups |-> <<DiffBidsDecoder, DiffAsksDecoder>>, hasSymbol |-> TRUE]

-----------------------------------------------------------------------------
(* depth_snapshot_stream_event_codec.rs.                                   *)
SnapshotBidsEncoder == GroupEncoder(2, 4)
SnapshotAsksEncoder == GroupEncoder(2, 4)

SnapshotRootEncoder ==
    [eventTime |-> <<0, 8>>, bookUpdateId |-> <<8, 8>>,
     priceExponent |-> <<16, 1>>, qtyExponent |-> <<17, 1>>]

SnapshotEncoder ==
    [blockLength |-> 18, templateId |-> 10002, schemaId |-> 1, version |-> 0,
     root |-> SnapshotRootEncoder, groups |-> <<SnapshotBidsEncoder, SnapshotAsksEncoder>>,
     hasSymbol |-> TRUE]

SnapshotBidsDecoder == GroupDecoder(2, 4)
SnapshotAsksDecoder == GroupDecoder(2, 4)

SnapshotRootDecoder ==
    [eventTime |-> <<0, 8>>, bookUpdateId |-> <<8, 8>>,
     priceExponent |-> <<16, 1>>, qtyExponent |-> <<17, 1>>]

SnapshotDecoder ==
    [root |-> SnapshotRootDecoder, optional |-> {},
     groups |-> <<SnapshotBidsDecoder, SnapshotAsksDecoder>>, hasSymbol |-> TRUE]

-----------------------------------------------------------------------------
(* depth_response_codec.rs: u32 counts behind the block length.            *)
ResponseBidsEncoder == GroupEncoder(4, 6)
ResponseAsksEncoder == GroupEncoder(4, 6)

ResponseRootEncoder ==
    [lastUpdateId |-> <<0, 8>>, priceExponent |-> <<8, 1>>, qtyExponent |-> <<9, 1>>]

ResponseEncoder ==
    [blockLength |-> 10, templateId |-> 200, schemaId |-> 3, version |-> 2,
     root |-> ResponseRootEncoder, groups |-> <<ResponseBidsEncoder, ResponseAsksEncoder>>,
     hasSymbol |-> FALSE]

ResponseBidsDecoder == GroupDecoder(4, 6)
ResponseAsksDecoder == GroupDecoder(4, 6)

ResponseRootDecoder ==
    [lastUpdateId |-> <<0, 8>>, priceExponent |-> <<8, 1>>, qtyExponent |-> <<9, 1>>]

ResponseDecoder ==
    [root |-> ResponseRootDecoder, optional |-> {},
     groups |-> <<ResponseBidsDecoder, ResponseAsksDecoder>>, hasSymbol |-> FALSE]

-----------------------------------------------------------------------------
(* book_ticker_symbol_response_codec.rs: no group; a null price is None.   *)
TickerRootEncoder ==
    [priceExponent |-> <<0, 1>>, qtyExponent |-> <<1, 1>>, bidPrice |-> <<2, 8>>,
     bidQty |-> <<10, 8>>, askPrice |-> <<18, 8>>, askQty |-> <<26, 8>>]

TickerEncoder ==
    [blockLength |-> 34, templateId |-> 211, schemaId |-> 3, version |-> 2,
     root |-> TickerRootEncoder, groups |-> <<>>, hasSymbol |-> TRUE]

TickerRootDecoder ==
    [priceExponent |-> <<0, 1>>, qtyExponent |-> <<1, 1>>, bidPrice |-> <<2, 8>>,
     bidQty |-> <<10, 8>>, askPrice |-> <<18, 8>>, askQty |-> <<26, 8>>]

TickerDecoder ==
    [root |-> TickerRootDecoder, optional |-> {"bidPrice", "askPrice"}, groups |-> <<>>,
     hasSymbol |-> TRUE]

-----------------------------------------------------------------------------
(* The codecs of sbe::binance, and those whose template the adapter knows. *)
Codecs   == {"diff", "snapshot", "response", "ticker"}
Streamed == {"diff", "snapshot"}

Encoder ==
    [diff |-> DiffEncoder, snapshot |-> SnapshotEncoder, response |-> ResponseEncoder,
     ticker |-> TickerEncoder]

Decoder ==
    [diff |-> DiffDecoder, snapshot |-> SnapshotDecoder, response |-> ResponseDecoder,
     ticker |-> TickerDecoder]
=============================================================================
