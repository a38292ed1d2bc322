# The JM H.264 reference software in TLA+

The repository holds the JM 19.1 reference software for H.264/AVC: a decoder (`ldecod`), an
encoder (`lencod`), a library both use (`lcommon`) and two RTP tools. This directory holds TLA+
modules of their control, TLC configurations that check them on small instances, and proofs that
TLAPS checks. The modules are about three things: what the decoder keeps from picture to picture,
what the encoder writes and the decoder must understand without being told more, and the transport
between the two.

## The system

Everything is sequential C: one thread per program, no callbacks, state in a few global structs
(`VideoParameters`, `DecodedPictureBuffer`, `Slice`). What is hard is therefore not concurrency
but long histories and two programs that must agree: state that is kept from picture to picture, is
held twice, is reached by a pointer kept over calls, or is changed while a loop over it runs, under
whatever order of pictures, fields and memory management operations a stream contains; and data that
the encoder takes back after writing them, or that say where they end only by what follows.

| component | state it keeps | operations | used by | what makes it correct |
|---|---|---|---|---|
| decoded picture buffer (`ldecod/mbuffer.c`, `lcommon/mbuffer_common.c`) | `fs[]`, `fs_ref[]`, `fs_ltref[]`, `used_size`, `last_picture`, `last_output_poc`, `max_long_term_pic_idx`; per store the reference bits and the flags of its three pictures | `store_picture_in_dpb` (IDR, memory management control operations, sliding window, bumping), `fill_frame_num_gap`, `flush_dpb` | picture decoding, `error()` | marks agree, limits kept, the oldest reference slides out, every call returns |
| output (`output.c`) | `out_buffer`, a frame store for a field that waits | `direct_output`, `write_stored_frame`, `write_unpaired_field`, `flush_direct_output` | the buffer | each frame once, whole, none forgotten |
| slice header, POC (`header.c`) | `PrevPicOrderCntMsb/Lsb`, `FrameNumOffset`, `last_has_mmco_5`, `last_pic_bottom_field` | `FirstPartOfSliceHeader`, `RestOfSliceHeader`, `decode_poc` | picture decoding, gaps | the count the encoder meant, across wraps, operation 5 and gaps |
| picture decoding (`image.c`, `ldecod.c`) | `ppSliceList`, `pNextSlice`, `old_slice`, `dec_picture`, `pre_frame_num` | `decode_one_frame`, `read_new_slice`, `init_picture`, `exit_picture`, `is_new_picture` | the main loop | one stored picture per coded picture, in order |
| parameter sets (`parset.c`) | `SeqParSet[]`, `PicParSet[]`, `active_sps`, `active_pps`, `pNextPPS` | `ProcessSPS`, `ProcessPPS`, `UseParameterSet`, `activate_sps` | picture decoding | what is active is not changed under a picture |
| reference lists (`ldecod/mbuffer.c`, `lencod/list_reorder.c`) | `listX[]` of a slice | `init_lists_*`, `gen_pic_list_from_frame_list`, `reorder_lists`; in the encoder `reorder_against_default_ref_pic_lists` | slice decoding | every reference once, in the order of the standard; the encoder's commands give the order it wants |
| NAL units in files (`ldecod/annexb.c`, `nalu.c`, `nal.c`; `lencod/annexb.c`, `nal.c`) | the read buffer, `nextstartcodebytes` | `get_annex_b_NALU`, `EBSPtoRBSP`, `RBSPtoSODB`; `RBSPtoEBSP`, `WriteAnnexbNALU` | `read_new_slice`; the slice writer | reader and writer are inverse |
| RTP (`ldecod/rtp.c`, `lencod/rtp.c`, `rtp_loss`) | sequence number, time stamp; `pending_nalu` | `GetRTPNALU`, `read_new_slice`; `WriteRTPNALU`, `RTPUpdateTimestamp`; `keep_packet` | as above | losses counted, partitions of one slice together |
| slice groups (`ldecod/fmo.c`, `lencod/fmo.c`) | `MbToSliceGroupMap`, `FirstMBInSlice` | `FmoInit`, `FmoGetNextMBNr`, `FmoSetLastMacroblockInSlice` | slice coding and decoding | a partition; both programs walk it alike |
| slices of a picture (`lencod/image.c`, `slice.c`, `macroblock.c`; `ldecod/image.c`, `macroblock.c`) | `NumberofCodedMacroBlocks`, `cod_counter`, the stored place in the bit stream; the decoder's place | `code_a_plane`, `encode_one_slice`, `encode_one_slice_MBAFF`, `start_macroblock`, `end_macroblock`; `decode_one_slice`, `exit_macroblock` | pictures | each macroblock decoded once, as coded; slices end where their data end |
| multiview layers (`mbuffer_mvc.c`, `image.c`) | a second buffer | `flush_dpbs`, `store_proc_picture_in_dpb` | picture decoding | access units kept together |
| entropy coding, macroblocks, concealment, SEI | contexts, samples | per macroblock | slice decoding | arithmetic, compared with the encoder |
| the rest of the encoder | its own buffer, GOP structure, rate control, mode decision | | | streams the decoder accepts |

`decode_one_frame` reads slices with `read_new_slice`, which takes NAL units from a file or from RTP
packets; `init_picture` fills gaps in `frame_num` by storing frames; `exit_picture` gives the finished
picture to `store_picture_in_dpb`, which writes to the output file through `output.c`. `error()` can be
called from any of them: it flushes the same buffer and exits. The encoder goes the other way:
`code_a_plane` makes slices, `terminate_slice` ends them, `nal.c` escapes their bytes and `annexb.c` or
`rtp.c` writes them.

## Modules

| module | models |
|---|---|
| `FrameStore` | one `FrameStore`: what is kept of it and each operation that changes its marking, insertion and combination of fields, picture numbers. Operators only. |
| `Dpb` | the state machine of `store_picture_in_dpb` and all it calls, `fill_frame_num_gap`, `flush_dpb`, `error()`, with the stream as environment |
| `PictureOutput` | the abstract promise: a frame accepted is written once and whole, unless dropped by an IDR picture that says so, and none waits forever |
| `RefLists` | the lists that the decoder builds from the buffer of `Dpb` and reorders, and the encoder's reordering commands. Operators and properties on the states of `Dpb`. |
| `MCDpb` | `Dpb` and `RefLists` for TLC |
| `DpbProofs` | proofs about `Dpb`: its inductive invariant, types and marks |
| `MarkingProofs` | the loop that makes room, the lists of references, the limit on reference frames, who may share a long-term index |
| `WindowProofs` | the order of references under the sliding window |
| `OutputProofs` | one store per frame, and that the buffer writes what `PictureOutput` says |
| `Poc` | `decode_poc` for the three types, as operators on its memory, a slice header and the old counts of the slice object |
| `CodedStream` | the bitstream: which pictures may come next, in which slices, and the order counts they are meant to have. It stands for the encoder and is not in the code. |
| `PictureDecoding` | the state machine of `decode_one_frame`: the slice read ahead, new picture detection, gaps in `frame_num`, picture parameter sets, redundant slices, storing; with losses of slices |
| `PictureDelivery` | the abstract promise: a picture whose slices all arrive is stored once, whole and in order, one that lost a slice never |
| `MCDecoding` | `PictureDecoding` for TLC |
| `DecodingProofs` | proofs about `PictureDecoding`: types, parameter sets, frame numbers; and of a stream that loses nothing its order counts, for every modulus and cycle of offsets, and that it implements `PictureDelivery` |
| `NalDelivery` | the abstract promise of both transports: units arrive in order, none twice; what is lost is counted |
| `AnnexB` | the byte stream format: writer and reader, byte by byte |
| `RtpPackets` | RTP packets: writer, `rtp_loss`, reader, data partitions put together |
| `MCNal`, `MCRtp` | these two for TLC |
| `NalProofs`, `RtpProofs` | proofs about these two transports: types, safety, and that they implement `NalDelivery` |
| `SliceGroups` | slice group maps of every type and the walk through a group. Operators only. |
| `SliceData` | one picture as slices: the encoder's loops over slices and macroblocks, then the decoder's |
| `MCSliceData` | small pictures with maps of every type for `SliceData` |
| `SliceProofs` | proofs about `SliceData` |

`Dpb` and `PictureDecoding` meet at `store_picture_in_dpb`. `Dpb` takes the order of pictures, their
`frame_num` and their order count from its stream; `PictureDecoding` shows what of this the code in
front of it delivers (`FrameNumsFollow`, `PocRight`, `ImplementsDelivery`) and keeps only the last
picture stored. Both have the loop of `fill_frame_num_gap`: `Dpb` with what it does to the buffer,
`PictureDecoding` with what it does to the order counts and to `pre_frame_num`. `RefLists` is evaluated
on the buffers `Dpb` reaches. `AnnexB` and `RtpPackets` are two transports with one promise,
`NalDelivery`; `PictureDecoding` takes slices from a transport that may lose them. `SliceData` is what
`PictureDecoding` calls `Decode`, seen from inside one picture, with the encoder that wrote it.

A comment "Mutant of X" marks an operator that is a wrong form of `X`, kept to show that a property
notices the difference.

### How the state of `Dpb` corresponds to the code

`dpb` is `fs[0 .. used_size-1]` as a sequence of records; `remove_frame_from_dpb` is `RemoveAt`.
In a store, `used`, `ref`, `orig`, `lt` are the bit fields `is_used`, `is_reference`,
`is_orig_reference`, `is_long_term` as sets of fields; `pref` and `plt` are the flags
`used_for_reference` and `is_long_term` of `frame`, `top_field` and `bottom_field`; `num`, `poc`,
`idx`, `out` are `frame_num`, `poc`, `long_term_frame_idx`, `is_output`. The arrays `fs_ref` and
`fs_ltref` always list stores in the order of `fs`, so each is one flag of a store (`short`,
`long`), which goes stale exactly when the array does. `last` is `last_picture`, kept as a place
in `dpb` and moved when stores move; it is 0 also when the code's pointer names a store that was
emptied, since such a store has `is_used = 0` and pairs with nothing. The loops of the code are
steps: `pc` names the place in the call, `ret` where `flush_dpb` returns to. `err` is the text
given to `error()`, `written` what the step wrote, `outbuf` the field that waits in `out_buffer`.

A frame of the stream has an identity: the parity of its coded video sequence and its place `k` in
output order. POC is `2k` for a frame or first field and `2k+1` for a second field.

The actions `Receive...` say which pictures may come next; they stand for `init_picture` and the
slice header. The first picture is IDR; `frame_num` goes up by one after a reference picture,
gaps are filled by `FillFrameNumGap` before the next picture; POCs are unique in a coded video
sequence; the second field of a pair follows the first and agrees with it in reference use, and with
`Unpaired` a field may stay without a second one. Memory management operations are chosen when the
code reaches them, with any operand, but with operation 5 only combined with 6, operation 6 last, and
both fields of a frame given one long-term index (the code only warns of another). Operation 5 is given
to a frame or to a first field. Nothing keeps the stream within its limit of reference frames: what the
code's own checks achieve is the question (`RefsWithinLimit`), and `OverLimit` names the pictures for
which the limit leaves no room.

### `RefLists`

The operators take a buffer and the picture of the next slice (`NextSlices`: what `Dpb` may receive
next, and the second field of the picture received last). A list is a sequence of pictures `<<i, v>>`,
view `v` of store `i`. `InitListP`, `InitList0` and `InitList1` are `init_lists_p_slice` and
`init_lists_b_slice` with `gen_pic_list_from_frame_list` (`TakeTurns`), `ReorderRefPicList` is
`reorder_ref_pic_list` for short-term pictures, `ReorderCommands` the encoder's commands for a list it
wants instead. `Legal` leaves out a slice whose `frame_num` a short-term reference has already, unless
it is the second field of that frame: memory management can make such buffers, no stream may use them.
The encoder is taken to hold the same pictures as the decoder. Left out are commands for long-term
pictures and for views, the repeats of weighted prediction, the lists of MBAFF macroblocks (made from
those of the frame), and a `num_ref_idx_active` above the length of the list.

### How the state of `PictureDecoding` corresponds to the code

`slots` is `ppSliceList` (`slots[1]` is `ppSliceList[0]`), `next` is `pNextSlice`, `n` is
`iSliceNumOfCurrPic`. A slice object holds the header last read into it, its macroblocks and its
order counts, which stay when the object is used again; `malloc_slice` makes it with zeros. `old` is
`old_slice`, `pic` is `dec_picture` (its head and counts), `preNum` is `pre_frame_num`, `prevNum` is
`previous_frame_num`, `mem` is what `decode_poc` keeps in `VideoParameters`. The content of a picture
parameter set is a version (0 or 1); `pps` is `PicParSet`, `nextPps` is `pNextPPS`, `activePps` the
id of the set `active_pps` points to. `pc` is the place in `decode_one_frame`: `start` a call that
begins with the slice read ahead, `init` in `init_picture`, `read` in the loop that reads slices,
`decode` and `last` behind it, `end` after the stream, `exit` after `error()`.

Every path of `decode_one_frame` is an action: `Start` (the slice read ahead becomes slot 0, the
parameter set it was read with is put back), `InitPicture` with `FillGap` or `UnintentionalLoss`
before it, the four ways a slice read may go (`ReadFirst`, `ReadSlice`, `ReadAhead`, `Discard`),
`EndOfStream`, and `Decode` (`init_picture_decoding`, the slices, `exit_picture`). `Receive...` join
such a step with the slice that arrives.

Abstractions: a picture has two macroblocks; `Is_primary_correct` is 1, since every
`ref_flag` starts at 1 and only the concealment of lost frames clears one; the exits of `exit_picture` before a picture has
macroblocks are not steps, since `num_dec_mb` is 0 from the start of `decode_one_frame` until its
slices are decoded; `conceal_mode` is 0; there is one layer, no data partitioning, and no recovery
point, which would switch gap detection off.

### The coded stream of `PictureDecoding`

The sequence parameter set does not change: `type` and `gaps` of the stream are `pic_order_cnt_type`
and `gaps_in_frame_num_value_allowed_flag`. `CodedStream` begins with an IDR picture, the first
slice of which arrives, and ends after at most `MaxPictures` pictures. It ends only behind a picture
with a slice, because the code would read `ppSliceList[-1]` otherwise. Pictures are frames or pairs
of fields, the second field not IDR. Consecutive pictures differ in one of the header fields that
`is_new_picture` compares, as the standard demands. With type 0 a count is within half of
`MaxPicOrderCntLsb` of that of the last reference picture; with type 2 no two non-reference pictures
follow each other; frames may be left out (`MaxGap`) where gaps are allowed. Redundant slices come
behind the primary slices of their picture, and picture parameter sets change between pictures, none
before a redundant slice of the picture they follow. The counts a picture is meant to have (`first`,
`second`) are defined from the stream's history: a sum over all frames for type 1, the number of
frames for type 2, a free choice for type 0.

A lost slice may leave two pictures with equal headers next to each other, which no decoder can
tell apart; both count as lost then (`Merged`).

### `AnnexB`

The encoder's half: `StartUnit` chooses a header and the length of the start code, each `RBSPtoEBSP` is
one turn of the loop that escapes (`count` is its count of zeros, `nalu.rbsp` what goes in, `nalu.buf` what
comes out), `WriteAnnexbNALU` appends `cabac_zero_words` and puts the unit in `file`; `AddZeroByte` is
another writer's `leading_zero_8bits` or `trailing_zero_8bits`. The decoder's half reads the finished
file: `iobuffer` is the part of the chunk not yet used, `unread` what `getChunk` has not read, `Buf` the
bytes of this call of `get_annex_b_NALU`, `annex_b` its fields `is_eof`, `nextstartcodebytes` and
`IsFirstByteStreamNALU`. `PutBackStartCode`, `ReadPrefix`, `CheckPrefix` and `EndOfFile` are the search for
the first start code, `ReadByte`, `FoundStartCode` and `LastUnit` the search for the next, `EBSPtoRBSP` one
turn of the loop that removes escapes, `ReturnUnit` the end of `read_next_nalu` with `RBSPtoSODB`.

A payload ends with a byte that is not zero, as `SODBtoRBSP` leaves it. Headers are one byte, or four with
the extension of multiview coding, of which the prefix unit has no payload. Their bits are not
interpreted, except that no escape is needed in them: `HeaderAssumption` says that no two zeros in a row have
a byte up to 3 behind them, since `anchor_pic_flag` is 1 when `non_idr_flag` is 0 (lencod/slice.c:291, 1337).
The two checks of zero bytes, which only warn, are left out.

### `RtpPackets`

A packet is what the decoder reads of it: sequence number, time stamp, type, `slice_id`; `of` and `frame`
say which slice and frame it belongs to and are read by properties only. `WriteRTPNALU` writes the packets
of one slice, `LosePacket` is `keep_packet` of `rtp_loss`, `ReadPacket` is `GetRTPNALU` and what
`read_new_slice` does with the unit: begin a slice (`Begin`) or continue the one with partition A
(`Continue`), `ResumePending` a call that starts with the unit held back in `pending_nalu`, `EndOfFile`
the end while partitions are awaited. Encoder, channel and decoder are interleaved, which includes the
order of the program runs (all written, some dropped, then read). Fewer packets are lost in a row than
there are sequence numbers (`BurstAssumption`): with 65536 or more the count in `lost_packets` is wrong,
and no receiver could tell. `WriteRTPNALU` does not write the header extension of multiview coding, so
there is one view.

### `SliceGroups` and `SliceData`

`SliceGroups` computes `MapUnitToSliceGroupMap` for types 0 to 6 and from it `MbToSliceGroupMap` for frames,
fields, frames of sequences with fields, and MBAFF. The box-out of type 3 is the loop of the code
(`BoxTurn`), folded over a bounded number of turns; a map unit never reached stays `Vacant`.

`SliceData` codes one picture (`job`): `StartSlice` and `NextSliceGroup` are the loops of `code_a_plane`,
`CodeMacroblock` is a turn of the loop of `encode_one_slice`, or half a turn of that of
`encode_one_slice_MBAFF`, with `start_macroblock` (`StartMacroblock` keeps the place in the stream in
`stored`; with the input parameter `MbInterlace` only for even macroblocks, also in fields), `write_macroblock` and `end_macroblock` (`Decide` sets the flags, `Settle` what they do to the
data), and `FinishSlice` is `terminate_slice` with `FmoSetLastMacroblockInSlice`. Then the decoder:
`DecodeSlice`, `DecodeMacroblock` (the skip runs of `read_one_macroblock`, and `exit_macroblock`),
`ExitPicture`. The data of a slice are only what tells where macroblocks are: runs of skipped ones and coded
ones with CAVLC, skipped ones, coded ones and `end_of_slice` bits with CABAC. What a macroblock is coded as
and whether it is too big for a slice of limited size are free choices; the decoder knows the data only.

`MayOverflow` names which macroblocks may be too big. `v_pairs` shows what happens to the bottom one of an
MBAFF pair; the passing run leaves it out, and a skipped macroblock that ends a slice group with CAVLC,
because the code goes wrong there (see below). MBAFF pictures in slices of limited size are coded with
CABAC or without runs, and fields of a sequence with `MbInterlace` are in slices of the other modes only, for
the same reason. `MbInterlace` is a part of the job of its own: with it the frames of a sequence are coded in
MBAFF (`"mbaff"`), its fields are not (`"progressive"`, like any field).

## Runs

All runs are exhaustive. `MaxFrameNum = 4` makes `frame_num` wrap within one sequence.

| run | bounds | properties | what it shows |
|---|---|---|---|
| `frames_mmco` | frames; 2 stores, 2 references, all operations, 1 per picture, 2 long-term indices, 4 frames per sequence; fair calls | `HangsOnlyOverLimit`, `CallsEnd` | every call returns or the program exits; the loop that makes room hangs only when the stream exceeds its limit |
| `fields_mmco` | 3 stores, 2 references, frames and pairs starting with a top field, unpaired fields, all operations on frames and fields, 2 per picture, 2 long-term indices, 3 frames per sequence | `MarksAgree`, `ListsFresh`, `RefsWithinLimit`, `LongTermIdxUnique`, `OneStorePerFrame`, `ReferencesListed`, `BFramesBetweenNeighbours`, `OrderUnderstood` | the bits of the store, the flags of its pictures and the two arrays agree; no more frames are references between calls than allowed; two frames share no long-term index, but for fields of opposite parity and equal `frame_num`; the fields of a frame share a store; the lists built from any such buffer have every reference in order, and the encoder's commands are understood |
| `output` | 3 stores, 2 references, frames and pairs of either parity, 4 frames per sequence, gap of 1, no operations; fair calls and stream | `TypeOK`, `LegalStreamAccepted`, `SlidesOldest`, `ImplementsOutput` | under the sliding window a conforming stream is not refused for its references and the oldest reference leaves, though the code takes the first; the buffer implements `PictureOutput` |
| `poc` | all three types, `MaxPicOrderCntLsb` 16 with steps of -7, 3 and 8, a cycle of 2 offsets; frames and pairs, 4 pictures; for types 1 and 2 gaps of up to 2 and operation 5 on any picture, for type 0 gaps of 1 and operation 5 on bottom fields | `TypeOK`, `PocRight`, `FrameNumsFollow` | the counts are right over wraps, gaps and operation 5, at the extreme distances either way; the buffer never gets a `frame_num` out of sequence |
| `delivery` | frames and pairs of 1 or 2 slices, 4 pictures, 2 slices lost, gaps allowed or not | `ImplementsDelivery` | what arrived whole is stored once, in order and unmixed; the program gives up only after a loss, and a lost picture is filled as a gap where that is allowed |
| `slices` | frames of 1 or 2 slices, 3 pictures, 2 picture parameter sets sent again twice, 1 slice lost, 1 redundant slice | `SlicesAgree`, `OwnParameterSet` | each slice is decoded with the order counts of its picture and, in a stream that lost nothing, with the content of the parameter set it was written for |
| `annexb` | bytes 0, 1, 3, 4; read buffer of 3 bytes; 2 units with headers of 1 or 4 bytes, 4 payload bytes together, 1 `cabac_zero_word` per unit, 1 added zero byte | `TypeOK`, `NoStartCodeInPayload`, `NothingRefused`, `ImplementsDelivery` | every file the encoder writes is read back unit by unit and byte by byte, wherever the borders of chunks fall |
| `rtp` | 3 sequence numbers, up to 2 packets lost in a row behind the first, 5 packets, 2 values of `slice_id`, every set of partitions, steps of 12 frames ahead or 10 back | `TypeOK`, `TimestampOfFrame`, `PartitionsOfOneSlice`, `EachSliceOnce`, `WholeWhenRead`, `ImplementsDelivery`, `EachSliceEnds` | losses are counted over the wrap; partitions are put together only with their own slice, each slice is handed on once, and none waits forever |
| `slicedata` | pictures of up to 3x2 macroblocks, maps of every type, all slice modes, CAVLC and CABAC, P and I slices, MBAFF with three pairs in limited slices, a field of 2x2; evolving maps up to 4x3 at every cycle | `GroupsEvolve`, `CountIsProgress`, `DecodedAsCoded`, `EndsWithData`, `SlicesBeginWithPairs`, `PictureEnds` | the maps are partitions and evolve as their type says; encoder and decoder agree on every macroblock and every end of a slice, however often macroblocks are taken back |
| `v_poc_mmco5`, `v_redundant`, `v_pairs` | see below | | disagreements between the code and its comments |

Why the bounds are enough. Two or three stores: the buffer is full after a few
pictures, so that trimming, bumping, direct output and removal happen, with one store that stays
and one that leaves, and `last_picture` before, at and behind the store that leaves. More frames than
stores per sequence; IDR pictures and operation 5 start new sequences without bound. Two operations per
picture let one see what the other left stale. Three or four pictures for `PictureDecoding`: a slice object
is used again after two (it travels between `ppSliceList` and `pNextSlice`), a `frame_num` wraps at 4, or
earlier over gaps, and the memory of `decode_poc` reaches back to one reference picture and one picture with
operation 5; two slices per picture make first and last slice differ. For `AnnexB` the bytes are one of each
kind the code tells apart (a value above 3 stands for all others), the payload has room for two zeros, a byte
that is escaped and one behind it, and with a buffer of 3 bytes every pattern of up to four bytes crosses a
border at every place. For `RtpPackets` five packets and three sequence numbers let a number come back after
a burst, while a slice with the same `slice_id` waits. For `SliceData` two groups and six macroblocks
hold a slice that is finished, one that is taken back and one that follows in another group.

Fairness: the programs are single threads that never wait, so a call that was made goes on
(`CallFairness`, `WF` of `Work`), after it the next picture is read or the stream ends, and a stream is a
file, so it ends (`StreamFairness`, with `SF` of `EndOfStream`). `Spin` is a step of the loop that changes
nothing: it makes `Work` enabled and useless, so fairness does not help a call that spins. The other
modules have `WF(Next)` for the same reason; it says nothing of which of the enabled steps is taken.

### Where the code and its comments disagree

- `v_poc_mmco5`: after operation 5 on a frame or a top field, `decode_poc` of type 0 takes the previous
  count from `pSlice->toppoc` (ldecod/header.c:748). The object was last used some pictures before, and
  `adaptive_memory_management` lowers only the counts of the stored picture, so the next count is
  wrong.
- `v_redundant`: a redundant slice is compared with the `frame_num` of the picture before
  (ldecod/image.c:875, 958), so that of a complete reference picture is decoded with it, and the picture,
  having too many macroblocks, is dropped.
- `v_pairs`: when the bottom macroblock of an MBAFF pair is too big for a slice of limited size, the comment
  says "go back to the beginning of the macroblock pair" (lencod/slice.c:866), but `current_mb_nr` goes back to
  the top macroblock, and `FmoSetLastMacroblockInSlice` lets the next slice begin behind that: with the
  bottom one, while the top one has been counted and is taken out of the stream.

Other behaviour that the models showed and that has no run of its own:

- `check_num_ref` (ldecod/mbuffer.c:214) counts a store with one long-term and one short-term
  field twice, and refuses a stream that is within its limit.
- `unmark_long_term_field_for_reference_by_frame_idx` (lcommon/mbuffer_common.c:773) takes a store with the
  `frame_num` of the picture for the frame of the picture. When `frame_num` has wrapped, an older store of
  which one field, of the other parity, is a long-term reference keeps its index beside the new field that
  gets it. It takes `MaxFrameNum` frames and a frame of which one field was unmarked: with 2 frame numbers,
  operation 2 and then 3 on the fields of the IDR picture and operation 3 on a field of the frame that comes
  two later. `LongTermIdxUnique` excepts this pair (`MayShareIdx`); a sequence of frames has none.
- `direct_output` writes a top field and a bottom field of different frames as one frame.
- A frame of which one field alone is a long-term reference is still listed among the short-term frames of a
  P slice, which the standard excludes.
- `CallsEnd` excepts a stream over its limit: with all stores holding references that were already output,
  the loop that "outputs frames until one can be removed" (ldecod/mbuffer.c:1845) spins.
- With type 0, a gap right behind a frame with operation 5 makes `PocRight` fail too: the frames stored
  for the gap clear `last_has_mmco_5` (ldecod/mbuffer.c:1776) before any `decode_poc` has seen it, so the next
  picture counts from before the operation. The run `poc` gives the operation, with type 0, only to
  bottom fields, whose second field comes before a gap, because of this and of `v_poc_mmco5`.
- The comparison of `v_redundant` also discards the redundant slice of a lost picture that has the
  `frame_num` of the picture before, though image.c:874 says that it replaces the primary slice. Being
  the first slice of a new picture it ends the loop over slices as well. When a parameter set is sent
  again then, no picture is at work, `pNextPPS` keeps the old content for one that does not come, and
  the next picture is decoded with it. `OwnParameterSet` is therefore about streams without losses.
- `exit_picture` asks only whether as many macroblocks were decoded as the picture has (ldecod/image.c:1891).
  With two slices lost no two incomplete pictures add up to that; with three they can: when the last slice of
  one picture, the picture behind it and a slice of the next one are lost, and the two that are left have equal
  headers, their slices are decoded as one picture and stored, maybe some macroblocks twice and some not at all. `delivery` is therefore bounded at two losses,
  and `PictureDelivery` promises unmixed pictures of no more than that.
- `exit_picture` drops a picture that lost a slice, where its comment says that it conceals and stores
  it (ldecod/image.c:1871); `PictureDelivery` says so of the pictures in `lost`.
- A non-reference picture written by `direct_output` is not compared with `last_output_poc`, so the
  check that output is in ascending order (ldecod/mbuffer.c:2142) misses it.
- A field without a second one that waits in `out_buffer` at the end of the stream is not written.
- Slices of limited size with CAVLC: when a skipped macroblock that ends a slice group is too big, the run it
  ends was written with it and is taken back with it, so earlier skipped macroblocks are lost
  (lencod/macroblock.c:670). In MBAFF pictures a run may be written inside a pair, and restoring the pair drops
  the bits of a coded top macroblock, or leaves a run that was already written.
- Fields of a sequence with `PicInterlace` and `MbInterlace` in slices of limited size. `start_macroblock` keeps the
  place in the stream only for even macroblocks when the input parameter `MbInterlace` is set
  (lencod/macroblock.c:381, "MB AFF -> store stream positions for 1st MB only"), but a field is not in MBAFF
  (lencod/image.c:1703, 1746) and its macroblocks are coded one by one. When an odd one is too big the stream goes
  back to the place before the even one (lencod/macroblock.c:643), and with CAVLC already when it is skipped
  behind a coded one (lencod/macroblock.c:586), without any slice being too long. The even one was counted
  ("only here we are sure that the coded MB is actually included in the slice", lencod/slice.c:533), but is in no
  slice. With a job of 3x2 macroblocks like this TLC finds `DecodedAsCoded` and `PictureEnds` violated with both
  entropy coders, in P and I slices. `PlacesKept` leaves such jobs out of the run and of the theorems;
  nothing in `PatchInp` does.
- The comments of `ProcessSPS` and `activate_sps` (ldecod/parset.c:577, 1010) say that a new sequence
  parameter set flushes the buffer; as built (`MVC_EXTENSION_ENABLE = 1`) the buffer is initialised and
  flushed there only while `init_done` is 0.

## Proofs

All proofs rest on the named assumptions on the constants only; none bounds the size of a buffer, a
file, a picture or a stream.

`DpbProofs` proves for every buffer size, limit, `MaxFrameNum`, set of operations and bound:

- `TypeCorrect`: `Spec => []TypeOK`. Its core is that `used_size` never exceeds `size`, that
  `last_picture` is a store in use and that what is written is made of fields of frames.
- `MarkingAgrees`: `Spec => []MarksAgree`: the bits and the flags agree after every step.

`MarksAgree` is not inductive: combining two fields makes the frame's flags from the fields' flags,
and the second field may be inserted only into a store whose marks are those of its one field. The
invariant `IndInv` adds that a store is marked only in fields it has (`GoodStores`), that a
sequence of frames has no single fields, that the picture being stored becomes long-term only if
it is a reference, which holds because only reference pictures reach the operations and the IDR
branch (`CurGood`), and that the first field the stream remembers is a field of a frame
(`FirstGood`). One lemma per operation on a store shows it keeps `GoodStores`; one per operation on the
buffer lifts it to sequences and shows the length; one per action shows `IndInv'`; `NextKeeps` joins
them.

`MarkingProofs` stands on `IndInv` and proves three things about a call:

- `RoomWithinLimit`: `Spec => []HangsOnlyOverLimit`. The invariant `RoomInv` says that a full buffer in
  the loop has no frame that nobody needs: one was removed before the loop, and a frame that is written
  in it leaves at once unless it is a reference. With nothing left to output all stores are references
  then, `size` of them, and `NumRefFrames <= DpbSize` makes the picture one too many.
- `ListsUpToDate`: `Spec => []ListsFresh`. `FreshInv` says in which places of a call the arrays are up to
  date: between calls, and for pictures that are no references, which change no marks, all the way; a
  reference picture passes the places where they are old only on the way to a point where they are made
  anew (`UpdateLists`), and a flush that returns into a call belongs to a reference picture.
- `LimitKept`: `Spec => []RefsWithinLimit`. A second field is stored into the store of its first field
  without any check of the limit, so the number of reference stores alone is not inductive: the first field
  may have lost its mark in between. `LimitInv` therefore bounds `Holds`, which counts the store of
  `last_picture` also when its first field was a reference once. Every operation is shown to mark nothing
  anew (`Below`), a removal to map the stores that hold references one to one, and the check at the end of a
  call (`check_num_ref`) to count every one of them, because the lists are fresh there.

It also proves `LongTermIndices`: `Spec => []LongTermIdxUnique`, whatever operations 1 to 6 a stream gives,
for frames and for fields. The property has an exception, two stores of one `frame_num` that hold
one field each, of different parities: the code takes them for the two fields of a frame and leaves both
the index. `LongTermIndicesOfFrames` says that a sequence of frames has no such pair. `LongInv` has four
parts: stores that share an index may share it (`SharedRightly`); between the places where the arrays are
made, `fs_ltref` lists every store that holds an index (`Listed`), or `unmark_long_term_frame_for_reference_by_frame_idx`
would overlook it; a long-term mark is a reference mark (`LongRefs`), so a store that loses its reference loses
its index; and the index that the picture being stored has got is free but for the store of its first field
(`FreeFor`). `EmptyInv` is needed for the IDR picture, which may take index 0: a flush leaves no mark.

`WindowProofs` is about streams without memory management control operations. `Windowed` says what is
assumed: `Mmcos = {}` and `MaxRef <= MaxFrameNum`, `MaxFrameNum > 1`. In the code `MaxFrameNum` is at least
16 (`log2_max_frame_num_minus4`), and `init_dpb` refuses more reference frames than `getDpbSize` allows, 16 at most.

- `WindowedStreamsAccepted`: `Spec => []LegalStreamAccepted`: `store_picture_in_dpb` never refuses such a
  stream for a `frame_num` that is met twice or a reference frame too many, with fields paired or not, and with
  gaps, also when `frame_num` wraps. These are two of the four texts of `error()` in `Dpb`. One, of an operation,
  needs operations. The last, "output POC must be in ascending order", can be reached under `Windowed`, by a
  stream whose output order takes more stores than the buffer has: with one store, references at the places 0, 3
  and 2 of the output order, then one more.
- `WindowSlidesOldest`: `Spec => SlidesOldest`: the first store in the buffer, which the code unmarks, is the
  oldest reference by `FrameNumWrap`. It needs `MaxRef < MaxFrameNum`: if they are equal, the oldest
  reference may have the `frame_num` of the picture being stored, and its `FrameNumWrap` is then the largest.

`WindowInv` says that the reference stores have consecutive ages, counted back from `pre_frame_num`, and lie
in the buffer in the order of their ages (`BufferWindowed`), how the picture being stored joins them
(`CurWindowed`) and how a first field that waits for its second does (`LastWindowed`).

`OutputProofs` follows the two fields of a frame from the stream to the output file.

- `FramesInOneStore`: `Spec => []OneStorePerFrame`. `FieldsInOrder` is assumed: a field may stay alone
  (`Unpaired`) only in a stream whose first fields are all of one parity, as in `fields_mmco`; with both
  parities `last_picture` would pair the lone field with the first field of a later frame of equal
  `frame_num`. The invariant `FrameInv` says where a first field is while its second is awaited
  (`FieldsKnown`): in the store `last_picture` names, alone and with its `frame_num`, so that the second
  finds it (`IsIn`); or written directly (`IsOut`), and then the second field is written directly as well,
  because it is no reference, the buffer is still full of stores that somebody needs, and everything in it
  has a higher POC. It also says that `last_picture` names no store a new field could be mistaken to belong to
  (`NoneWaits`), that a new picture is of a frame no store has (`CurNew`), and that all that waits for output
  is of this sequence (`InSequence`), which gives the comparison of POCs its meaning. Marking changes none of
  this (`Alike`), nor do removal and output but for the store they take (`Remains`).
- `FramesWrittenWhole`: `Spec /\ []Accepted => Output!Accounted` without unpaired fields. `Accounted` is the
  safety part of `PictureOutput`: what is written is frames that were accepted, each at most once, whole and made of
  fields of one frame, and only an IDR picture drops any. `Accepted` says that there is no `error()` but that
  about the order of output, which comes after the frame was written; after another one the code flushes a
  buffer that the operation left half done. The invariant `OutInv` adds to `FrameInv` that the field that waits
  in `out_buffer` is the one whose second field is awaited (`Awaited`), and that all stores not yet written are
  whole but for the one of `last_picture`. So `write_unpaired_field` never combines fields of two frames.
- `WindowedFramesWritten`: the same of `Windowed` streams without that condition, since they are
  never refused for their references (`WindowedStreamsAccepted`).

`DecodingProofs` is about `PictureDecoding` and `decode_poc`:

- `TypeCorrect`: `Spec => []TypeOK`. `ParameterSetsAssumption` says that 0, which stands for no parameter set, is
  not the number of one.
- `SlicesShareCounts`: `Spec => []SlicesAgree`: all slices of a picture get the same counts, though each calls
  `decode_poc` and the counts are copied from object to object. `AgreeInv` says that while a picture is read
  the slices read of it, and the first slice object, which `CopyPOC` takes them from, have those of
  `dec_picture`.
- `SlicesHaveTheirSets`: `Spec => OwnParameterSet`, while nothing is lost. `SetsInv` follows a parameter
  set from where it is read through `pNextPPS` to the end of the picture that was begun before it.
- `CountRecovered`, for every even `MaxPicOrderCntLsb` and all integers: if the memory is that of a reference
  picture at count `b`, and the count `t` of the next picture is within half of `MaxPicOrderCntLsb`, then
  `Msb` and the least significant bits give `t`. The multiples of the modulus below `b` and `t` are equal or
  neighbours (`Neighbours`), and which of the three it is is what the two comparisons decide (`Nearest`).
- `TypeZeroExact`: `decode_poc` of a picture that is IDR, follows no operation 5, or follows that of a bottom
  field gives the counts meant and re-establishes the premise of the theorem for the next picture. After
  operation 5 on a frame or a top field it does not, see `v_poc_mmco5`.
- `ExpectedExact`: for type 1, `decode_poc` takes the number of cycles passed times the sum of a cycle, and the
  sum up to the place in the cycle. This is the sum of the offsets of all frames so far, which is what the
  stream means (`ExpectedCount`), for every cycle. The two are folds that take their elements in different
  orders; a fold of a sum over `1 .. k` is shown to be independent of it (`FoldIsTotal`), and `CyclesSummed`
  is an induction over the frames.
- `NumbersFollow`: `Spec /\ []WholePictures => FrameNumsFollow`, if there are no redundant slices. `NumInv`
  says what `pre_frame_num` is at each place: the `frame_num` of the last reference picture stored, or that of
  the picture at work. `WholePictures` is needed: a reference picture that lost a slice moves `pre_frame_num`
  on and is not stored, and the next picture is one ahead of the buffer.

The rest is about a stream that loses nothing and has no redundant slices (`Lossless`); parameter sets may
be sent again, gaps may be left in it, and everything else is free. A redundant slice can make a picture
incomplete, see `v_redundant`.

- `PicturesDelivered`: `Spec => Delivery!InOrder /\ [](pc # "exit")`, the safety part of `ImplementsDelivery`. `PartsInv`
  says which macroblocks the slices of the picture at work have and which the stream still has to send
  (`Rest`, `Complete`), and that the picture before it was the last to be stored (`StoredBefore`), from one list of
  slice objects to the next. `IsComplete` follows for each picture. That the decoder never stops with an
  unintentional loss comes from `CountInv`.
- `GivenInOrder`: `Spec => FrameNumsFollow`, from `NumbersFollow` and the same invariant.
- `CountsRecovered`: `Spec => []PocRight`, for all three types, every `MaxPicOrderCntLsb` and `MaxFrameNum`, and
  every cycle of offsets. For type 0, `BottomMmco5` assumes that operation 5 is on bottom fields only. `PocRight`
  is far from inductive: it speaks of the picture at work, and what makes it true was left in `VideoParameters` by
  the pictures before, and passes filled gaps and a header read ahead. `StreamInv` says what the headers of a
  stream mean (`Meant`) and `NextNear` how far the next one can be from the last. `CountInv` then says for each place of
  `decode_one_frame` how the decoder stands to the stream: behind its last picture (`Standing`: `pre_frame_num` is the
  wrapped number of the last reference frame; the memory has the last frame without the wrap, or the count
  of the last reference picture), or before the picture that is begun (`Reaches`: the frames up to it that are
  not filled yet are fewer than `MaxFrameNum`, and the count is near enough). A round of `fill_frame_num_gap` moves it one
  frame nearer (`CountGap`); `init_picture` then gives the counts (`DecodesRight`) and stands behind the picture.

Induction over the natural numbers, which these sums need, does not use the library's induction theorems, whose
operator parameter no installed prover can instantiate. It is proved for sets of numbers (`Inducts`), from the
theorem that a well-founded relation has a minimal element in every set (`LeastOf`).

`NalProofs` is about `AnnexB`, for every set of bytes and headers, every size of a chunk and payloads and files
of every length:

- `PayloadIsClean`: `Spec => []NoStartCodeInPayload`. `PayloadInv` adds that `count` is never less than the
  zeros at the end of what was written: a count that fell behind would let a third byte below 3 through,
  one that runs ahead only costs an escape.
- `NothingIsRefused`: `Spec => []NothingRefused`, and `TypeCorrect`.
- `DeliveredInOrder`: `Spec => Delivery!InOrder`, the safety part of `ImplementsDelivery`: the decoder reads
  each unit once, in order, with the bytes that were given to the encoder.

The invariant `NalInv` says what the bytes mean: where in the file the units lie (`Lay`); that the bytes of a
written unit stand for its payload, followed by zero words only (`Codes`, with `Sound` for a payload that is
still being written); that `iobuffer` and the rest of the file hold exactly what is behind the bytes used,
also after a start code was put back (`Ahead`); which bytes of the file `Buf` holds and how many zeros were
seen at its end (`Scanned`); and what of a unit `EBSPtoRBSP` has restored, with the `count` it carries
(`Restoring`). Its core is `FoundNext`: a start code that the scan finds is that of the next unit and
nothing else, because the unit before it is clean, ends with a byte that is not zero, and only zero bytes
may stand between them. `HeaderAssumption` is needed there: the header is written without escapes, so the
restored bytes are the written ones only because it contains no escape itself.

`RtpProofs` proves `TypeCorrect`, `StampedWithFrame` (`TimestampOfFrame`), `OneSlice`
(`PartitionsOfOneSlice`), `WholeSlicesStayWhole` (`WholeWhenRead`), `EveryReadSliceOnce` (`EachSliceOnce`)
and `Implements` (`Spec => ImplementsDelivery`, the safety part of `NalDelivery` with losses) for every
modulus and every burst below it. `PacketInv` has three parts: the numbers and stamps of what the encoder
wrote (`EncoderInv`); that `old_seq` is the number of packet `passed - burst` (`ReaderInv`); and that the
last unit read is of the slice that waits (`AssemblerInv`). The arithmetic is in `Rest`, `WrapSum` and
`WrapDistance`: the distance of two wrapped numbers is exact below the modulus. So `lost = 0` means that two
packets are neighbours in the file, and a partition whose neighbour has its slice's partition A is of that
slice. `WholeInv` adds how many partitions of the slice that waits have been read and that they are the
first of it, so that a slice none of whose packets is lost is handed out with all of them. `OnceInv` says
that the slices handed out are those whose first unit was read, in the order of the file, but for the one at
hand: the slice being put together, or the one of the unit that was read too far and is kept for the next call.

`SliceProofs` proves, for pictures of every size and every map into slice groups (`[]GroupsEvolve` says that
it is one, which the run checks for maps of every type):

- `ProgressCounted`: `CountIsProgress`. In the middle of a slice the macroblocks counted as coded are those
  the encoder is past (`Past`, `ProgressInv`): in its own group those before `mb`, in the others those before
  their next slice. A macroblock is only taken back when its slice has one before it (`RecodeOnly`), and
  the walk back and the walk forward of a group are inverse (`PreviousFound`, `NextFound`).
- `PairsBegin`: `SlicesBeginWithPairs`, unless a bottom macroblock may be too big, which is `v_pairs`. The two
  macroblocks of a pair are in one group (`PairsTogether`), so the walk leaves no pair in the middle.
- `MacroblocksUnderstood` and `SlicesEndWithData`: `DecodedAsCoded` and `EndsWithData`, for slices of every mode,
  with both entropy coders and I and P slices. The hypotheses leave out what is known to fail: a macroblock
  that may be too big is of the kind `"other"` (not the bottom of a pair, `v_pairs`, nor a skipped one
  at the end of a group with CAVLC, see the remarks on the code above), and `RunsWithPairs` leaves out MBAFF pictures with
  runs in slices of limited size, and an odd number of macroblocks per slice there, which `PatchInp` makes
  even (lencod/configfile.c:962); `PlacesKept` leaves out slices of limited size in fields of a sequence with
  `MbInterlace`, whose macroblocks are lost (see the remarks as well). `MCSliceData` assumes both, so TLC checks
  that the jobs of `slicedata` satisfy them.

  The invariant `WrittenInv(at)` has a parameter: `at` gives the place of every macroblock in its slice, as
  an element of the data and, in a run, a number within it. No variable keeps it, so `DataInv` says that
  some such `at` exists, and a step may choose another for macroblocks not yet written. `Laid` says of
  each slice that is sent: the place of the next macroblock of the group follows from the element at the
  place of this one (`After`), the bit between two of them says that the slice goes on (`BitFollows`),
  and only the last one `Ends` it. `Open` says it of the slice that is being written, with the run that
  is still counted (`WithRun`). One macroblock is followed through the four steps of `CodeMacroblock`
  (`Started`, `Writes`, `Decides`, `Settles`) to what it adds, or takes back (`MacroblockCoded`); then
  `GoesOn`, `Closes` and `TakesBack` say what becomes of `Open`. Taking back needs that nothing but the
  pending run is behind `stored`. `ReaderInv(at)` is the decoder's half: it stands at the place of its
  macroblock, and has decoded exactly the slices before this one and the macroblocks of this one before it
  (`Reads`, `Exits`).

That a set of natural numbers has a least element, which `Lowest` and `Highest` need, comes from the
well-foundedness of the natural numbers in the library (`Minimum`).

Only model-checked, with the reason:

- liveness, which is out of the prover's reach: `CallsEnd`, `NoneWaitsForever`, `EachIsStored`, `EachSliceEnds`,
  `PictureEnds` and that every unit of `AnnexB` arrives (the `<>` of `ImplementsDelivery` there);
- the lists of `RefLists` (`ReferencesListed`, `BFramesBetweenNeighbours`, `OrderUnderstood`), which rest on sorted
  sequences, and `GroupsEvolve`, whose maps are built step by step;
- the decoding of streams with losses (`delivery`): the safety of `PictureDelivery` holds there only up to two
  lost slices, see above, so no theorem for every `MaxLost` can state it.

## Not modelled

- Error concealment, of lost frames (`conceal_mode`) and of lost macroblocks; recovery points.
- The second layer of multiview coding: its buffer, the lists with inter-view references, access units.
- Sequence parameter sets and their activation; data partitions in `PictureDecoding`.
- The entropy coders and the syntax of macroblocks: parsing and arithmetic. `SliceData` takes from them only
  whether a macroblock fits.
- Sample data: prediction, transform, filter, cropping, colour; the arithmetic of the common library.
- In the encoder: its own buffer (a second copy of the decoder's code), the order of pictures, rate control
  (floating point), mode decision and motion search. Their results are choices of the models' environments:
  any stream, any size, any order.
- Supplemental enhancement information, `rtpdump`, configuration files.

PROJECT.json lists each component with what is left out of it.

## Plan

1. The encoder's buffer and its choice of operations, in step with the decoder's: both hold the same
   references after every picture; then the order of coded pictures (`pred_struct.c`).
2. Long-term commands and MBAFF lists in `RefLists`; the repeats of weighted prediction.
3. Recovery points and `conceal_mode` in `PictureDecoding` and `Dpb`; then the second layer.
4. The arithmetic coder against the decoder's engine: carries and outstanding bits.
5. Proofs: the output of streams that are refused; that maps are partitions (`GroupsEvolve`); the lists of `RefLists`,
   by the same induction as the sums of `DecodingProofs`.
