# A formal model of mdcomp

mdcomp is a C++ library of the data compression formats of the Sega Mega Drive
(Kosinski, Kosinski+, Comper, ComperX, LZKN1, Saxman, Rocket, Enigma, Nemesis,
SNK run lengths), command line tools around it, and the 68000 and Z80 decoders
that run on the console. This directory holds TLA+ models of its core, TLC
configurations that check them and TLAPS proofs about them. Paths below are
relative to the repository.

## Inventory

| part | source | state it keeps | operations |
|---|---|---|---|
| Kosinski decompression queue | `src/asm/KosM.asm` | count word with an in-progress sign bit, slots, stored registers, bookmark | `Queue_Kos`, `Process_Kos_Queue`, `Set_Kos_Bookmark`, `Restore_Kos_Bookmark`, `Backup_Kos_Registers` |
| Kosinski module queue | `src/asm/KosM.asm` | slots, modules left, last module's size, destination | `Queue_Kos_Module`, `Process_Kos_Module_Queue_Init`, `Process_Kos_Module_Queue` |
| LZSS parser | `include/mdcomp/lzss.hh` | costs, descriptor costs, parents, edges, sliding windows | `find_optimal_lzss_parse`, `SlidingWindow`, `AdjListNode` |
| LZSS streams | `include/mdcomp/lzss.hh` | bits waiting, bytes held back, bits read | `LZSSOStream`, `LZSSIStream` |
| bit streams | `include/mdcomp/bitstream.hh` | word buffer and bits in it | `push`, `write`, `flush`, `pop`, `read` |
| LZSS formats | `src/lib/{kosinski,kosplus,comper,comperx,lzkn1,saxman,rocket}.cc` | none between calls | adaptor, token encoder, token decoder |
| SNK run lengths | `src/lib/snkrle.cc`, `src/asm/SNKRLE.asm` | current and next byte, count, bytes left | `encode`, `decode`, `SNKDec` |
| Enigma | `src/lib/enigma.cc`, `src/asm/Enigma.asm` | incrementing value, inline buffer | `encode`, `decode` |
| Nemesis | `src/lib/nemesis.cc` | nibble runs, code table | `encode`, `decode` |
| module adaptor | `include/mdcomp/moduled_adaptor.hh` | the static `PadMaskBits` | `moduled_encode`, `moduled_decode` |
| stream adaptor | `include/mdcomp/basic_decoder.hh` | none | `encode`, `extract` |
| endian input and output | `include/mdcomp/bigendian_io.hh` | none | `Read1/2/4/N`, `Write1/2/4/N` |
| other 68000 and Z80 decoders | `src/asm/*` | registers | one routine each |
| tools | `src/tools/*.cc` | none | one `main` each |

How they interact. A format's `encode` asks the parser for a parse and writes
its edges through an `LZSSOStream`, which contains an `obitstream`; `decode`
reads through an `LZSSIStream`, which contains an `ibitstream`. The parser
predicts, in bits, what the writer will write, so that the two have to agree
about descriptor fields, terminator and padding. Enigma and Nemesis use the bit
streams directly. The module adaptor cuts a file into modules of 4096 bytes and
lays them out as the module queue of `KosM.asm` expects. On the console the
module queue is a client of the decompression queue: it puts a module into it,
waits until it is empty, and reads its scratch pointers. The vertical interrupt
preempts the decompression queue at any instruction.

What is hard. The only concurrency is the interrupt in `KosM.asm`. Everything
else is sequential, and what goes wrong there are boundaries: a descriptor
field that is exactly full, a word of the bit stream that a value just fills, a
count of 255, the end of the input in the middle of a token, and pairs of
programs (writer and reader, parser and writer, C++ encoder and 68000 decoder)
that must keep in step although each follows rules of its own. `PROJECT.json`
lists each hazard at its line, with the properties that cover it.

## Modules

**KosFifo** says what the decompression queue promises: a bounded FIFO that
serves each request once, in order, and leaves its complete output in RAM.

**KosQueue** is the detailed queue. One action is one 68000 instruction, or
group of instructions without effect of their own, between which the interrupt
may come: `pc` names the next one. `count` is the word with its sign bit,
`slots` the queue, `regs`, `saved`, `bookmark` and `frame` the registers and
where they are kept. The decoder `Kosinski_internal.asm` is abstracted to
taking one code after another: a stream is an interval of ROM addresses, and
the unit decoded from address *a* is named *a*, provided that flags, `d0`-`d6` and
`a0` belong to the same point; otherwise it is junk. A resumption that loses a
register, or restores it from another moment, therefore shows in RAM.
`Set_Kos_Bookmark` is the interrupt: it diverts the return address only if the
count's sign bit is set and the interrupted instruction lies between `.Main`
and `.Done`. Where the guard is false the interrupt changes nothing, a
stuttering step. A completed request is recorded, with what RAM holds at its
destination, in the history variable `delivered`.

**KosModules** EXTENDS it with the module queue, whose routines the interrupt
does not concern and which are therefore single actions. An archive is a header
and streams laid out as `moduled_encode` writes them. `Polite` says whether the
program keeps its own requests away while a module is being decompressed. An
archive that is queued is recorded with the number of its first transfer (`first`), so that
the properties can say which module a transfer belongs to.

**LzssChannel** is the promise of the LZSS streams, a FIFO of bits and bytes;
**LzssStream** the two classes with the file between them. The file is a
sequence of units, whole descriptor fields and bytes; a read that meets the end
or a unit of the other kind gives anything. The reader makes the calls the
writer made: a decoder's next call depends only on what it got.

**LzssAdaptors** has the adaptor classes as records, **LzssParse** the parser:
`Symbolwise` and `SearchWindow` are the loop body for a node's literal and for one of
its windows, `WalkBack` one round of the last loop. Edges of one window end at
different nodes, so that relaxing them is one step. The adaptor is a template
argument: a variable chosen at the start and never changed.

**LzssTokens** translates the `encode` switch, the terminator and one round of the
`decode` loop of each of the seven formats: what bits and bytes a token is, and
what is made of those that lie ahead. **LzssCodec** composes it with the parser: when
the pass is over, `WriteEdge` writes the parse token by token, `WriteEnd` the
terminator, and `ReadToken` is a round of the decoder. What is between them is the
channel that LzssStream is shown to implement; descriptor fields come back in
`Streamed`, the size of what was written, against which the parser's costs are
checked, and by which Saxman and Rocket know where to stop.

**BitStream** is the writer and the reader of bits, with words of `W` bits that wrap at
2^W and a reader that fetches the next word as soon as one is used up. Its
operators are steps of the codec that extends it. `StreamNext` says how they are meant to be
called: values that fit their bits, and no more bits read than were written; what is
proved of the streams is proved for whoever keeps to it, and Enigma is proved to
(`UsesStreamProperly`). **Enigma** is that codec: `todo` holds
the calls `encode` is about to make, one action per kind of packet fills it, and
`CallStream` makes them; in `decode` every action takes one value from the stream.

**NemesisCodes** has the pure part of `nemesis.cc`: package-merge, canonical codes,
the codes given up for the reserved prefix, how a run without a code is broken up,
and the size estimate. **Nemesis** is `encode` with its four attempts, each of which
drops runs one by one from the table, and `decode`. The order in which a priority queue
gives equal elements up is left open where the code leaves it to the library; a bit read
behind the end of the input is any bit (`Ahead`), because `Read` leaves its buffer uninitialised.

**Modules** is `moduled_adaptor.hh`. A format is what the adaptor can tell of it: its
padding, the width of its words, what it codes at once, whether it completes or
drops what is left over, whether its reader is early and whether it reads from a copy of
Src (all but Nemesis do), how many blanks its `encode` takes to be in front of the data, and
which modules its `decode` gives back as they were. A module takes any of a
set of numbers of bits. `sout` and `in` hold bytes that say which module they begin.
That a format gives back a file of one module (LzssCodec, Enigma, Nemesis, Snkrle) does
not make it give back a module, because the adaptor calls its `encode` without what prepares a
file, and its `decode` with the modules before in Dst:

| format | which modules come back (`exact`) | why |
|---|---|---|
| Kosinski, Kosinski+, LZKN1, Comper, ComperX | all | they copy by distance (`ReadsInLaterModules`) |
| Enigma, Nemesis | all | they only write |
| Saxman | the first | `saxman.cc:185-190` counts from the beginning of Dst: matches come out right, zero fills do not (`ReadsInLaterModules`) |
| SNK run lengths | none for certain | the byte behind a full run is wrong in any file (`snkrle_round_trip`) |
| Rocket | none | 0x3C0 bytes of each module are taken for blanks (`blanks`) |

What `decode` makes of a module that does not come back is unknown to the model, but for its size.

**Snkrle** is the run length coder, encoder and decoder one after the other on the
same file; **SnkrleAsm** EXTENDS it with the 68000 decoder, one action from a
label to the next; after the encoder either decoder may run.

**KosProofs**, **LzssParseProofs**, **LzssCodecProofs**, **LzssStreamProofs**,
**BitStreamProofs**, **EnigmaProofs**, **ModulesProofs** and **SnkrleProofs** hold the proofs;
an `MC` module only has values for constants.

Definitions whose name has a suffix and whose comment begins "a slip" are
mutations: plausible mistakes in the code, used to see that each property can
fail. They are in no specification.

## What the runs check

| run | module and cfg | bounds | shows |
|---|---|---|---|
| kos_queue | MCKosQueue | queue of 2, 3 requests, streams of 2 and 1 units | the queue implements KosFifo under every interrupt; a parked decompression is resumable; count and slots are the pending requests; decoding stays in place; `IInv`; every request is served in the end |
| kos_modules | MCKosModules | 2 archives (a module and a half; exactly one module), 2 module slots, queue of 2, two polite requests | every DMA transfer is the right one; the next source is the next module; the module queue is the unfinished archives; the decompression queue is used as KosQueue requires; every archive is transferred in the end |
| kos_modules_direct | MCKosModules, MCKosModulesDirect | one request at any time | *violated*: the next source is taken from another stream |
| lzss_stream | LzssStream | both disciplines, fields of 3 bits, 8 items, 2 byte values | the streams implement LzssChannel; the reader ends at the end of the file |
| lzss_codec | MCLzssCodec | seven formats, windows scaled to 2 to 5 symbols, all files of up to 7 symbols of two (Kosinski, Kosinski+: 8; Rocket: behind two blanks); the real windows with every length, 12 distances and 6 places | windows and edges of the parser; the file that is written decodes to what was encoded, is read to its end and no further, costs what the parser reckoned, and is the best among the edges considered; real matches read back, also in a module behind one or two others, where Saxman's zero fills do not |
| lzss_best_kosinski | MCLzssCodec, MCLzssBestKosinski | Kosinski with its real constants, a run among literals | *violated*: not the best size, because of the rest of the last field |
| enigma | MCEnigma | words of 5 bits in the stream; file words of 2 bits and a flag, counts of 2 bits; all files of 3 words, all of 6 even words, runs of 5 to 8 that wrap | the bits are read as written, wherever the words end; the words taken are those of the file, or one more; packets decode to the file; the terminator is the last thing read; the streams are called as `StreamNext` says |
| nemesis | MCNemesis | codes of up to 3 bits, 2 bits reserved, counts and nibbles of 2 bits, tiles of 2 lines of 2 nibbles; repeated and irregular files of 3 to 28 nibbles | every table is a prefix code clear of the reserved prefix and optimal; the estimate is the size; the file decodes |
| modules | MCModules | modules of 4 bytes, a size word below 10, files of 1 to 14 bytes, modules of 17 to 40 bits, eight kinds of format | what is given back of a module lies in its place, decoding stops at the written size, and there are three ways only to lose the place |
| modules_early | MCModules, MCModulesEarly | two modules of the early formats | *violated*: more than padding is skipped |
| snkrle | MCSnkrle | counts up to 3, all files up to 7 bytes over 3 values | the C++ decoder keeps its place, and which bytes differ; `d1` of the 68000 decoder counts what is left |
| snkrle_round_trip | MCSnkrle, MCSnkrleRoundTrip | the same | *violated*: the byte behind a full run |

Why the bounds are enough. Two slots and three requests fill, drain and reuse
the queue, with a shift and a request made while one is parked (the module run shortens the streams to one
unit, so that its temporal properties stay within minutes); a stream of two
units has an inner point and an end, and the number of interrupts is not
bounded. Fields of three bits are filled, overfilled and left open by eight
items, with bytes of one field and of two waiting. Windows of two to five
symbols are outgrown by eight, in which every layer finds matches that overlap
themselves and are cut by the window and by the file, and in which the rings
of Saxman and Rocket go round; since a scaled window does not fill the fields of a token,
`EveryMatchReadsBack` looks at the real ones, at the bounds of their fields.
A count up to 3 stands for one up to 255: the code compares it only with its maximum and
its parity (both odd). Words of five bits are left with every number of bits
by the values of Enigma, which are of one to five bits; counts of two bits are filled by runs of
four, the inline buffer by three words. Tables of three bits need codes shortened
to the limit (`Skewed` has runs whose Huffman codes take four), codes demoted for the
reserved prefix, and runs broken up. Fourteen bytes in modules of four are four modules,
with a last one that is full, one byte or in between; the bits of a module fill its last
word, begin it, or miss it by one. Sizes of 10 and more do not fit the size word.
All runs have `CHECK_DEADLOCK FALSE`: every program modelled ends, or has
made all the requests its bound allows.

Fairness, in `FairSpec` and `MFairSpec` only. The main loop of the game calls the
queue routines every frame, and the processor executes what comes next: weak
fairness for the calls and for the code the interrupt cannot divert. The part
`Set_Kos_Bookmark` can cut short gets strong fairness: it is enabled again and again,
and as interrupts are a whole frame apart, the instruction that is next is
executed in some frame.

## Disagreements with comments

1. `KosM.asm:147-148`. The comments say that the end of the module is rounded and set
   as the new source. The end is read from `Kos_decomp_source`, which is slot 0
   of the decompression queue: a request queued behind the module has replaced it
   when the queue is empty at last.
2. `lzss.hh:398-399` calls the result "*the* best possible compressed file
   size". It is not where the end's price depends on the way there: lzss_best_kosinski
   shows it for Kosinski's 16-bit fields. (LZSS formats with 8-bit fields and byte tokens are not
   concerned, since the size is then the raw bits rounded up.) The code has two more reasons, which
   no run shows: the packed literals of LZKN1 are cleared (`lzss.hh:159`), and Saxman's zero
   fills stand instead of dictionary matches (`saxman.cc:142`). The results decode all the
   same. `BestOfConsidered` says what does hold, and leaves those two out.
3. `SNKRLE.asm:112-113` says a new character is read and printed after a full count.
   `snkrle.cc:61-62` reads it and prints the old one.
4. `moduled_adaptor.hh:71` says padding between modules is skipped. When the bits of an
   Enigma or Nemesis module fill its last word, the early reader has fetched the
   next one, and `moduled_adaptor.hh:72` rounds up from there: the beginning of the next
   module is skipped. A terminator ends on a word boundary in one of sixteen
   (Enigma) or eight (Nemesis) cases. `KeepsItsPlace` says what else loses the place:
   an odd byte at the end of a file of words, and Rocket's missing bytes.
5. `saxman.cc:113-114` says zeros can be encoded with no previous match, and `saxman.cc:200`
   that what is no place in Dst is a zero fill. In a module behind another, the place a fill is
   coded as (`saxman.cc:227`, counted from the beginning of the module) is one in Dst, and
   `saxman.cc:189-198` copies from the module before. `ReadsInLaterModules` states which
   bytes it copies. No tool calls Saxman with modules; the library's `moduled_saxman` does.

## What is proved

`KosProofs` proves of the decompression queue, for every ROM layout, RAM layout, queue size up to 8191 and
bound on requests that satisfy `RomAssumption`, `RamAssumption` and `QueueAssumption`:

- `InductiveInvariant`: `Spec => []IInv`. The properties themselves are not
  inductive: they speak of the parked state, and say nothing of a
  decompression half saved or half restored. `IInv` says where the truth about the
  oldest request is at each instruction: in `regs` while decoding and while
  `Backup` saves them (`DecodingInv`, `ParkingInv`), in `saved` while parked, and
  how far `Restore` has got. `SignBitInv` ties the sign bit to the program
  counter: it is what makes the interrupt harmless outside `.Main` to `.Done`.
  `HeadSlotInv` keeps slot 0 until it has been loaded. The proof has one lemma per action.
- `TypeCorrect`, `ParkedStaysResumable`, `SlotsStayPending`: consequences.
- `DecodingInPlace`: only `Copy` writes RAM, and `Consistent` says what and where.
- `QueueImplementsFifo`: `Queue_Kos` maps to `Enqueue`, `Dequeue` to `Serve`, every
  other step to a stutter.

`LzssParseProofs` proves, for every table of formats and files that satisfies
`FormatAssumption` (windows of any number and size, symbols any numbers):

- `PInvHolds`: `Spec => []PInv`, the conjunction of the types of the variables,
  `WindowsFollowNode` and `EdgesAreGenuine`. The three need each other: edges are
  genuine because the window they come from is in its place, and a window can be moved
  by a step because it was. `SlidesInPlace` is the step, with both ends clipped;
  `MatchesAreReal` and `ZeroRunIsOne` say that a search only finds what is there (they rest on
  `LeastOfNat`: a set of numbers has a least element, taken from the
  well-foundedness of strict inclusion of finite sets); `RelaxingReaches` that
  a node keeps what it has or gets one of the edges that are relaxed.
- `TypeCorrect`, `WindowsKeepTheirPlaces`, `EdgesReproduceTheFile`: consequences. The types are left
  to the proof; the run lzss_codec checks the other two.
- `ParseCoversTheFile`: `Spec => []ParseCovers`. Here `CostAssumption` is needed, that the literals
  of a file do not cost as much as a node that is not reached: in the code, no file
  costs `SIZE_MAX` bits. `WInv` adds to `PInv` that every node reached has the price of its parent and of
  the edge from there (`PricesInv`; the parent is behind the pass, so that its price is final),
  that no node the pass has come to costs more than the literals up to it (`FrontInv`:
  this is why each of them is reached), and that what the walk back leaves is a chain
  of edges from `at` to the end (`ChainInv`).
- `OffersAreSettled`: `Spec => []OfferInv`, what optimality rests on. Every edge a node has offered when
  the pass is beyond it is `Settled`: its end is no dearer than by that edge, then and for good, since what it
  leads from is not touched again and ends only get cheaper. Two edges relaxed together end at
  different nodes (`EndsDiffer`), so that none undoes another. `ConsideredIsOffered` adds that what is
  offered is enough: to every edge of the reference there is an offered one of the same place, length
  and type (`Like`) and so of the same price, because the longest agreement a search finds is as
  long as any (`AgreementIsAll`) and all shorter lengths are offered with it.

`LzssCodecProofs` proves about the codec:

- `TokensReadBack`: with the real windows of all seven formats,
  `EveryMatchReadsBack` for all distances and places, where the run has twelve and six. For
  every window it is shown that the fields a token is made of are within a byte, that
  the decoder's splitting of those bytes gives the fields back, and that the code is
  neither that of another window nor the terminator; a case distinction over
  windows and formats puts them together. For Saxman and Rocket the place in the ring is
  shown to determine the place in the file, and how much of a match is before it.
- `CodecInvariant`: `CodecSpec => []CInv`, for tables of the seven formats as they are and
  any files of bytes or words (`RealFiles`; for Rocket, with the blanks that `encode` puts before
  them). `Laid` says that marks exist, between which the tokens written lie in the stream, the
  terminator behind the last; `Reads` that the decoder stands at one of them and has written the file up to
  the edge that begins there. A round of the decoder takes it to the next mark: it looks at no more
  than the token in front of it (`GetsIsLocal`, which extends what is known of a token alone to one in
  its stream), gets the literal, the fill or the match that was written (`TokensAreRead`), and what it
  writes is what the file holds next (`TokenIsTaken`; a copy that reads its own output included,
  `CopyGives`, by induction over its bytes). The terminator is read as such and as nothing else
  (`TerminatorIsRead`); without one, every token makes the stream longer, so that the size is reached
  behind the last and not before (`StreamedGrows`, `MoreToRead`). That the edges are those
  of the file, one after the other, is `ParseCovers`.
- `DecoderGivesBackTheFile`, `DecoderStaysInStep`: consequences.
- `CostIsTheSize`: also a consequence, for the six formats whose files begin at their first
  symbol (for Rocket, whose nodes are numbered from behind the blanks, no edge is `Ending` and the end
  is not charged: the property does not speak of it). Every token
  takes as many bits and bytes as its edge is charged (`TokensPay`), the
  terminator too (`TerminatorPays`). So at every edge of the parse but the last its node's cost
  is the size of what `Laid` has put there (`CostsAlong`, from `Priced` along `ChainInv`); the last
  pays for the rest of the descriptor field, or a dummy one (`FieldsAreCharged`).
- `NoParseIsSmaller`: `CodecSpec => []BestOfConsidered`, for all files of the formats without an early
  descriptor field. The reference `Ways` is a recursive function over the places of the file; that
  there is one and that it is what its equation says is shown by induction (`WaysExist`, `WaysAre`). By
  induction again no way to a node is cheaper than the node (`WaysAreBest`, a step of a way being
  `NoEdgeImproves`). At the last node costs are no longer sums: a way with more descriptor bits may
  have less to fill up. `SizesAreOrdered` says that this cannot turn the order round, because
  all that is charged beside descriptor bits fills whole fields in these formats (`FormatsCharge`,
  `WeightsAreWhole`) and rounding up by the same width is monotonic. `WrittenIs` and `CostIsTheSize`
  relate the node to the file that is written; for Rocket, where the end is not charged, `CostsAlong` goes to the last
  edge and the order of sizes does the rest.

`LzssStreamProofs` proves, for descriptor fields of any width above one and any bytes
(`StreamAssumption`), whatever calls are made and however many:

- `StreamsAreChannel`: `Spec => ImplementsChannel`. A call of the writer maps to `Send`, one of
  the reader to `Receive`, the rest to stutters. That the reader gets item *i* cannot be
  had from the last states of both classes: it needs the place of every item in the file. The
  invariant `Inv` says that a layout `at` exists, which gives for each item where the reader
  stands behind it (units taken, bits left, the unit they came from), and that
  `at` follows the reader's rule from item to item (`Places`), never goes back and takes the
  bits of a field in order (`Ordered`), is where the writer stands now (`Held`), and that the file,
  closed or as it would be if it were closed now (`File`), has every item at its place
  (`Contents`). A step of the writer extends the layout by one place; a reader's step only
  has to be shown to move to the next. That a field already begun is completed behind
  bytes that precede it in the order of the calls is in `Contents`: the field is in `File` from
  its first bit on, filled up with zeros.
- `StreamTypes`, `StreamStopsAtEnd`: consequences of the same invariant.

`SnkrleProofs` proves about the run length coder, for counts up to any odd number that fits a byte
and every file (`RunAssumption`, `WordAssumption`):

- `CountIsRight`: `ASpec => []CountsWhatIsLeft`, by itself inductive together with the types.
  The jumps of `SNKRLE.asm` differ in whether they count a word before or after it is
  written and in whether the odd byte of a run is among them; `Steps` says what they have in common:
  `2m` bytes written, `d1` less by `2m` in sixteen bits (`AfterRunSteps`, `MainLoopSteps`,
  `BufferClearSteps`).
- `DecodedFile`, `KeepsInStep`: the C++ decoder, with the same kind of invariant as above. `Inv`
  says that the file is cut into tokens, literals and runs, each with its place in file and codes
  (`Tokens`), and where encoder and decoder are in them (`Encodes`, `Decodes`). The tokens start where a run
  of the file does or a multiple of full counts behind (`Aligned`): this is what makes
  `AfterFullRun`, a property of the file alone, the same as "behind a token with a full
  count" (`BehindToken`). An invalid choice of `Read1` behind the end never happens,
  because the codes not yet read are those of the tokens left (`NextToken`, `NothingIsLeft`).
- `CoderTypes`: the types, the C++ decoder's bounds included.

`KosProofs` proves of the module queue, for every ROM, every layout of archives in it, both queues of any
size and any bounds that satisfy the assumptions of KosQueue and `ArchiveAssumption`. The
theorems have the hypothesis `Polite`, which the run kos_modules has too:
without it `SourceIsNextModule` is false, as kos_modules_direct shows.

- `ModulesInvariant`: `MSpec => []MInv`. The decompression queue's `IInv` is carried over, because
  every step of the composition is one of its steps (`ProperClient`). `StoredInv` adds what that queue
  alone never needed: the address `Kos_decomp_source` holds, once stored, is the end of the
  oldest request. `InArchive` says that the archive in turn is the one in slot 0, with
  the source of its next module and as many modules left as transfers are due;
  `WaitBehind` that the others wait behind it in order, with nothing behind them; `RequestedInv`
  that the module that was requested is the last request in the decompression queue or, once that queue
  is empty, lies in the buffer with its end in slot 0; `CountedInv` that
  the requests there were are the program's own and the modules', so that the bounds leave room for the next.
  A transfer needs three cases: within an archive, at the end of one with others waiting, and at the end
  of the last (`TransferWithin`, `TransferLast`, `TransferOver`). `SizesOf`, `Rounded`, `WordSum` are what the
  code's shifts and masks do with sizes.
- `ModuleTypes`, `TransfersInOrder`, `NextModuleIsFound`, `QueueIsUnfinished`: consequences.

`BitStreamProofs` proves, for words of any width and every sequence of calls `StreamSpec` allows:

- `StreamInvariant`: `StreamSpec => []IInv`. `WriterInv` says that the words of the file are,
  bit for bit, the bits sent, that the rest of them is in `obuffer`, and how many words there are;
  `ReaderInv` that `ibuffer` is what is left of the word the reader has come to (the remainder
  of that word) and that its place is the number of bits it has given. Shifts and masks are
  products, quotients and remainders of powers of two, of which the provers know nothing:
  `PowersExist`, `PowersRecur` and `PowersMultiply` are shown from their recursion
  (`Induction`, by a least number missing), and `UpperBits`, `LowerBits` say what is
  in the bits of a number made of two. `WriteFills` and `ReadAcross` are the steps over a word's end;
  `push` and `pop` are shown to be a `write` and a `read` of one bit (`PushIsWrite`, `PopIsRead`).
- `StreamTypes`, `BitsComeBack`, `WordsAreTaken`: consequences.

`EnigmaProofs` proves, for every file, every division of a word into flags and low bits, counts of
any size and bit streams of any words that satisfy `EnigmaAssumption`:

- `EnigmaInvariant`: `Spec => []EInv`. An encoder that holds words back until it finds something
  better to do with them has not said, while they wait, what the decoder will do. So the
  invariant speaks of streams instead: `Leads(u, x)` says that decode, at the place `x` (where it is in a
  packet, its registers, the bits left and the words written), gives back the file `u` and stops with
  the last bit. It is a set of places in which every step stays or is at the end, so that it needs no
  recursion over what is left. While encoding (`EncodeInv`), whatever stream leads from the words that
  wait to the end of the file, what was sent, what is still to be called and then that stream lead
  from the beginning. While decoding (`DecodeInv`), the variables of decode follow a
  place that leads to the end. The rest of `EInv` is the streams' own invariant.
- Each packet leads over its words: `IncrementingLeads`, `CommonLeads`, `SteppedLeads` for a row of
  any of the three steps, `InlinedLead` and `FlushIsCalls` for a buffer that is flushed, `TerminatorLeads`.
  An inlined word is read flag by
  flag, as `getMask` does, where the flags a file never uses have no bit (`FlagsLead`), and the rest of it
  in as many bits as the largest needs (`RestFits`, `BelowItsPower`).
  `TaggedFits`: tag and count of a packet do not run into each other.
- In decode, the bits that a call takes are those that come next (`TakenIs`), and only one value
  of a width has them (`BitsTell`), so that the step the variables make is the one that leads on.
- `StreamsAreUsedProperly`: `Spec => UsesStreamProperly`, by the same steps; with it the theorems
  of `BitStreamProofs` hold for Enigma.
- `FileIsGivenBack`, `TerminatorStops`: consequences.

`ModulesProofs` proves, for modules of any size, every file, and every table of formats that satisfies
`ModulesAssumption` (the padding a power of two, as the tools insist; a whole module neither
completed nor cut; early readers without padding, which is what `enigma.hh` and `nemesis.hh`
instantiate; formats that take blanks for granted give no module back, and code byte by byte). Which
modules a format gives back is the value `exact` of its record, see the table above: the
proofs build on it and do not show it:

- `LayoutInvariant`: `Spec => []Inv`. As for the streams, the invariant says that a layout `at` exists:
  where each module begins, that its bytes are there (`InPlace`), and that the next begins at the rounded
  end (`EndsAt`). While decoding, `Restoring(k)` says that *k* modules have given the first bytes of the
  file, and `Standing` that Src is at the next one, or `Astray`, where none begins. Division by a
  variable padding and module size is not known to the provers: `Division`, `Apart` and
  `Quotient` are what all of it rests on. A step of the encoder extends the layout (`LayoutGrows`); one of the
  decoder restores a module in its place (`RestoredInPlace`) and moves Src to the next
  (`MovedToNext`) or behind the last (`MovedBehind`); there it goes on only if the last
  module dropped bytes (`NotReached`).
- `FileIsDecoded`: what the formats give back lies where it belongs in the file: all of it for those
  whose modules all come back, the first module for Saxman. Of Rocket and the SNK run lengths
  it says no more than that Dst is long enough when decoding ends.
- `PlaceIsKept`: three reasons to lose the place and no fourth. An early reader has fetched a word of the
  next module; or the size is never reached, because the last module drops bytes, or because every
  module lacks those taken for blanks, and decode goes on behind the last module.
- `EndsInTime`: the loop ends with the first module at which the size written is reached.

Model-checked only, and why:

- Liveness of both queues (`EventuallyServed`, `EventuallyTransferred`): beyond the prover.
- The codes of Nemesis: not proved. What is recursive in them (package-merge and the reference
  for it) builds sequences of sets of varying size, which cannot be reasoned about by the
  library's induction theorems; where a proof above needs every item of a sequence, it carries a
  function over all of them in the invariant instead, or goes by the induction over numbers
  of `Induction`.

## Not modelled

- Byte and bit order (pure conversions applied alike on both sides), logging, argument
  parsing and files of the tools, `basic_decoder.hh`'s copying of streams except where a
  module is extracted.
- The game that calls the queues (external, described by the guards of `GameQueues`,
  `DirectRequest` and `Queue_Kos_Module`) and `QueueDMATransfer` (external: it gets what is
  in the buffer at the call).
- The other decoders for the 68000 and the Z80. They run uninterrupted and keep no
  state; `KosQueue` has what matters of `Kosinski_internal.asm` when it is interrupted.
- Files for which the C++ code has no defined result: empty ones for Enigma and Nemesis,
  and Enigma files without a low bit (`EnigmaAssumption`, `NemesisAssumption`); archives of less
  than a word (`ArchiveAssumption`); files of 65536 bytes or more for the run length coder; a last Rocket
  module shorter than the blanks taken to be in front of it (`lzss.hh:297`, guard of `EncodeLast`).
- The headers of Saxman, Rocket and LZKN1, but for the sizes they hold.

## Plan

1. (done) The decompression queue, its proofs, and the module queue on top of it.
2. (done) LZSS streams, the parser with the seven adaptors, its proofs; bit streams; SNK
   run lengths.
3. (done) The token encoders and decoders over the channel, with the parser; proof that they give the file back.
4. (done) Enigma over bit streams, Nemesis, modules.
5. (done) Proofs: `LzssStream` implements `LzssChannel`; the run length coder and
   `CountsWhatIsLeft`; the safety properties of `KosModules`, of `Modules`, of the bit streams and of the LZSS codec;
   the windows of `LzssParse` cover the file; no LZSS parse is smaller; Enigma gives back the file.
6. The 68000 decoders of Kosinski+ and Saxman against `LzssTokens`.
