----------------------------- MODULE I915Batch ------------------------------
(***************************************************************************)
(* The i915 driver's blits and its batch buffer.  Every 2D operation       *)
(* writes command words to driver->batch.map, records relocations on the   *)
(* batch buffer object, and hands the batch to the GPU.                    *)
(*                                                                         *)
(* A step is the code from one libdrm call that may fail, or that depends  *)
(* on what other processes do to the GPU, to the next: the aperture check, *)
(* and the upload and execution of a batch.  Command words are the names   *)
(* of the fields they are; a packet is the sequence of its words.          *)
(***************************************************************************)
EXTENDS Integers, Sequences

CONSTANTS
  Surface,       \* the surface buffers, each with a buffer object of its own
  Cpp, Pitch,    \* Cpp[s], Pitch[s]: bytes per pixel and per line of s
  Extent,        \* widths and heights of rectangles
  Gen,           \* generations of the chip
  MaxBatchSize,  \* driver->maxBatchSize: bytes allocated for batch.cpu_map
  BoSize,        \* batch.bo->size: what libdrm rounds the request up to
  BatchReserved, \* BATCH_RESERVED
  Word           \* number of values of an unsigned int

ASSUME BatchAssumption ==
  /\ Cpp \in [Surface -> Nat] /\ Pitch \in [Surface -> Nat]
  /\ Extent \subseteq Nat /\ Gen \subseteq Nat
  /\ MaxBatchSize \in Nat /\ BatchReserved \in Nat /\ Word \in Nat \ {0}
  /\ BoSize \in Nat /\ MaxBatchSize <= BoSize

\* what intel_batchbuffer_require_space() asserts of the longest packet, and
\* that the words which end a batch have reserved space
ASSUME ReserveAssumption ==
  4 * 8 < MaxBatchSize - BatchReserved /\ 4 * 2 <= BatchReserved

VARIABLES
  gen,       \* driver->gen
  words,     \* batch.map[0 .. used - 1]
  relocs,    \* the relocations of batch.bo: <<index of the word, surface>>
  reserved,  \* batch.reserved_space
  pc,        \* where the driver is; "idle" between calls
  call,      \* the operation under way and its arguments
  pass,      \* passes of the aperture loop of i915_copy_blit()
  fits,      \* the last aperture check of this call succeeded
  sent,      \* the batches this call handed to libdrm, ok being whether each
             \* one got to the GPU
  ret        \* what the last call returned

batch == <<words, relocs, reserved>>
vars == <<gen, words, relocs, reserved, pc, call, pass, fits, sent, ret>>

-----------------------------------------------------------------------------
(* Command packets.                                                        *)

ColorBlt == <<"XY_COLOR_BLT", "BR13", "xy1", "xy2", "dst", "color">>
CopyBlt  == <<"XY_SRC_COPY_BLT", "BR13", "xy1", "xy2", "dst", "src_xy",
              "src_pitch", "src">>
MiFlush  == <<"MI_FLUSH">>

\* the words a packet has for addresses are relocated to the surface's object
Relocations(packet, at, dst, src) ==
  {<<at + i - 1, dst>> : i \in {j \in DOMAIN packet : packet[j] = "dst"}} \cup
  {<<at + i - 1, src>> : i \in {j \in DOMAIN packet : packet[j] = "src"}}

NoCall == [op |-> "none"]

\* br13_for_cpp() and the switch of i915_copy_blit() assert one of these
CppKnown(s) == Cpp[s] \in {1, 2, 4}

-----------------------------------------------------------------------------
(* The batch buffer.                                                       *)

\* an unsigned difference: it wraps around below zero
Space(used) == (BoSize - reserved - 4 * used) % Word

\* the flag of the exec call, and a slip: the one of the gen 4 chips for all
RenderRing(g) == "RENDER"
Ring(g) == IF g > 4 THEN "BLT" ELSE "RENDER"

\* the batch with its end mark, of an even number of words; a slip without
Unpadded(w) == w \o <<"MI_BATCH_BUFFER_END">>
Terminated(w) ==
  w \o <<"MI_BATCH_BUFFER_END">>
    \o (IF Len(w) % 2 = 0 THEN <<"MI_NOOP">> ELSE <<>>)

\* slips: batch.used is not reset; the relocations are not cleared
ResetKeepingWords  == /\ words' = Terminated(words) /\ relocs' = {}
                      /\ reserved' = BatchReserved
ResetKeepingRelocs == /\ words' = <<>> /\ UNCHANGED relocs
                      /\ reserved' = BatchReserved

\* intel_batchbuffer_reset()
Reset == /\ words' = <<>> /\ relocs' = {} /\ reserved' = BatchReserved

\* intel_batchbuffer_flush(): an empty batch is left alone; the upload or the
\* execution may fail (then nothing is drawn), the buffer is reset anyway, and
\* no caller looks at the result
Flush(ring) ==
  IF words = <<>> THEN UNCHANGED <<words, relocs, reserved, sent>>
  ELSE /\ \E ok \in BOOLEAN :
            sent' = Append(sent, [words |-> Terminated(words),
                                  relocs |-> relocs, ring |-> ring, ok |-> ok])
       /\ Reset

\* intel_batchbuffer_begin(n) and the emission of a packet of n words, when
\* there is room for it
Emit(packet, dst, src) ==
  /\ words' = words \o packet
  /\ relocs' = relocs \cup Relocations(packet, Len(words), dst, src)
  /\ UNCHANGED <<reserved, sent>>

\* ... and when there is not: what is in the batch is flushed first
EmitAfterFlush(packet, dst, src) ==
  \E ok \in BOOLEAN :
    /\ sent' = Append(sent, [words |-> Terminated(words), relocs |-> relocs,
                             ring |-> "RENDER", ok |-> ok])
    /\ words' = packet
    /\ relocs' = Relocations(packet, 0, dst, src)
    /\ reserved' = BatchReserved

BeginAndEmit(packet, dst, src) ==
  IF Space(Len(words)) < 4 * Len(packet) /\ words # <<>>
  THEN EmitAfterFlush(packet, dst, src)
  ELSE Emit(packet, dst, src)

-----------------------------------------------------------------------------
Init ==
  /\ gen \in Gen
  /\ words = <<>> /\ relocs = {} /\ reserved = BatchReserved
  /\ pc = "idle" /\ call = NoCall /\ pass = 0 /\ fits = FALSE
  /\ sent = <<>> /\ ret = 0

Goto(label) == pc' = label /\ UNCHANGED ret

Return(value) == pc' = "idle" /\ ret' = value

Enter(label) ==
  /\ pc = "idle"
  /\ pass' = 0 /\ fits' = FALSE /\ sent' = <<>>
  /\ Goto(label)
  /\ UNCHANGED <<gen, words, relocs, reserved>>

\* the caller's rectangle is not empty; an unknown cpp fails the assertion
FillRect ==
  \E dst \in Surface :
    /\ Enter(IF CppKnown(dst) THEN "fill_check" ELSE "aborted")
    /\ call' = [op |-> "fill", dst |-> dst, src |-> dst]

\* i915_copy_buff() refuses rectangles of different extents
CopyBuff ==
  \E dst, src \in Surface, rc \in Extent \X Extent :
    /\ Enter("copy_check")
    /\ call' = [op |-> "copy", dst |-> dst, src |-> src,
                src_rc |-> rc, dst_rc |-> rc]

\* what i915_check_blit() lets pass: it compares the source with itself.  (The
\* surfaces are untiled, and those of one cpp are of one format.)
CheckBlit(src, src_rc, dst, dst_rc) ==
  /\ src_rc[1] = src_rc[2] /\ src_rc[2] = dst_rc[2]
  /\ Cpp[src] = Cpp[dst]

\* MiniGUI blits with i915_copy_blit() if i915_check_blit() returned it
Blit ==
  \E dst, src \in Surface, src_rc, dst_rc \in Extent \X Extent :
    /\ CheckBlit(src, src_rc, dst, dst_rc)
    /\ Enter("copy_check")
    /\ call' = [op |-> "copy", dst |-> dst, src |-> src,
                src_rc |-> src_rc, dst_rc |-> dst_rc]

FlushDriver == Enter("mi_begin") /\ call' = [op |-> "flush"]

-----------------------------------------------------------------------------
(* i915_fill_rect()                                                        *)

\* if the aperture check fails the batch is flushed, and the fill goes on
FillCheck ==
  /\ pc = "fill_check"
  /\ fits' \in BOOLEAN
  /\ IF fits' THEN UNCHANGED <<words, relocs, reserved, sent>>
              ELSE Flush(Ring(gen))
  /\ Goto("fill_emit")
  /\ UNCHANGED <<gen, call, pass>>

FillEmit ==
  /\ pc = "fill_emit"
  /\ BeginAndEmit(ColorBlt, call.dst, call.src)
  /\ Goto("flush")
  /\ UNCHANGED <<gen, call, pass, fits>>

-----------------------------------------------------------------------------
(* i915_copy_blit()                                                        *)

\* slips: one pass too many; the pass is not counted
MorePassesByOne == pass <= 2
MorePasses == pass < 2

CountNothing == UNCHANGED pass
CountPass == pass' = pass + 1

CopyCheck ==
  /\ pc = "copy_check" /\ MorePasses
  /\ fits' \in BOOLEAN
  /\ Goto(IF fits' THEN "copy_begin" ELSE "copy_flush")
  /\ UNCHANGED <<gen, words, relocs, reserved, call, pass, sent>>

CopyFlush ==
  /\ pc = "copy_flush"
  /\ Flush(Ring(gen))
  /\ CountPass
  /\ Goto("copy_check")
  /\ UNCHANGED <<gen, call, fits>>

\* slip: the copy is tried all the same
CopyGoesOn ==
  /\ pc = "copy_check" /\ ~MorePasses
  /\ Goto("copy_begin")
  /\ UNCHANGED <<gen, words, relocs, reserved, call, pass, fits, sent>>

CopyGivesUp ==
  /\ pc = "copy_check" /\ ~MorePasses
  /\ Return(-1)
  /\ UNCHANGED <<gen, words, relocs, reserved, call, pass, fits, sent>>

PitchesAligned == Pitch[call.src] % 4 = 0 /\ Pitch[call.dst] % 4 = 0

\* the destination rectangle, which has the source's extents, is not empty
SomethingToCopy == call.src_rc[1] > 0 /\ call.src_rc[2] > 0

\* require_space() finds an empty batch and enough room; the checks follow,
\* then the packet is emitted, or the call fails
CopyRejected ==
  /\ pc = "copy_begin"
  /\ IF ~PitchesAligned THEN Return(-1)
     ELSE IF ~CppKnown(call.src) THEN Goto("aborted")
     ELSE ~SomethingToCopy /\ Return(-1)
  /\ UNCHANGED <<gen, words, relocs, reserved, call, pass, fits, sent>>

CopyEmit ==
  /\ pc = "copy_begin"
  /\ PitchesAligned /\ CppKnown(call.src) /\ SomethingToCopy
  /\ BeginAndEmit(CopyBlt, call.dst, call.src)
  /\ Goto("flush")
  /\ UNCHANGED <<gen, call, pass, fits>>

-----------------------------------------------------------------------------
(* Both blits end with a flush and intel_batchbuffer_emit_mi_flush(), which *)
(* is all that i915_flush_driver() does.                                    *)

\* slip: the blit is left for the flush command's batch
FlushBlitLater ==
  /\ pc = "flush"
  /\ Goto("mi_begin")
  /\ UNCHANGED <<gen, words, relocs, reserved, call, pass, fits, sent>>

FlushBlit ==
  /\ pc = "flush"
  /\ Flush(Ring(gen))
  /\ Goto("mi_begin")
  /\ UNCHANGED <<gen, call, pass, fits>>

MiBegin ==
  /\ pc = "mi_begin"
  /\ BeginAndEmit(MiFlush, 0, 0)
  /\ Goto("mi_flush")
  /\ UNCHANGED <<gen, call, pass, fits>>

\* slip: the flush command waits for the next operation
MiLeave ==
  /\ pc = "mi_flush"
  /\ Return(0)
  /\ UNCHANGED <<gen, words, relocs, reserved, call, pass, fits, sent>>

MiEnd ==
  /\ pc = "mi_flush"
  /\ Flush(Ring(gen))
  /\ Return(0)
  /\ UNCHANGED <<gen, call, pass, fits>>

Step ==
  \/ FillCheck \/ FillEmit
  \/ CopyCheck \/ CopyFlush \/ CopyGivesUp \/ CopyRejected \/ CopyEmit
  \/ FlushBlit \/ MiBegin \/ MiEnd

Next == FillRect \/ CopyBuff \/ Blit \/ FlushDriver \/ Step

\* a call that was made runs to its end
Spec == Init /\ [][Next]_vars /\ WF_vars(Step)

-----------------------------------------------------------------------------
(* Properties.                                                             *)

Words == {ColorBlt[i] : i \in DOMAIN ColorBlt} \cup
         {CopyBlt[i] : i \in DOMAIN CopyBlt} \cup
         {"MI_FLUSH", "MI_BATCH_BUFFER_END", "MI_NOOP"}

BatchOK(b) ==
  /\ b.words \in Seq(Words) /\ b.relocs \subseteq Nat \X Surface
  /\ b.ring \in {"BLT", "RENDER"} /\ b.ok \in BOOLEAN

CallOK ==
  /\ call.op \in {"none", "flush", "fill", "copy"}
  /\ call.op \in {"fill", "copy"} => call.dst \in Surface /\ call.src \in Surface
  /\ call.op = "copy" => /\ call.src_rc \in Extent \X Extent
                         /\ call.dst_rc \in Extent \X Extent

\* Every variable keeps to its type; the aperture loop makes two passes.
TypeOK ==
  /\ gen \in Gen
  /\ words \in Seq(Words)
  /\ relocs \subseteq Nat \X Surface
  /\ reserved \in Nat
  /\ pc \in {"idle", "fill_check", "fill_emit", "copy_check", "copy_flush",
             "copy_begin", "flush", "mi_begin", "mi_flush", "aborted"}
  /\ CallOK
  /\ pass \in 0 .. 2
  /\ fits \in BOOLEAN
  /\ Len(sent) \in 0 .. 3 /\ \A i \in DOMAIN sent : BatchOK(sent[i])
  /\ ret \in {-1, 0}

\* Nothing is ever written past the maxBatchSize bytes of batch.cpu_map, not
\* even the words that end a batch.  The space check does not see to that: it
\* reckons with the size of the buffer object, which libdrm rounds up.
MapNeverOverflows ==
  /\ 4 * Len(Terminated(words)) <= MaxBatchSize
  /\ \A i \in DOMAIN sent : 4 * Len(sent[i].words) <= MaxBatchSize

\* Every batch that is handed over ends with one end mark, after which there is
\* at most padding to an even number of words ("Mark the end of the buffer",
\* "Round batchbuffer usage to 2 DWORDs").
BatchesEnd ==
  \A i \in DOMAIN sent :
    LET w == sent[i].words IN
    /\ Len(w) % 2 = 0
    /\ \E n \in DOMAIN w :
         /\ w[n] = "MI_BATCH_BUFFER_END"
         /\ \A k \in DOMAIN w \ {n} : IF k > n THEN w[k] = "MI_NOOP"
                                      ELSE w[k] # "MI_BATCH_BUFFER_END"

\* The relocations of a batch handed over are those of its own address words,
\* to the surfaces of the call; none is left over from an earlier batch.
RelocsMatch ==
  \A i \in DOMAIN sent :
    LET w == sent[i].words
        Target(k) == IF w[k] = "dst" THEN call.dst ELSE call.src
    IN sent[i].relocs = {<<k - 1, Target(k)>> :
                          k \in {j \in DOMAIN w : w[j] \in {"dst", "src"}}}

\* After generation 4 blits run on a ring of their own; nothing is submitted
\* to the wrong ring, not by the flush of require_space() either, which names
\* the render ring whatever the generation.
RightRing ==
  \A i \in DOMAIN sent : (gen > 4) = (sent[i].ring = "BLT")

\* Between calls the batch is empty and references no surface: one that is
\* destroyed then is no longer wanted by commands not yet submitted.
NothingPending ==
  pc = "idle" => words = <<>> /\ relocs = {} /\ reserved = BatchReserved

\* A blit that returns 0 has handed over its packet, once, and after it, in a
\* batch of its own, the flush; one that returns -1 has handed over nothing.
\* More it does not say: the upload or the execution of either may have failed,
\* and no caller of intel_batchbuffer_flush() looks at its result.
ResultsTell ==
  pc = "idle" /\ call.op \in {"fill", "copy"} =>
    IF ret = 0
    THEN /\ Len(sent) = 2
         /\ sent[1].words[1] =
              (IF call.op = "fill" THEN ColorBlt[1] ELSE CopyBlt[1])
         /\ sent[2].words[1] = "MI_FLUSH"
    ELSE sent = <<>>

\* A copy is handed over only if the aperture had room for its surfaces when it
\* was last asked ("do space check before going any further").
CopyFits == call.op = "copy" /\ sent # <<>> => fits

\* The same comment stands in i915_fill_rect().
FillFits == call.op = "fill" /\ sent # <<>> => fits

\* "only copy supprted so far" (i915_check_blit): what is drawn has the extents
\* of the rectangle it was to fill.
CopiesOnly == call.op = "copy" /\ sent # <<>> => call.src_rc = call.dst_rc

\* br13_for_cpp() asserts that the cpp of a surface is one it knows.
CppAsserted == pc # "aborted"

\* Every call returns, however often the aperture check or the GPU fails.
CallsReturn == pc # "idle" ~> pc = "idle"
=============================================================================
