---------------------------- MODULE RockchipBlit ----------------------------
(***************************************************************************)
(* The rockchip driver's 2D operations.  Each one turns its rectangles and *)
(* operations into a job for librga: it has librga check the job and then  *)
(* has it done.  A step is the code up to one of those two calls.  The     *)
(* driver keeps nothing between operations but the rga_buffer in a surface *)
(* structure, whose global_alpha a blit sets and leaves.                   *)
(*                                                                         *)
(* Rectangles are their rows; columns are passed on as they are.  A usage  *)
(* word is the set of its flags.  librga is modelled as the driver takes   *)
(* it: 0 is success, and a check turns down rows outside of a surface,     *)
(* surfaces without RGA handle, and flags the hardware does not have.      *)
(* _DEBUG is defined on line 44: a blit is always checked again.           *)
(***************************************************************************)
EXTENDS Integers

CONSTANTS
  Surface,     \* surface buffers
  Lines,       \* Lines[s]: nr_hdr_lines of s
  Height,      \* Height[s]: rows of pixels of s
  Wrapped,     \* surfaces whose rga_handle is not 0
  Rows,        \* rows of callers' rectangles: first row and number
  Copies, Keys, Alphas, Blends, LogicOps, Filters,   \* what callers ask for
  Alpha,       \* values of DrmBlitOperations.alpha
  Hardware     \* usage flags this RGA supports

ASSUME BlitAssumption ==
  /\ Lines \in [Surface -> Nat] /\ Height \in [Surface -> Nat]
  /\ Wrapped \subseteq Surface
  /\ Rows \subseteq [y : Nat, h : Nat \ {0}]
  /\ Alpha \subseteq Nat

\* the transformations and colour keys that get_usage_opt() has cases for
ASSUME OperationAssumption ==
  /\ Copies \subseteq {"TRANSLATE", "ROT_90", "ROT_180", "ROT_270",
                       "FLIP_H", "FLIP_V", "FLIP_H_V"}
  /\ Keys \subseteq {"KEY_NONE", "KEY_NORMAL", "KEY_INVERTED"}

VARIABLES
  global_alpha,  \* global_alpha[s]: src->rga_buffer.global_alpha of s
  pc,            \* where the driver is; "idle" between calls
  call,          \* the operation under way and its arguments
  job            \* what librga is given

vars == <<global_alpha, pc, call, job>>

-----------------------------------------------------------------------------
(* DrmBlitOperations and the usage words made of them.                     *)

DrmBlitOperations ==
  [cpy : Copies, key : Keys, alf : Alphas, alpha : Alpha, bld : Blends,
   rop : LogicOps, scl : Filters]

PorterDuff ==
  {"PD_SRC", "PD_DST", "PD_SRC_OVER", "PD_DST_OVER", "PD_SRC_IN", "PD_DST_IN",
   "PD_SRC_OUT", "PD_DST_OUT", "PD_SRC_ATOP", "PD_DST_ATOP", "PD_XOR"}

\* get_usage_opt() returns -1 for other blendings, raster operations, filters
Supported(ops) ==
  /\ ops.bld \in PorterDuff
  /\ ops.rop \in {"COPY", "AND", "OR", "XOR"}
  /\ ops.scl = "FAST"

\* a slip: flipped both ways is flipped once
FlipOnce(cpy) ==
  CASE cpy = "TRANSLATE" -> {} [] cpy = "FLIP_H_V" -> {"FLIP_H"}
    [] OTHER -> {cpy}

\* IM_HAL_TRANSFORM_*, for a copy that turns or flips
Transform(cpy) == IF cpy = "TRANSLATE" THEN {} ELSE {cpy}

Usage(ops) ==
  Transform(ops.cpy)
    \cup (IF ops.key = "KEY_NONE" THEN {} ELSE {ops.key})
    \cup {ops.bld}
    \cup (IF ops.rop = "COPY" THEN {} ELSE {"ROP"})
    \cup {"SYNC"}

\* im_opt_t: the range of the colour key and the code of the raster operation
Opt(ops) ==
  [range    |-> ops.key # "KEY_NONE",
   rop_code |-> IF "ROP" \in Usage(ops) THEN ops.rop ELSE "none"]

NoOpt == [range |-> FALSE, rop_code |-> "none"]

-----------------------------------------------------------------------------
(* Rectangles of callers and of librga.                                    *)

\* callers clip to the surface
RectsOf(s) == {rc \in Rows : rc.y + rc.h <= Height[s]}

\* a slip: the header is forgotten
NoHeader(rc, s) == rc

\* rc in the buffer of which s tells the number of header lines
BelowHeader(rc, s) == [rc EXCEPT !.y = @ + Lines[s]]

\* the source's header lines are used for the destination, too
SrcRect(c) == BelowHeader(c.src_rc, c.src)
DstRect(c) == BelowHeader(c.dst_rc, c.src)

\* the rows wrap_rga_buffer() told librga of
Fits(rc, s) == s \in Wrapped /\ rc.y + rc.h <= Lines[s] + Height[s]

\* imcheck(): dst_rc, and src_rc if there is a source
ImCheck(j) ==
  /\ Fits(j.dst_rc, j.dst)
  /\ j.usage # {"COLOR_FILL"} => Fits(j.src_rc, j.src)
  /\ j.usage \subseteq Hardware

-----------------------------------------------------------------------------
NoCall == [op |-> "none"]
NoJob  == [usage |-> {}]

\* what an operation asks of librga; a fill has no source to speak of
FillJob(c) ==
  [src |-> c.dst, src_rc |-> c.dst_rc, dst |-> c.dst,
   dst_rc |-> BelowHeader(c.dst_rc, c.dst), usage |-> {"COLOR_FILL"},
   opt |-> NoOpt, alpha |-> 0]

CopyJob(c) ==
  [src |-> c.src, src_rc |-> SrcRect(c), dst |-> c.dst, dst_rc |-> DstRect(c),
   usage |-> Transform(c.cpy) \cup {"SYNC"}, opt |-> NoOpt,
   alpha |-> global_alpha[c.src]]

BlitJob(c) ==
  [src |-> c.src, src_rc |-> SrcRect(c), dst |-> c.dst, dst_rc |-> DstRect(c),
   usage |-> Usage(c.ops), opt |-> Opt(c.ops), alpha |-> global_alpha[c.src]]

Init ==
  /\ global_alpha \in [Surface -> {0}]     \* as wrapbuffer_handle() left it
  /\ pc = "idle" /\ call = NoCall /\ job = NoJob

Return == pc' = "idle" /\ call' = NoCall /\ job' = NoJob

\* fill and copy return at once if a surface has no rga_handle
Enter(c, j) ==
  /\ pc = "idle" /\ {c.src, c.dst} \subseteq Wrapped
  /\ call' = c /\ job' = j /\ pc' = "check"
  /\ UNCHANGED global_alpha

FillRect ==
  \E dst \in Surface : \E rc \in RectsOf(dst) :
    LET c == [op |-> "fill", src |-> dst, dst |-> dst, dst_rc |-> rc]
    IN Enter(c, FillJob(c))

CopyBuff ==
  \E src, dst \in Surface, cpy \in Copies :
    \E src_rc \in RectsOf(src), dst_rc \in RectsOf(dst) :
      LET c == [op |-> "copy", src |-> src, src_rc |-> src_rc, dst |-> dst,
                dst_rc |-> dst_rc, cpy |-> cpy]
      IN Enter(c, CopyJob(c))

BlitCalls(op) ==
  {c \in [op : {op}, src : Surface, src_rc : Rows, dst : Surface,
          dst_rc : Rows, ops : DrmBlitOperations] :
     c.src_rc \in RectsOf(c.src) /\ c.dst_rc \in RectsOf(c.dst)}

\* check_blit() asserts that get_usage_opt() knows the operations
CheckBlit ==
  \E c \in BlitCalls("check_blit") :
    /\ pc = "idle"
    /\ call' = c
    /\ IF Supported(c.ops) THEN job' = BlitJob(c) /\ pc' = "check"
                           ELSE UNCHANGED job /\ pc' = "aborted"
    /\ UNCHANGED global_alpha

\* the blitter check_blit() returned for these surfaces and operations, which
\* may be called for any of their rectangles
Blit ==
  \E c \in BlitCalls("blit") :
    /\ pc = "idle" /\ Supported(c.ops)
    /\ \E a \in RectsOf(c.src), b \in RectsOf(c.dst) :
         ImCheck(BlitJob([c EXCEPT !.src_rc = a, !.dst_rc = b]))
    /\ call' = c /\ job' = BlitJob(c) /\ pc' = "check"
    /\ UNCHANGED global_alpha

-----------------------------------------------------------------------------
\* a slip: a job that librga does not check
CheckNothing == pc = "check" /\ call.op # "check_blit"

\* whether the operation goes on
CheckPassed == pc = "check" /\ call.op # "check_blit" /\ ImCheck(job)

\* imcheck() fails, or check_blit() returns its answer
CheckEnds ==
  /\ pc = "check" /\ ~CheckPassed
  /\ Return
  /\ UNCHANGED global_alpha

\* a slip: without an alpha of its own the source is opaque
AlphaOpaque(c) == IF c.ops.alf = "ALPHA_SET" THEN c.ops.alpha ELSE 255

\* a slip: the alpha of an earlier blit is left
AlphaIfSet(c) == IF c.ops.alf = "ALPHA_SET" THEN c.ops.alpha
                                            ELSE global_alpha[c.src]

AlphaOf(c) == IF c.ops.alf = "ALPHA_SET" THEN c.ops.alpha ELSE -1

\* improcess() takes the source's rectangle first, as imcheck() does, but is
\* given that of the destination first
Swapped(j) == [j EXCEPT !.src_rc = j.dst_rc, !.dst_rc = j.src_rc]

\* imfill(), which has one rectangle
SubmitFill ==
  /\ CheckPassed /\ call.op = "fill"
  /\ pc' = "submitted"
  /\ UNCHANGED <<global_alpha, call, job>>

\* improcess() of a copy: the alpha in the surface goes as it is
SubmitCopy ==
  /\ CheckPassed /\ call.op = "copy"
  /\ job' = Swapped(job)
  /\ pc' = "submitted"
  /\ UNCHANGED <<global_alpha, call>>

\* improcess() of a blit, after global_alpha has been set
SubmitBlit ==
  /\ CheckPassed /\ call.op = "blit"
  /\ global_alpha' = [global_alpha EXCEPT ![call.src] = AlphaOf(call)]
  /\ job' = [Swapped(job) EXCEPT !.alpha = AlphaOf(call)]
  /\ pc' = "submitted"
  /\ UNCHANGED call

\* librga has done the job, or failed; the call returns 0, or -1
Done == pc = "submitted" /\ Return /\ UNCHANGED global_alpha

Next ==
  \/ FillRect \/ CopyBuff \/ CheckBlit \/ Blit
  \/ CheckEnds \/ SubmitFill \/ SubmitCopy \/ SubmitBlit \/ Done

Spec == Init /\ [][Next]_vars

-----------------------------------------------------------------------------
(* Properties.                                                             *)

\* Every variable keeps to its type; what is submitted belongs to a call.
TypeOK ==
  /\ global_alpha \in [Surface -> Alpha \cup {0, -1}]
  /\ pc \in {"idle", "check", "submitted", "aborted"}
  /\ call.op \in {"none", "fill", "copy", "check_blit", "blit"}
  /\ pc = "idle" <=> call = NoCall
  /\ pc \in {"check", "submitted"} <=> job # NoJob
  /\ pc = "submitted" => job.alpha \in Alpha \cup {0, -1}

\* librga is never told to go over rows outside of a surface's memory, nor over
\* a surface it does not know, as long as both surfaces have the same number of
\* rows in all: the destination's rows are moved by the source's header lines
\* and may go too far, which the check finds, and rows that fit one such
\* surface fit the other, in whose place improcess() is given them.
NothingOutside ==
  pc = "submitted" /\ Lines[call.src] + Height[call.src]
                       = Lines[call.dst] + Height[call.dst] =>
    /\ Fits(job.dst_rc, job.dst)
    /\ call.op # "fill" => Fits(job.src_rc, job.src)

\* A fill, and a copy or blit from the same rows of a surface with as many
\* header lines, draws the rows of pixels it was asked to, below the header,
\* and takes them from those.
DrawsWhereAsked ==
  /\ pc = "submitted"
  /\ call.op # "fill" =>
       Lines[call.src] = Lines[call.dst] /\ call.src_rc = call.dst_rc
  =>
  /\ job.dst_rc = [call.dst_rc EXCEPT !.y = @ + Lines[call.dst]]
  /\ call.op # "fill" =>
       job.src_rc = [call.src_rc EXCEPT !.y = @ + Lines[call.src]]

\* A blit takes the alpha it was given, or none, whatever alpha earlier blits
\* have left in the source's rga_buffer, and its usage word and options tell
\* it from every other request (but for its alpha).
BlitIsAsAsked ==
  pc = "submitted" /\ call.op = "blit" =>
    /\ job.alpha = IF call.ops.alf = "ALPHA_SET" THEN call.ops.alpha ELSE -1
    /\ \A cpy \in Copies, key \in Keys, bld \in Blends, rop \in LogicOps :
         LET ops == [call.ops EXCEPT !.cpy = cpy, !.key = key, !.bld = bld,
                                     !.rop = rop]
         IN Supported(ops) /\ Usage(ops) = job.usage /\ Opt(ops) = job.opt =>
              ops = call.ops
=============================================================================
