------------------------- MODULE RockchipBlitProofs -------------------------
(***************************************************************************)
(* Proofs about the rockchip driver's 2D operations for any surfaces,      *)
(* header lines, rectangles and requests.                                  *)
(***************************************************************************)
EXTENDS RockchipBlit, TLAPS

-----------------------------------------------------------------------------
(* The inductive invariant: a job that librga checks is the one its call   *)
(* asks for, and what librga is to do was checked, its rectangles swapped. *)

\* j is the job of c, but for the alpha that is put in late.
IsJobOf(j, c) ==
  /\ j = [src |-> j.src, src_rc |-> j.src_rc, dst |-> c.dst,
          dst_rc |-> DstRect(c), usage |-> j.usage, opt |-> j.opt,
          alpha |-> j.alpha]
  /\ j.alpha \in Alpha \cup {0, -1}
  /\ j.usage # {}
  /\ c.op = "fill" => c.src = c.dst
  /\ c.op # "fill" =>
       j.src = c.src /\ j.src_rc = SrcRect(c) /\ j.usage # {"COLOR_FILL"}

\* The arguments of c are good; those of a blit were found good before.
IsCall(c) ==
  /\ c.op \in {"fill", "copy", "check_blit", "blit"}
  /\ c.src \in Surface /\ c.dst \in Surface
  /\ c.dst_rc \in RectsOf(c.dst)
  /\ c.op # "fill" => c.src_rc \in RectsOf(c.src)
  /\ c.op = "blit" =>
       c.ops \in DrmBlitOperations /\ {c.src, c.dst} \subseteq Wrapped

\* What librga was asked to check before it was given j to do.
AsChecked(j, c) == IF c.op = "fill" THEN j ELSE Swapped(j)

Prepared ==
  /\ pc \in {"check", "submitted"} => IsCall(call)
  /\ pc = "check" => IsJobOf(job, call)
  /\ pc = "submitted" =>
       /\ call.op # "check_blit"
       /\ IsJobOf(AsChecked(job, call), call)
       /\ ImCheck(AsChecked(job, call))

IInv == TypeOK /\ Prepared

-----------------------------------------------------------------------------
\* The operations and rectangles have the fields that are taken from them.
LEMMA Shapes ==
  /\ \A s \in Surface : Lines[s] \in Nat /\ Height[s] \in Nat
  /\ \A s \in Surface : \A rc \in RectsOf(s) :
       /\ rc.y \in Nat /\ rc.h \in Nat /\ rc.y + rc.h <= Height[s]
       /\ rc = [y |-> rc.y, h |-> rc.h]
<1>1. \A s \in Surface : Lines[s] \in Nat /\ Height[s] \in Nat
  BY BlitAssumption
<1>2. \A rc \in Rows : rc \in [y : Nat, h : Nat \ {0}]
  BY BlitAssumption
<1> QED
  BY <1>1, <1>2 DEF RectsOf

\* The usage word of a copy or a blit is not that of a fill.
LEMMA UsageIsNoFill ==
  /\ \A ops : Usage(ops) # {} /\ Usage(ops) # {"COLOR_FILL"}
  /\ \A cpy : LET u == Transform(cpy) \cup {"SYNC"}
              IN  u # {} /\ u # {"COLOR_FILL"}
<1>1. \A ops : "SYNC" \in Usage(ops)
  BY DEF Usage
<1> QED
  BY <1>1

\* The alpha a blit sets is one.
LEMMA AlphaIsTyped ==
  ASSUME NEW c, c.ops \in DrmBlitOperations
  PROVE  AlphaOf(c) \in Alpha \cup {0, -1}
BY DEF AlphaOf, DrmBlitOperations

\* The initial state satisfies the invariant.
LEMMA InitInv == Init => IInv
BY DEF Init, IInv, TypeOK, Prepared, NoCall, NoJob

\* A call that starts with a job of its own keeps the invariant.
LEMMA Started ==
  ASSUME IInv, NEW c, NEW j, IsCall(c), IsJobOf(j, c),
         call' = c, job' = j, pc' = "check", UNCHANGED global_alpha
  PROVE  IInv'
<1>1. c # NoCall /\ j # NoJob
  BY DEF IsCall, IsJobOf, NoCall, NoJob
<1>2. TypeOK'
  BY <1>1 DEF IInv, TypeOK, IsCall
<1>3. Prepared'
  BY DEF Prepared, IsCall, IsJobOf, DstRect, SrcRect, BelowHeader, RectsOf, DrmBlitOperations
<1> QED
  BY <1>2, <1>3 DEF IInv

\* fill_rect() keeps the invariant.
LEMMA FillStep == IInv /\ FillRect => IInv'
<1> SUFFICES ASSUME IInv, NEW dst \in Surface, NEW rc \in RectsOf(dst),
                    LET c == [op |-> "fill", src |-> dst, dst |-> dst, dst_rc |-> rc]
                    IN  Enter(c, FillJob(c))
             PROVE  IInv'
  BY DEF FillRect
<1> DEFINE c == [op |-> "fill", src |-> dst, dst |-> dst, dst_rc |-> rc]
<1>1. IsCall(c)
  BY DEF IsCall
<1>2. IsJobOf(FillJob(c), c)
  BY DEF IsJobOf, FillJob, DstRect
<1>3. call' = c /\ job' = FillJob(c) /\ pc' = "check" /\ UNCHANGED global_alpha
  BY DEF Enter
<1> HIDE DEF c
<1> QED
  BY <1>1, <1>2, <1>3, Started

\* copy_buff() keeps the invariant.
LEMMA CopyStep == IInv /\ CopyBuff => IInv'
<1> SUFFICES ASSUME IInv, NEW src \in Surface, NEW dst \in Surface,
                    NEW cpy \in Copies, NEW src_rc \in RectsOf(src),
                    NEW dst_rc \in RectsOf(dst),
                    LET c == [op |-> "copy", src |-> src, src_rc |-> src_rc,
                              dst |-> dst, dst_rc |-> dst_rc, cpy |-> cpy]
                    IN  Enter(c, CopyJob(c))
             PROVE  IInv'
  BY DEF CopyBuff
<1> DEFINE c == [op |-> "copy", src |-> src, src_rc |-> src_rc,
                 dst |-> dst, dst_rc |-> dst_rc, cpy |-> cpy]
<1>1. IsCall(c)
  BY DEF IsCall
<1>2. global_alpha[src] \in Alpha \cup {0, -1}
  BY DEF IInv, TypeOK
<1>3. IsJobOf(CopyJob(c), c)
  BY <1>2, UsageIsNoFill DEF IsJobOf, CopyJob
<1>4. call' = c /\ job' = CopyJob(c) /\ pc' = "check" /\ UNCHANGED global_alpha
  BY DEF Enter
<1> HIDE DEF c
<1> QED
  BY <1>1, <1>3, <1>4, Started

\* A call of check_blit() or the blitter is one, and BlitJob is its job.
LEMMA BlitCallIsCall ==
  ASSUME IInv, NEW op \in {"check_blit", "blit"}, NEW c \in BlitCalls(op),
         op = "blit" => {c.src, c.dst} \subseteq Wrapped
  PROVE  IsCall(c) /\ IsJobOf(BlitJob(c), c)
<1>2. /\ c.op = op /\ c.src \in Surface /\ c.dst \in Surface
      /\ c.src_rc \in RectsOf(c.src) /\ c.dst_rc \in RectsOf(c.dst)
      /\ c.ops \in DrmBlitOperations
  BY DEF BlitCalls
<1>3. IsCall(c)
  BY <1>2 DEF IsCall
<1>4. global_alpha[c.src] \in Alpha \cup {0, -1}
  BY <1>2 DEF IInv, TypeOK
<1>5. IsJobOf(BlitJob(c), c)
  BY <1>2, <1>4, UsageIsNoFill DEF IsJobOf, BlitJob
<1> QED
  BY <1>3, <1>5

\* check_blit() keeps the invariant, whether its assertion fails or not.
LEMMA CheckBlitStep == IInv /\ CheckBlit => IInv'
<1> SUFFICES ASSUME IInv, NEW c \in BlitCalls("check_blit"),
                    /\ pc = "idle"
                    /\ call' = c
                    /\ IF Supported(c.ops)
                       THEN job' = BlitJob(c) /\ pc' = "check"
                       ELSE UNCHANGED job /\ pc' = "aborted"
                    /\ UNCHANGED global_alpha
             PROVE  IInv'
  BY DEF CheckBlit
<1>1. IsCall(c) /\ IsJobOf(BlitJob(c), c)
  BY BlitCallIsCall
<1>2. CASE Supported(c.ops)
  BY <1>1, <1>2, Started
<1>3. CASE ~Supported(c.ops)
  <2>1. c # NoCall /\ c.op = "check_blit"
    BY DEF BlitCalls, NoCall
  <2> QED
    BY <1>3, <2>1 DEF IInv, TypeOK, Prepared
<1> QED
  BY <1>2, <1>3

\* The blitter keeps the invariant: what check_blit() found good for other
\* rectangles of the two surfaces says that RGA knows them.
LEMMA BlitStep == IInv /\ Blit => IInv'
<1> SUFFICES ASSUME IInv, NEW c \in BlitCalls("blit"),
                    NEW a \in RectsOf(c.src), NEW b \in RectsOf(c.dst),
                    ImCheck(BlitJob([c EXCEPT !.src_rc = a, !.dst_rc = b])),
                    call' = c, job' = BlitJob(c), pc' = "check",
                    UNCHANGED global_alpha
             PROVE  IInv'
  BY DEF Blit
<1>1. c \in [op : {"blit"}, src : Surface, src_rc : Rows, dst : Surface,
              dst_rc : Rows, ops : DrmBlitOperations]
  BY DEF BlitCalls
<1> DEFINE d == [c EXCEPT !.src_rc = a, !.dst_rc = b]
<1>2. d.src = c.src /\ d.dst = c.dst /\ d.ops = c.ops
  BY <1>1
<1>3. /\ BlitJob(d).src = c.src /\ BlitJob(d).dst = c.dst
      /\ BlitJob(d).usage # {"COLOR_FILL"}
  BY <1>2, UsageIsNoFill DEF BlitJob
<1>4. {c.src, c.dst} \subseteq Wrapped
  BY <1>3 DEF ImCheck, Fits
<1> QED
  BY <1>4, BlitCallIsCall, Started

\* A call that returns keeps the invariant.
LEMMA ReturnStep == IInv /\ Return /\ UNCHANGED global_alpha => IInv'
BY DEF IInv, TypeOK, Prepared, Return, NoCall, NoJob

\* A job that is handed over as it was checked, but for the alpha and for its
\* rectangles changing places, keeps the invariant.
LEMMA Submitted ==
  ASSUME IInv, CheckPassed, NEW j, NEW a \in Alpha \cup {0, -1},
         j = IF call.op = "fill" THEN [job EXCEPT !.alpha = a]
                                 ELSE [Swapped(job) EXCEPT !.alpha = a],
         job' = j, call' = call, pc' = "submitted",
         global_alpha' \in [Surface -> Alpha \cup {0, -1}]
  PROVE  IInv'
<1>1. /\ pc = "check" /\ call.op # "check_blit" /\ ImCheck(job)
      /\ IsCall(call) /\ IsJobOf(job, call)
  BY DEF IInv, Prepared, CheckPassed
<1> DEFINE k == AsChecked(j, call)
<1>2. job = [src |-> job.src, src_rc |-> job.src_rc, dst |-> job.dst,
             dst_rc |-> job.dst_rc, usage |-> job.usage, opt |-> job.opt,
             alpha |-> job.alpha]
  BY <1>1 DEF IsJobOf
<1>3. k = [src |-> job.src, src_rc |-> job.src_rc, dst |-> job.dst,
           dst_rc |-> job.dst_rc, usage |-> job.usage, opt |-> job.opt,
           alpha |-> a]
  <2>1. CASE call.op = "fill"
    BY <1>2, <2>1 DEF AsChecked
  <2>2. CASE call.op # "fill"
    BY <1>2, <2>2 DEF AsChecked, Swapped
  <2> QED
    BY <2>1, <2>2
<1>4. j.alpha = a /\ j.usage = job.usage /\ j.usage # {} /\ j # NoJob
  <2>1. CASE call.op = "fill"
    BY <1>1, <1>2, <2>1 DEF IsJobOf, NoJob
  <2>2. CASE call.op # "fill"
    BY <1>1, <1>2, <2>2 DEF IsJobOf, NoJob, Swapped
  <2> QED
    BY <2>1, <2>2
<1> HIDE DEF k
<1>5. IsJobOf(k, call) /\ ImCheck(k)
  BY <1>1, <1>2, <1>3 DEF IsJobOf, ImCheck, Fits
<1>6. TypeOK'
  BY <1>1, <1>4 DEF IInv, TypeOK
<1>7. IsCall(call)' /\ IsJobOf(AsChecked(job, call), call)'
      /\ ImCheck(AsChecked(job, call))'
  BY <1>1, <1>5 DEF k, IsCall, IsJobOf, AsChecked, Swapped, ImCheck, Fits,
     DstRect, SrcRect, BelowHeader, RectsOf, DrmBlitOperations
<1> QED
  BY <1>1, <1>6, <1>7 DEF IInv, Prepared

\* imfill() keeps the invariant.
LEMMA SubmitFillStep == IInv /\ SubmitFill => IInv'
<1> SUFFICES ASSUME IInv, SubmitFill PROVE IInv'
  OBVIOUS
<1>1. IsJobOf(job, call) /\ CheckPassed /\ call.op = "fill"
  BY DEF IInv, Prepared, SubmitFill, CheckPassed
<1>2. job.alpha \in Alpha \cup {0, -1} /\ job = [job EXCEPT !.alpha = job.alpha]
  BY <1>1 DEF IsJobOf
<1> QED
  BY <1>1, <1>2, Submitted DEF SubmitFill, IInv, TypeOK

\* improcess() of a copy keeps the invariant.
LEMMA SubmitCopyStep == IInv /\ SubmitCopy => IInv'
<1> SUFFICES ASSUME IInv, SubmitCopy PROVE IInv'
  OBVIOUS
<1>1. IsJobOf(job, call) /\ CheckPassed /\ call.op = "copy"
  BY DEF IInv, Prepared, SubmitCopy, CheckPassed
<1>2. job.alpha \in Alpha \cup {0, -1}
      /\ Swapped(job) = [Swapped(job) EXCEPT !.alpha = job.alpha]
  BY <1>1 DEF IsJobOf, Swapped
<1> QED
  BY <1>1, <1>2, Submitted DEF SubmitCopy, IInv, TypeOK

\* improcess() of a blit keeps the invariant: the alpha is put in.
LEMMA SubmitBlitStep == IInv /\ SubmitBlit => IInv'
<1> SUFFICES ASSUME IInv, SubmitBlit PROVE IInv'
  OBVIOUS
<1>1. /\ IsCall(call) /\ CheckPassed /\ call.op = "blit"
      /\ AlphaOf(call) \in Alpha \cup {0, -1}
  BY AlphaIsTyped DEF IInv, Prepared, SubmitBlit, CheckPassed, IsCall
<1>2. global_alpha' \in [Surface -> Alpha \cup {0, -1}]
  BY <1>1 DEF IInv, TypeOK, SubmitBlit
<1> QED
  BY <1>1, <1>2, Submitted DEF SubmitBlit

\* Every step keeps the invariant.
LEMMA NextInv == IInv /\ [Next]_vars => IInv'
<1> SUFFICES ASSUME IInv, [Next]_vars PROVE IInv'
  OBVIOUS
<1>1. CASE FillRect
  BY <1>1, FillStep
<1>2. CASE CopyBuff
  BY <1>2, CopyStep
<1>3. CASE CheckBlit
  BY <1>3, CheckBlitStep
<1>4. CASE Blit
  BY <1>4, BlitStep
<1>5. CASE CheckEnds
  BY <1>5, ReturnStep DEF CheckEnds
<1>6. CASE SubmitFill
  BY <1>6, SubmitFillStep
<1>7. CASE SubmitCopy
  BY <1>7, SubmitCopyStep
<1>8. CASE SubmitBlit
  BY <1>8, SubmitBlitStep
<1>9. CASE Done
  BY <1>9, ReturnStep DEF Done
<1>10. CASE UNCHANGED vars
  BY <1>10 DEF vars, IInv, TypeOK, Prepared, IsCall, IsJobOf, AsChecked,
     Swapped, ImCheck, Fits, DstRect, SrcRect, BelowHeader, RectsOf,
     DrmBlitOperations
<1> QED
  BY <1>1, <1>2, <1>3, <1>4, <1>5, <1>6, <1>7, <1>8, <1>9, <1>10 DEF Next

-----------------------------------------------------------------------------
\* The inductive invariant holds in every reachable state.
THEOREM Invariance == Spec => []IInv
BY InitInv, NextInv, PTL DEF Spec

\* Every variable keeps to its type.
THEOREM TypeCorrect == Spec => []TypeOK
<1>1. IInv => TypeOK
  BY DEF IInv
<1> QED
  BY <1>1, Invariance, PTL

\* The rectangles of a job that librga is given to do.
LEMMA Rectangles ==
  ASSUME IInv, pc = "submitted"
  PROVE  /\ IsCall(call) /\ job.dst = call.dst
         /\ call.op = "fill" => /\ job.dst_rc = DstRect(call)
                                /\ call.src = call.dst
                                /\ Fits(job.dst_rc, job.dst)
         /\ call.op # "fill" =>
              /\ job.src = call.src
              /\ job.src_rc = DstRect(call) /\ Fits(job.src_rc, call.dst)
              /\ job.dst_rc = SrcRect(call) /\ Fits(job.dst_rc, call.src)
<1> DEFINE k == AsChecked(job, call)
<1>1. IsCall(call) /\ IsJobOf(k, call) /\ ImCheck(k) /\ job # NoJob
  BY DEF IInv, TypeOK, Prepared
<1>2. CASE call.op = "fill"
  BY <1>1, <1>2 DEF AsChecked, IsJobOf, ImCheck
<1>3. CASE call.op # "fill"
  <2>1. k = Swapped(job)
    BY <1>3 DEF AsChecked
  <2>2. /\ DOMAIN k = {"src", "src_rc", "dst", "dst_rc", "usage", "opt", "alpha"}
        /\ k.src = call.src /\ k.src_rc = SrcRect(call)
        /\ k.dst = call.dst /\ k.dst_rc = DstRect(call)
        /\ Fits(k.dst_rc, k.dst) /\ Fits(k.src_rc, k.src)
    BY <1>1, <1>3 DEF IsJobOf, ImCheck
  <2>3. DOMAIN job = DOMAIN k
    BY <2>1 DEF Swapped
  <2>4. /\ k.src = job.src /\ k.dst = job.dst
        /\ k.src_rc = job.dst_rc /\ k.dst_rc = job.src_rc
    BY <2>1, <2>2, <2>3 DEF Swapped
  <2> QED
    BY <1>1, <1>3, <2>2, <2>4
<1> QED
  BY <1>2, <1>3

\* The rows of a job lie in the memory of its surfaces, which RGA knows: the
\* check found that the rectangles fit the surface they were meant for, and the
\* other one has as many rows.
LEMMA InvInside == IInv => NothingOutside
<1> SUFFICES ASSUME IInv, pc = "submitted",
                    Lines[call.src] + Height[call.src]
                      = Lines[call.dst] + Height[call.dst]
             PROVE  /\ Fits(job.dst_rc, job.dst)
                    /\ call.op # "fill" => Fits(job.src_rc, job.src)
  BY DEF NothingOutside, Fits
<1> QED
  BY Rectangles DEF Fits

\* librga is never told to go over rows outside of a surface's memory.
THEOREM Inside == Spec => []NothingOutside
BY InvInside, Invariance, PTL

\* Where the rectangles are the same it does not matter that they are swapped.
LEMMA InvAsAsked == IInv => DrawsWhereAsked
<1> SUFFICES ASSUME IInv, pc = "submitted",
                    call.op # "fill" => /\ Lines[call.src] = Lines[call.dst]
                                        /\ call.src_rc = call.dst_rc
             PROVE  /\ job.dst_rc = [call.dst_rc EXCEPT !.y = @ + Lines[call.dst]]
                    /\ call.op # "fill" =>
                         job.src_rc = [call.src_rc EXCEPT !.y = @ + Lines[call.src]]
  BY DEF DrawsWhereAsked
<1> QED
  BY Rectangles DEF SrcRect, DstRect, BelowHeader

\* A fill, and a copy or blit in place, draws where it was asked.
THEOREM AsAsked == Spec => []DrawsWhereAsked
BY InvAsAsked, Invariance, PTL
-----------------------------------------------------------------------------
(* What a blit asks for can be told from what librga gets.                 *)

Transforms == {"ROT_90", "ROT_180", "ROT_270", "FLIP_H", "FLIP_V", "FLIP_H_V"}

\* The flags of a usage word: each part of the request has flags of its own.
LEMMA UsageFlags ==
  ASSUME NEW ops, ops.cpy \in Copies, ops.key \in Keys, Supported(ops)
  PROVE  /\ \A x \in Transforms : x \in Usage(ops) <=> x = ops.cpy
         /\ \A x \in {"KEY_NORMAL", "KEY_INVERTED"} :
              x \in Usage(ops) <=> x = ops.key
         /\ \A x \in PorterDuff : x \in Usage(ops) <=> x = ops.bld
         /\ "ROP" \in Usage(ops) <=> ops.rop # "COPY"
<1>1. /\ ops.cpy \in Transforms \cup {"TRANSLATE"}
      /\ ops.key \in {"KEY_NONE", "KEY_NORMAL", "KEY_INVERTED"}
      /\ ops.bld \in PorterDuff
  BY OperationAssumption DEF Transforms, Supported
<1>2. \A x : x \in Usage(ops) <=>
        \/ x = ops.cpy /\ x # "TRANSLATE"
        \/ x = ops.key /\ x # "KEY_NONE"
        \/ x = ops.bld
        \/ x = "ROP" /\ ops.rop # "COPY"
        \/ x = "SYNC"
  BY DEF Usage, Transform
<1>3. \A x \in Transforms :
        /\ x \notin {"TRANSLATE", "KEY_NONE", "KEY_NORMAL", "KEY_INVERTED",
                     "ROP", "SYNC"}
        /\ x \notin PorterDuff
  BY DEF Transforms, PorterDuff
<1>4. \A x \in PorterDuff :
        x \notin {"TRANSLATE", "KEY_NONE", "KEY_NORMAL", "KEY_INVERTED",
                  "ROP", "SYNC"}
  BY DEF PorterDuff
<1>5. {"KEY_NORMAL", "KEY_INVERTED"} \cap
        {"TRANSLATE", "KEY_NONE", "ROP", "SYNC"} = {} /\ "ROP" # "SYNC"
        /\ "ROP" \notin {"TRANSLATE", "KEY_NONE", "KEY_NORMAL", "KEY_INVERTED"}
  OBVIOUS
<1> HIDE DEF Transforms, PorterDuff
<1>6. \A x \in Transforms : x \in Usage(ops) <=> x = ops.cpy
  BY <1>1, <1>2, <1>3
<1>7. \A x \in {"KEY_NORMAL", "KEY_INVERTED"} : x \in Usage(ops) <=> x = ops.key
  BY <1>1, <1>2, <1>3, <1>4, <1>5
<1>8. \A x \in PorterDuff : x \in Usage(ops) <=> x = ops.bld
  BY <1>1, <1>2, <1>3, <1>4
<1>9. "ROP" \in Usage(ops) <=> ops.rop # "COPY"
  BY <1>1, <1>2, <1>3, <1>4, <1>5
<1> QED
  BY <1>6, <1>7, <1>8, <1>9

\* Two requests with the same usage word and options are the same, but for
\* their alpha.
LEMMA UsageTells ==
  ASSUME NEW a, NEW b, a.cpy \in Copies, a.key \in Keys, Supported(a),
         b.cpy \in Copies, b.key \in Keys, Supported(b),
         Usage(a) = Usage(b), Opt(a) = Opt(b)
  PROVE  a.cpy = b.cpy /\ a.key = b.key /\ a.bld = b.bld /\ a.rop = b.rop
<1>1. a.cpy = b.cpy
  <2>1. a.cpy \in Transforms \cup {"TRANSLATE"} /\ b.cpy \in Transforms \cup {"TRANSLATE"}
    BY OperationAssumption DEF Transforms
  <2>2. \A x \in Transforms : x = a.cpy <=> x = b.cpy
    BY UsageFlags
  <2> QED
    BY <2>1, <2>2
<1>2. a.key = b.key
  <2>1. a.key \in {"KEY_NONE", "KEY_NORMAL", "KEY_INVERTED"} /\
        b.key \in {"KEY_NONE", "KEY_NORMAL", "KEY_INVERTED"}
    BY OperationAssumption
  <2>2. \A x \in {"KEY_NORMAL", "KEY_INVERTED"} : x = a.key <=> x = b.key
    BY UsageFlags
  <2> QED
    BY <2>1, <2>2
<1>3. a.bld = b.bld
  <2>1. \A x \in PorterDuff : x = a.bld <=> x = b.bld
    BY UsageFlags
  <2> QED
    BY <2>1 DEF Supported
<1>4. a.rop = b.rop
  <2>1. a.rop # "COPY" <=> b.rop # "COPY"
    BY UsageFlags
  <2>2. Opt(a).rop_code = Opt(b).rop_code
    OBVIOUS
  <2>3. /\ a.rop # "COPY" => Opt(a).rop_code = a.rop
        /\ b.rop # "COPY" => Opt(b).rop_code = b.rop
    BY UsageFlags DEF Opt
  <2> QED
    BY <2>1, <2>2, <2>3
<1> QED
  BY <1>1, <1>2, <1>3, <1>4

\* The job of a blit, and the alpha it is submitted with.
BlitPrepared ==
  call.op = "blit" /\ pc \in {"check", "submitted"} =>
    /\ job.usage = Usage(call.ops) /\ job.opt = Opt(call.ops)
    /\ Supported(call.ops)
    /\ pc = "submitted" => job.alpha = AlphaOf(call)

\* Every step keeps that.
LEMMA BlitPreparedNext == IInv /\ BlitPrepared /\ [Next]_vars => BlitPrepared'
<1> SUFFICES ASSUME IInv, BlitPrepared, [Next]_vars,
                    call'.op = "blit", pc' \in {"check", "submitted"}
             PROVE  /\ job'.usage = Usage(call'.ops) /\ job'.opt = Opt(call'.ops)
                    /\ Supported(call'.ops)
                    /\ pc' = "submitted" => job'.alpha = AlphaOf(call')
  BY DEF BlitPrepared, Usage, Opt, Transform, Supported, AlphaOf
<1>1. CASE Blit
  <2>1. /\ Supported(call'.ops) /\ pc' = "check"
        /\ job'.usage = Usage(call'.ops) /\ job'.opt = Opt(call'.ops)
    BY <1>1 DEF Blit, BlitJob
  <2> QED
    BY <2>1
<1>2. CASE SubmitBlit
  <2>1. /\ call' = call /\ call.op = "blit" /\ pc = "check"
        /\ IsJobOf(job, call)
        /\ job' = [Swapped(job) EXCEPT !.alpha = AlphaOf(call)]
    BY <1>2 DEF SubmitBlit, CheckPassed, IInv, Prepared
  <2>2. /\ job'.usage = job.usage /\ job'.opt = job.opt
        /\ job'.alpha = AlphaOf(call)
    BY <2>1 DEF IsJobOf, Swapped
  <2> QED
    BY <2>1, <2>2 DEF BlitPrepared
<1>3. CASE UNCHANGED vars
  BY <1>3 DEF vars, BlitPrepared
<1>4. CASE FillRect \/ CopyBuff \/ CheckBlit
  <2>1. CASE FillRect
    <3>1. PICK dst \in Surface :
            \E rc \in RectsOf(dst) :
              call' = [op |-> "fill", src |-> dst, dst |-> dst, dst_rc |-> rc]
      BY <2>1 DEF FillRect, Enter
    <3> QED
      BY <3>1
  <2>2. CASE CopyBuff
    <3>1. call'.op = "copy"
      <4>1. PICK src \in Surface, dst \in Surface, cpy \in Copies :
              \E src_rc \in RectsOf(src), dst_rc \in RectsOf(dst) :
                call' = [op |-> "copy", src |-> src, src_rc |-> src_rc,
                         dst |-> dst, dst_rc |-> dst_rc, cpy |-> cpy]
        BY <2>2 DEF CopyBuff, Enter
      <4> QED
        BY <4>1
    <3> QED
      BY <3>1
  <2>3. CASE CheckBlit
    <3>1. PICK c \in BlitCalls("check_blit") : call' = c
      BY <2>3 DEF CheckBlit
    <3>2. c.op = "check_blit"
      BY DEF BlitCalls
    <3> QED
      BY <3>1, <3>2
  <2> QED
    BY <1>4, <2>1, <2>2, <2>3
<1>5. CASE CheckEnds \/ Done
  BY <1>5 DEF CheckEnds, Done, Return
<1>6. CASE SubmitFill \/ SubmitCopy
  BY <1>6 DEF SubmitFill, SubmitCopy
<1> QED
  BY <1>1, <1>2, <1>3, <1>4, <1>5, <1>6 DEF Next

\* A blit reaches librga with the alpha, usage word and options it asks for.
THEOREM BlitAsAsked == Spec => []BlitIsAsAsked
<1>1. Init => BlitPrepared
  BY DEF Init, NoCall, BlitPrepared
<1>2. IInv /\ BlitPrepared => BlitIsAsAsked
  <2> SUFFICES ASSUME IInv, BlitPrepared, pc = "submitted", call.op = "blit"
               PROVE  /\ job.alpha = IF call.ops.alf = "ALPHA_SET"
                                     THEN call.ops.alpha ELSE -1
                      /\ \A cpy \in Copies, key \in Keys, bld \in Blends,
                            rop \in LogicOps :
                           LET ops == [call.ops EXCEPT !.cpy = cpy, !.key = key,
                                                       !.bld = bld, !.rop = rop]
                           IN Supported(ops) /\ Usage(ops) = job.usage
                                /\ Opt(ops) = job.opt => ops = call.ops
    BY DEF BlitIsAsAsked
  <2>1. /\ job.usage = Usage(call.ops) /\ job.opt = Opt(call.ops)
        /\ Supported(call.ops) /\ job.alpha = AlphaOf(call)
    BY DEF BlitPrepared
  <2>2. call.ops \in DrmBlitOperations
    BY DEF IInv, Prepared, IsCall
  <2>3. ASSUME NEW cpy \in Copies, NEW key \in Keys, NEW bld \in Blends,
               NEW rop \in LogicOps,
               LET ops == [call.ops EXCEPT !.cpy = cpy, !.key = key,
                                           !.bld = bld, !.rop = rop]
               IN Supported(ops) /\ Usage(ops) = job.usage /\ Opt(ops) = job.opt
        PROVE  [call.ops EXCEPT !.cpy = cpy, !.key = key,
                                !.bld = bld, !.rop = rop] = call.ops
    <3> DEFINE ops == [call.ops EXCEPT !.cpy = cpy, !.key = key,
                                       !.bld = bld, !.rop = rop]
    <3>1. /\ ops.cpy = cpy /\ ops.key = key /\ ops.bld = bld /\ ops.rop = rop
          /\ call.ops.cpy \in Copies /\ call.ops.key \in Keys
      BY <2>2 DEF DrmBlitOperations
    <3>2. Supported(ops) /\ Usage(ops) = Usage(call.ops) /\ Opt(ops) = Opt(call.ops)
      BY <2>1, <2>3
    <3> HIDE DEF ops
    <3>3. /\ cpy = call.ops.cpy /\ key = call.ops.key
          /\ bld = call.ops.bld /\ rop = call.ops.rop
      BY <2>1, <3>1, <3>2, UsageTells
    <3> QED
      BY <2>2, <3>3 DEF DrmBlitOperations
  <2> QED
    BY <2>1, <2>3 DEF AlphaOf
<1> QED
  BY <1>1, <1>2, BlitPreparedNext, Invariance, PTL DEF Spec
=============================================================================
