--------------------------- MODULE LayoutExchange ----------------------------
(***************************************************************************)
(* How the layout of a surface crosses from the process that creates it to *)
(* one that imports it.  Every driver computes the layout of a new buffer  *)
(* from a format, a header size, a width and a height; the importer is     *)
(* told these, the pitch and perhaps the size, and its own driver's        *)
(* check_format_size() decides whether they fit together.                  *)
(*                                                                         *)
(* The size a surface has in the rockchip and vmwgfx drivers is the one    *)
(* that was computed; in the i915 driver it is that of libdrm's bo, which  *)
(* is rounded up to pages or more.                                         *)
(***************************************************************************)
EXTENDS SurfaceLayout

CONSTANTS
  Format,         \* pixel formats that are asked for
  Hdr,            \* header sizes in bytes
  Width, Height,  \* extents in pixels
  BoSize          \* BoSize[n]: bo->size of a bo that was asked for with n bytes

ASSUME RequestAssumption ==
  Hdr \subseteq Nat /\ Width \subseteq Nat /\ Height \subseteq Nat

ASSUME BoSizeAssumption ==
  \A n \in 0 .. Word - 1 : BoSize[n] \in Nat /\ BoSize[n] >= n

VARIABLES
  driver,   \* the driver of both processes
  req,      \* the arguments of create_buffer()
  made,     \* the layout create_buffer() gave the surface, or NoLayout
  claim,    \* what the importer passes to create_buffer_from_*()
  verdict   \* what check_format_size() said: "ok" or "bad"; "none" before

vars == <<driver, req, made, claim, verdict>>

Driver == {"rockchip", "i915", "vmwgfx"}

CppIn(d, fmt) == IF d = "rockchip" THEN RockchipCpp(fmt) ELSE HelperCpp(fmt)

\* the alignment of a line; the blitter of i915 wants 256 bytes
Align(d) == IF d = "i915" THEN 256 ELSE 4

NoLayout == [pitch |-> 0, lines |-> 0, size |-> 0]

Request == [fmt : Format, hdr : Hdr, width : Width, height : Height]

\* base.size of a surface for which n bytes were asked for
RecordedSize(d, n) == IF d = "i915" THEN BoSize[n] ELSE n

Layout(d, r) ==
  LET pitch == PitchOf(r.width, CppIn(d, r.fmt), Align(d))
      lines == HeaderLines(r.hdr, pitch)
  IN [pitch |-> pitch, lines |-> lines,
      size |-> RecordedSize(d, SizeOf(lines, r.height, pitch))]

NoClaim == [hdr |-> 0, height |-> 0, size |-> 0]

Init ==
  /\ driver \in Driver /\ req \in Request
  /\ made = NoLayout /\ claim = NoClaim /\ verdict = "none"

\* create_buffer() for a surface of some width (with a header, a pitch of 0
\* divides by zero); only the rockchip driver looks at the size
Create ==
  /\ made = NoLayout
  /\ CppIn(driver, req.fmt) # 0
  /\ PitchOf(req.width, CppIn(driver, req.fmt), Align(driver)) # 0
  /\ made' = Layout(driver, req)
  /\ driver = "rockchip" => made'.size # 0
  /\ UNCHANGED <<driver, req, claim, verdict>>

\* the importer has the pitch and the size of the surface from its creator, or
\* not the size; it may be mistaken in the header size or the height
Import ==
  /\ made # NoLayout /\ driver # "vmwgfx"
  /\ \E hdr \in Hdr, height \in Height, size \in {0, made.size} :
       /\ claim' = [hdr |-> hdr, height |-> height, size |-> size]
       /\ verdict' = IF FormatSizeOk(size, CppIn(driver, req.fmt), hdr,
                          req.width, height, made.pitch, Align(driver))
                     THEN "ok" ELSE "bad"
  /\ UNCHANGED <<driver, req, made>>

Next == Create \/ Import

Spec == Init /\ [][Next]_vars

-----------------------------------------------------------------------------
(* Properties.                                                             *)

\* nothing was lost to the width of uint32_t in the pitch of the surface, nor
\* in the size of one with this pitch, header size and height
NoWrap(hdr, height) ==
  /\ req.width * CppIn(driver, req.fmt) + Align(driver) - 1 < Word
  /\ (height + HeaderLines(hdr, made.pitch)) * made.pitch < Word

\* the surface was given a size other than the one that was computed
RoundedUp ==
  driver = "i915" /\ made.size # SizeOf(made.lines, req.height, made.pitch)

\* A layout has room for everything: a line for its pixels, the header lines
\* for the header, the object for both; no line is wasted, but what libdrm
\* rounds up, and lines begin where the hardware can address them.
HasRoom ==
  made # NoLayout /\ NoWrap(req.hdr, req.height) =>
    /\ made.pitch % Align(driver) = 0
    /\ req.width * CppIn(driver, req.fmt) <= made.pitch
    /\ made.lines * made.pitch \in req.hdr .. req.hdr + made.pitch - 1
    /\ made.size >= (made.lines + req.height) * made.pitch
    /\ ~RoundedUp => made.size = (made.lines + req.height) * made.pitch

\* An importer that passes on what the creator used is turned down only by the
\* i915 driver, and there always if it passes on a size that libdrm rounded up:
\* check_format_size() compares it with the one computed.  A layout that
\* wrapped around is no reason.
HonestClaimAccepted ==
  verdict # "none" /\ claim.hdr = req.hdr /\ claim.height = req.height =>
    (verdict = "bad" <=> RoundedUp /\ claim.size # 0)

\* A claim that is accepted with the creator's size is for rows that the object
\* has; and for as many as the creator's, whatever the importer mistook, unless
\* the size was rounded up (and the claim is for lines that fill it).
SizeCatchesMistakes ==
  LET lines == HeaderLines(claim.hdr, made.pitch) + claim.height IN
  verdict = "ok" /\ claim.size # 0 /\ NoWrap(req.hdr, req.height)
    /\ NoWrap(claim.hdr, claim.height)
  =>
  /\ lines * made.pitch <= made.size
  /\ ~RoundedUp => lines = made.lines + req.height
=============================================================================
