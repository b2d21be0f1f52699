---------------------------- MODULE SurfaceLayout ----------------------------
(***************************************************************************)
(* The geometry of a surface buffer: how the drivers derive the pitch, the *)
(* number of header lines, the pixel offset and the size of the buffer     *)
(* object from a pixel format, a header size, a width and a height.        *)
(*                                                                         *)
(* The C code computes in uint32_t.  Word is the modulus of that type      *)
(* (2^32 in the program): every sum and product below is reduced by it.    *)
(***************************************************************************)
EXTENDS Integers

CONSTANT Word   \* number of values of the unsigned type of the computation

ASSUME WordAssumption == Word \in Nat \ {0}

Wrap(n) == n % Word

-----------------------------------------------------------------------------
(* Pixel formats.  Each driver knows a set of formats and, for each, the   *)
(* bytes per pixel; 0 stands for an unsupported format.                    *)

Packed4444 == {"ARGB4444", "ABGR4444", "RGBA4444", "BGRA4444"}
Opaque4444 == {"XRGB4444", "XBGR4444", "RGBX4444", "BGRX4444"}
Packed8888 == {"XRGB8888", "XBGR8888", "RGBX8888", "BGRX8888",
               "ARGB8888", "ABGR8888", "RGBA8888", "BGRA8888"}

\* rockchip_format_from_drm_format(): the cpp it reports
RockchipCpp(f) ==
  CASE f \in Packed4444 \cup {"RGBA5551", "BGRA5551", "RGB565", "BGR565"} -> 2
    [] f \in {"RGB888", "BGR888"} -> 3
    [] f \in Packed8888 -> 4
    [] OTHER -> 0

\* drm_format_to_bpp(), which the i915 and the vmwgfx driver share
HelperCpp(f) ==
  CASE f \in {"RGB332", "BGR233"} -> 1
    [] f \in Packed4444 \cup Opaque4444 \cup
             {"XRGB1555", "XBGR1555", "RGBX5551", "BGRX5551", "ARGB1555",
              "ABGR1555", "RGBA5551", "BGRA5551", "RGB565", "BGR565"} -> 2
    [] f \in Packed8888 -> 4
    [] OTHER -> 0

-----------------------------------------------------------------------------
(* Sizes.  m is a power of two that divides Word.                          *)

\* ROUND_TO_MULTIPLE(n, m): (n + (m - 1)) & ~(m - 1); a slip rounds down
RoundDown(n, m) == Wrap(n) - (Wrap(n) % m)
RoundToMultiple(n, m) == LET x == Wrap(n + (m - 1)) IN x - (x % m)

PitchOf(width, cpp, align) == RoundToMultiple(Wrap(width * cpp), align)

\* the lines the header takes when a buffer is created, or a size is checked
HeaderLines(hdr, pitch) ==
  IF hdr = 0 THEN 0
  ELSE hdr \div pitch + (IF hdr % pitch # 0 THEN 1 ELSE 0)

\* the lines the header takes in a buffer that the rockchip driver imports
ImportedHeaderLines(hdr, pitch) == hdr \div pitch

SizeOf(lines, height, pitch) == Wrap(Wrap(height + lines) * pitch)

\* slips: the header's last line is not counted; the size is not compared
FormatSizeOkFloor(size, cpp, hdr, width, height, pitch, align) ==
  /\ cpp # 0
  /\ pitch = PitchOf(width, cpp, align)
  /\ size # 0 => size = SizeOf(ImportedHeaderLines(hdr, pitch), height, pitch)
FormatOk(size, cpp, hdr, width, height, pitch, align) ==
  cpp # 0 /\ pitch = PitchOf(width, cpp, align)

\* check_format_size(): the test an importer makes of what its caller claims
FormatSizeOk(size, cpp, hdr, width, height, pitch, align) ==
  /\ cpp # 0
  /\ pitch = PitchOf(width, cpp, align)
  /\ size # 0 => size = SizeOf(HeaderLines(hdr, pitch), height, pitch)
=============================================================================
