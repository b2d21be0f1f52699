------------------------ MODULE LayoutExchangeProofs ------------------------
(***************************************************************************)
(* Proofs about the layout of surfaces for all formats, header sizes and   *)
(* extents, any width of the unsigned type and any rounding up by libdrm.  *)
(***************************************************************************)
EXTENDS LayoutExchange, TLAPS

-----------------------------------------------------------------------------
(* Arithmetic of layouts.                                                  *)

\* Division with remainder.
LEMMA Division ==
  ASSUME NEW n \in Nat, NEW m \in Nat \ {0}
  PROVE  /\ n \div m \in Nat /\ n % m \in 0 .. m - 1
         /\ n = (n \div m) * m + (n % m)
OBVIOUS

\* What fits the unsigned type is not changed by it, and nothing else stays.
LEMMA WrapFits ==
  ASSUME NEW n \in Nat
  PROVE  Wrap(n) \in Nat /\ (n < Word => Wrap(n) = n)
BY WordAssumption, Division DEF Wrap

\* A driver knows how many bytes a pixel has, and aligns lines to 4 or 256.
LEMMA CppIsNat == ASSUME NEW d, NEW f PROVE CppIn(d, f) \in Nat
<1>1. RockchipCpp(f) \in Nat
  BY DEF RockchipCpp
<1>2. HelperCpp(f) \in Nat
  BY DEF HelperCpp
<1> QED
  BY <1>1, <1>2 DEF CppIn

LEMMA AlignIs == ASSUME NEW d PROVE Align(d) = 4 \/ Align(d) = 256
BY DEF Align

\* Rounding up to a multiple of the alignment.
LEMMA Rounds ==
  ASSUME NEW n \in Nat, NEW m \in Nat, m = 4 \/ m = 256
  PROVE  /\ RoundToMultiple(n, m) \in Nat
         /\ n + m - 1 < Word =>
              RoundToMultiple(n, m) % m = 0 /\ n <= RoundToMultiple(n, m)
<1> DEFINE x == Wrap(n + (m - 1))
<1>1. n + (m - 1) \in Nat
  OBVIOUS
<1>2. x \in Nat /\ (n + m - 1 < Word => x = n + (m - 1))
  BY <1>1, WrapFits
<1>3. RoundToMultiple(n, m) = x - (x % m)
  BY DEF RoundToMultiple
<1> HIDE DEF x
<1>4. CASE m = 4
  BY <1>2, <1>3, <1>4
<1>5. CASE m = 256
  BY <1>2, <1>3, <1>5
<1> QED
  BY <1>4, <1>5

\* A pitch has room for a line of pixels and is aligned, unless the line is
\* too long for the unsigned type.
LEMMA PitchFits ==
  ASSUME NEW width \in Nat, NEW cpp \in Nat, NEW m \in Nat,
         m = 4 \/ m = 256
  PROVE  /\ PitchOf(width, cpp, m) \in Nat
         /\ width * cpp + m - 1 < Word =>
              /\ PitchOf(width, cpp, m) % m = 0
              /\ width * cpp <= PitchOf(width, cpp, m)
<1> DEFINE n == width * cpp
<1>1. n \in Nat
  OBVIOUS
<1>2. PitchOf(width, cpp, m) = RoundToMultiple(Wrap(n), m)
  BY DEF PitchOf
<1> HIDE DEF n
<1>3. Wrap(n) \in Nat /\ (n + m - 1 < Word => Wrap(n) = n)
  BY <1>1, WrapFits, WordAssumption
<1>4. /\ PitchOf(width, cpp, m) \in Nat
      /\ n + m - 1 < Word => /\ PitchOf(width, cpp, m) % m = 0
                             /\ n <= PitchOf(width, cpp, m)
  BY <1>2, <1>3, Rounds
<1> QED
  BY <1>4 DEF n

\* The header lines hold the header, and no line less would.
LEMMA HeaderFits ==
  ASSUME NEW hdr \in Nat, NEW pitch \in Nat \ {0}
  PROVE  /\ HeaderLines(hdr, pitch) \in Nat
         /\ HeaderLines(hdr, pitch) * pitch \in hdr .. hdr + pitch - 1
<1> DEFINE q == hdr \div pitch
           r == hdr % pitch
<1>1. q \in Nat /\ r \in 0 .. pitch - 1 /\ hdr = q * pitch + r
  BY Division
<1>2. CASE hdr = 0
  BY <1>2 DEF HeaderLines
<1>3. CASE hdr # 0 /\ r = 0
  <2>1. HeaderLines(hdr, pitch) = q
    BY <1>1, <1>3 DEF HeaderLines
  <2> QED
    BY <1>1, <1>3, <2>1
<1>4. CASE hdr # 0 /\ r # 0
  <2>1. HeaderLines(hdr, pitch) = q + 1
    BY <1>1, <1>4 DEF HeaderLines
  <2>2. (q + 1) * pitch = q * pitch + pitch
    BY <1>1
  <2> HIDE DEF q, r
  <2> QED
    BY <1>1, <1>4, <2>1, <2>2
<1> QED
  BY <1>2, <1>3, <1>4

\* A size is a number of the unsigned type.
LEMMA SizeTyped ==
  ASSUME NEW lines \in Nat, NEW height \in Nat, NEW pitch \in Nat \ {0}
  PROVE  SizeOf(lines, height, pitch) \in 0 .. Word - 1
<1>1. Wrap(height + lines) \in Nat
  BY WrapFits
<1>2. Wrap(height + lines) * pitch \in Nat
  BY <1>1
<1> QED
  BY <1>2, WordAssumption, Division DEF SizeOf, Wrap

\* A size that fits the unsigned type is that of all lines.
LEMMA SizeExact ==
  ASSUME NEW lines \in Nat, NEW height \in Nat, NEW pitch \in Nat \ {0},
         (height + lines) * pitch < Word
  PROVE  SizeOf(lines, height, pitch) = (lines + height) * pitch
<1>1. height + lines \in Nat /\ (height + lines) * pitch \in Nat
  OBVIOUS
<1>2. height + lines <= (height + lines) * pitch
  OBVIOUS
<1>3. Wrap(height + lines) = height + lines
  BY <1>1, <1>2, WrapFits, WordAssumption
<1>4. Wrap((height + lines) * pitch) = (height + lines) * pitch
  BY <1>1, WrapFits
<1>5. (height + lines) * pitch = (lines + height) * pitch
  OBVIOUS
<1> QED
  BY <1>3, <1>4, <1>5 DEF SizeOf

-----------------------------------------------------------------------------
(* The inductive invariant: the layout is that of the request, and the     *)
(* verdict that of check_format_size() on the claim.                       *)

Typed ==
  /\ driver \in Driver /\ req \in Request
  /\ claim.hdr \in Nat /\ claim.height \in Nat

MadeAsAsked ==
  made # NoLayout => made = Layout(driver, req) /\ made.pitch # 0
                       /\ CppIn(driver, req.fmt) # 0

\* the size the claim amounts to
ClaimedSize ==
  SizeOf(HeaderLines(claim.hdr, made.pitch), claim.height, made.pitch)

Judged ==
  verdict # "none" =>
    /\ made # NoLayout /\ claim.size \in {0, made.size}
    /\ verdict = "bad" <=> claim.size \notin {0, ClaimedSize}

IInv == Typed /\ MadeAsAsked /\ Judged

\* A layout that was made passes the test of the format and the pitch.
LEMMA PitchPasses ==
  ASSUME MadeAsAsked, made # NoLayout
  PROVE  /\ CppIn(driver, req.fmt) # 0
         /\ made.pitch = PitchOf(req.width, CppIn(driver, req.fmt), Align(driver))
BY DEF MadeAsAsked, Layout

LEMMA CreateKeeps == IInv /\ Create => IInv'
<1> SUFFICES ASSUME IInv, Create PROVE IInv'
  OBVIOUS
<1>1. Typed'
  BY DEF IInv, Typed, Create
<1>2. MadeAsAsked'
  <2>1. /\ driver' = driver /\ req' = req /\ made' = Layout(driver, req)
        /\ CppIn(driver, req.fmt) # 0
        /\ PitchOf(req.width, CppIn(driver, req.fmt), Align(driver)) # 0
    BY DEF Create
  <2>2. made'.pitch # 0
    BY <2>1 DEF Layout
  <2> QED
    BY <2>1, <2>2 DEF MadeAsAsked
<1>3. Judged'
  BY DEF IInv, Judged, Create
<1> QED
  BY <1>1, <1>2, <1>3 DEF IInv

LEMMA ImportKeeps == IInv /\ Import => IInv'
<1> SUFFICES ASSUME IInv, Import PROVE IInv'
  OBVIOUS
<1>1. PICK hdr \in Hdr, height \in Height, size \in {0, made.size} :
        /\ claim' = [hdr |-> hdr, height |-> height, size |-> size]
        /\ verdict' = IF FormatSizeOk(size, CppIn(driver, req.fmt), hdr,
                           req.width, height, made.pitch, Align(driver))
                      THEN "ok" ELSE "bad"
  BY DEF Import
<1>2. driver' = driver /\ req' = req /\ made' = made /\ made # NoLayout
  BY DEF Import
<1>3. claim'.hdr = hdr /\ claim'.height = height /\ claim'.size = size
  BY <1>1
<1>4. Typed' /\ MadeAsAsked'
  BY <1>2, <1>3, RequestAssumption DEF IInv, Typed, MadeAsAsked
<1>5. ClaimedSize' = SizeOf(HeaderLines(hdr, made.pitch), height, made.pitch)
  BY <1>2, <1>3 DEF ClaimedSize
<1>6. FormatSizeOk(size, CppIn(driver, req.fmt), hdr, req.width, height,
                   made.pitch, Align(driver))
        <=> (size # 0 => size = ClaimedSize')
  BY <1>2, <1>5, PitchPasses DEF IInv, FormatSizeOk
<1>7. Judged'
  BY <1>1, <1>2, <1>3, <1>6 DEF Judged
<1> QED
  BY <1>4, <1>7 DEF IInv

\* Every step keeps the invariant.
THEOREM Invariance == Spec => []IInv
<1>1. Init => IInv
  BY DEF Init, NoClaim, IInv, Typed, MadeAsAsked, Judged
<1>2. IInv /\ [Next]_vars => IInv'
  <2>1. IInv /\ UNCHANGED vars => IInv'
    BY DEF IInv, Typed, MadeAsAsked, Judged, ClaimedSize, vars
  <2> QED
    BY <2>1, CreateKeeps, ImportKeeps DEF Next
<1> QED
  BY <1>1, <1>2, PTL DEF Spec

-----------------------------------------------------------------------------
(* What follows from it.                                                   *)

\* The sizes of a request, and of the layout, are numbers.
LEMMA Numbers ==
  ASSUME IInv, made # NoLayout
  PROVE  /\ req.hdr \in Nat /\ req.width \in Nat /\ req.height \in Nat
         /\ made.pitch \in Nat \ {0}
         /\ made.lines = HeaderLines(req.hdr, made.pitch)
         /\ made.lines \in Nat
         /\ SizeOf(made.lines, req.height, made.pitch) \in 0 .. Word - 1
         /\ made.size = RecordedSize(driver,
                          SizeOf(made.lines, req.height, made.pitch))
         /\ made.size \in Nat
         /\ made.size >= SizeOf(made.lines, req.height, made.pitch)
         /\ driver # "i915" =>
              made.size = SizeOf(made.lines, req.height, made.pitch)
<1>1. req.hdr \in Nat /\ req.width \in Nat /\ req.height \in Nat
  BY RequestAssumption DEF IInv, Typed, Request
<1>2. made.pitch \in Nat
  <2>1. PICK width \in Nat, cpp \in Nat, m \in Nat :
          made.pitch = PitchOf(width, cpp, m) /\ (m = 4 \/ m = 256)
    BY <1>1, CppIsNat, AlignIs, PitchPasses DEF IInv
  <2>2. PitchOf(width, cpp, m) \in Nat
    BY <2>1, PitchFits
  <2> QED
    BY <2>1, <2>2
<1>3. made = Layout(driver, req) /\ made.pitch # 0
  BY DEF IInv, MadeAsAsked
<1> DEFINE n == SizeOf(made.lines, req.height, made.pitch)
<1>4. /\ made.lines = HeaderLines(req.hdr, made.pitch)
      /\ made.size = RecordedSize(driver, n)
  BY <1>3 DEF Layout
<1>5. made.lines \in Nat
  BY <1>1, <1>2, <1>3, <1>4, HeaderFits
<1>6. n \in 0 .. Word - 1
  BY <1>1, <1>2, <1>3, <1>5, SizeTyped
<1> HIDE DEF n
<1>7. /\ made.size \in Nat /\ made.size >= n
      /\ driver # "i915" => made.size = n
  BY <1>4, <1>6, BoSizeAssumption, WordAssumption DEF RecordedSize
<1> QED
  BY <1>1, <1>2, <1>3, <1>4, <1>5, <1>6, <1>7 DEF n

\* A layout has room for the header and the pixels, and wastes no line.
THEOREM Room == Spec => []HasRoom
<1>1. IInv => HasRoom
  <2> SUFFICES ASSUME IInv, made # NoLayout, NoWrap(req.hdr, req.height)
               PROVE  /\ made.pitch % Align(driver) = 0
                      /\ req.width * CppIn(driver, req.fmt) <= made.pitch
                      /\ made.lines * made.pitch
                           \in req.hdr .. req.hdr + made.pitch - 1
                      /\ made.size >= (made.lines + req.height) * made.pitch
                      /\ ~RoundedUp =>
                           made.size = (made.lines + req.height) * made.pitch
    BY DEF HasRoom
  <2> DEFINE cpp == CppIn(driver, req.fmt)
             align == Align(driver)
  <2>1. /\ req.width * cpp + align - 1 < Word
        /\ (req.height + HeaderLines(req.hdr, made.pitch)) * made.pitch < Word
    BY DEF NoWrap
  <2>2. cpp \in Nat /\ (align = 4 \/ align = 256)
        /\ made.pitch = PitchOf(req.width, cpp, align)
    BY CppIsNat, AlignIs, PitchPasses DEF IInv
  <2> HIDE DEF cpp, align
  <2>3. made.pitch % align = 0 /\ req.width * cpp <= made.pitch
    <3>1. PICK width \in Nat, c \in Nat, m \in Nat :
            width = req.width /\ c = cpp /\ m = align
      BY <2>2, Numbers
    <3>2. m = 4 \/ m = 256
      BY <2>2, <3>1
    <3>3. width * c + m - 1 < Word
      BY <2>1, <3>1
    <3>4. PitchOf(width, c, m) % m = 0 /\ width * c <= PitchOf(width, c, m)
      BY <3>2, <3>3, PitchFits
    <3> QED
      BY <2>2, <3>1, <3>4
  <2>4. /\ made.lines \in Nat
        /\ made.lines * made.pitch \in req.hdr .. req.hdr + made.pitch - 1
    BY Numbers, HeaderFits
  <2>5. SizeOf(made.lines, req.height, made.pitch)
          = (made.lines + req.height) * made.pitch
    BY <2>1, <2>4, Numbers, SizeExact
  <2>6. /\ made.size >= (made.lines + req.height) * made.pitch
        /\ ~RoundedUp => made.size = (made.lines + req.height) * made.pitch
    BY <2>5, Numbers DEF RoundedUp
  <2> QED
    BY <2>3, <2>4, <2>6 DEF cpp, align
<1> QED
  BY <1>1, Invariance, PTL

\* Whoever passes on what the creator used is turned down exactly if it names
\* a size that libdrm rounded up.
THEOREM HonestAccepted == Spec => []HonestClaimAccepted
<1>1. IInv => HonestClaimAccepted
  <2> SUFFICES ASSUME IInv, verdict # "none",
                      claim.hdr = req.hdr, claim.height = req.height
               PROVE  verdict = "bad" <=> RoundedUp /\ claim.size # 0
    BY DEF HonestClaimAccepted
  <2>1. /\ made # NoLayout /\ claim.size \in {0, made.size}
        /\ verdict = "bad" <=> claim.size \notin {0, ClaimedSize}
    BY DEF IInv, Judged
  <2>2. ClaimedSize = SizeOf(made.lines, req.height, made.pitch)
    BY <2>1, Numbers DEF ClaimedSize
  <2>3. RoundedUp <=> made.size # ClaimedSize
    BY <2>1, <2>2, Numbers DEF RoundedUp
  <2> QED
    BY <2>1, <2>3
<1> QED
  BY <1>1, Invariance, PTL

\* Sizes of two numbers of lines that do not wrap around are the same only if
\* the numbers are.
LEMMA SameLines ==
  ASSUME NEW pitch \in Nat \ {0}, NEW k \in Nat, NEW m \in Nat,
         NEW l \in Nat, NEW n \in Nat,
         (m + k) * pitch < Word, (n + l) * pitch < Word,
         SizeOf(k, m, pitch) = SizeOf(l, n, pitch)
  PROVE  k + m = l + n
<1>1. SizeOf(k, m, pitch) = (k + m) * pitch
  BY SizeExact
<1>2. SizeOf(l, n, pitch) = (l + n) * pitch
  BY SizeExact
<1>3. (k + m) * pitch = (l + n) * pitch
  BY <1>1, <1>2
<1> QED
  BY <1>3

\* A claim that passes with the creator's size is for rows of the object, and
\* for the creator's lines if the size was not rounded up.
THEOREM MistakesCaught == Spec => []SizeCatchesMistakes
<1>1. IInv => SizeCatchesMistakes
  <2> DEFINE lines == HeaderLines(claim.hdr, made.pitch)
  <2> SUFFICES ASSUME IInv, verdict = "ok", claim.size # 0,
                      NoWrap(req.hdr, req.height),
                      NoWrap(claim.hdr, claim.height)
               PROVE  /\ (lines + claim.height) * made.pitch <= made.size
                      /\ ~RoundedUp => lines + claim.height
                                          = made.lines + req.height
    BY DEF SizeCatchesMistakes
  <2>1. made # NoLayout /\ made.size = ClaimedSize
    BY DEF IInv, Judged
  <2>2. claim.hdr \in Nat /\ claim.height \in Nat
    BY DEF IInv, Typed
  <2>3. lines \in Nat
    BY <2>1, <2>2, Numbers, HeaderFits
  <2>4. /\ (req.height + made.lines) * made.pitch < Word
        /\ (claim.height + lines) * made.pitch < Word
    BY <2>1, Numbers DEF NoWrap
  <2>5. made.size = SizeOf(lines, claim.height, made.pitch)
    BY <2>1 DEF ClaimedSize
  <2> HIDE DEF lines
  <2>6. (lines + claim.height) * made.pitch <= made.size
    <3>1. made.size = (lines + claim.height) * made.pitch
      BY <2>1, <2>2, <2>3, <2>4, <2>5, Numbers, SizeExact
    <3> QED
      BY <2>1, <3>1, Numbers
  <2>7. ASSUME ~RoundedUp
        PROVE  lines + claim.height = made.lines + req.height
    <3>1. SizeOf(made.lines, req.height, made.pitch)
            = SizeOf(lines, claim.height, made.pitch)
      BY <2>1, <2>5, <2>7, Numbers DEF RoundedUp
    <3>2. PICK pitch \in Nat \ {0}, k \in Nat, m \in Nat, l \in Nat, n \in Nat :
            /\ pitch = made.pitch /\ k = made.lines /\ m = req.height
            /\ l = lines /\ n = claim.height
      BY <2>1, <2>2, <2>3, Numbers
    <3>3. /\ (m + k) * pitch < Word /\ (n + l) * pitch < Word
          /\ SizeOf(k, m, pitch) = SizeOf(l, n, pitch)
      BY <2>4, <3>1, <3>2
    <3>4. k + m = l + n
      BY <3>3, SameLines
    <3> QED
      BY <3>2, <3>4
  <2> QED
    BY <2>6, <2>7
<1> QED
  BY <1>1, Invariance, PTL
=============================================================================
