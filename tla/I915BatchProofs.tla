-------------------------- MODULE I915BatchProofs ---------------------------
(***************************************************************************)
(* Proofs about the batch buffer of the i915 driver for any surfaces,      *)
(* generations and sizes of the buffer.                                    *)
(***************************************************************************)
EXTENDS I915Batch, TLAPS

-----------------------------------------------------------------------------
(* Packets.                                                                *)

Packets == {ColorBlt, CopyBlt, MiFlush}

\* The words of the packets, one by one.
LEMMA PacketWords ==
  /\ ColorBlt \in Seq(Words) /\ Len(ColorBlt) = 6
  /\ CopyBlt \in Seq(Words) /\ Len(CopyBlt) = 8
  /\ MiFlush \in Seq(Words) /\ Len(MiFlush) = 1
  /\ \A k \in 1 .. 6 : ColorBlt[k] # "MI_BATCH_BUFFER_END" /\ ColorBlt[k] # "src"
  /\ \A k \in 1 .. 8 : CopyBlt[k] # "MI_BATCH_BUFFER_END"
  /\ MiFlush[1] = "MI_FLUSH"
  /\ ColorBlt[1] = "XY_COLOR_BLT" /\ CopyBlt[1] = "XY_SRC_COPY_BLT"
BY DEF ColorBlt, CopyBlt, MiFlush, Words

\* The end mark and the padding follow the words of the packet.
LEMMA TerminatedWords ==
  ASSUME NEW w \in Seq(Words)
  PROVE  LET t == Terminated(w) IN
         /\ t \in Seq(Words)
         /\ Len(t) = IF Len(w) % 2 = 0 THEN Len(w) + 2 ELSE Len(w) + 1
         /\ \A k \in 1 .. Len(w) : t[k] = w[k]
         /\ t[Len(w) + 1] = "MI_BATCH_BUFFER_END"
         /\ Len(w) % 2 = 0 => t[Len(w) + 2] = "MI_NOOP"
<1> DEFINE e == w \o <<"MI_BATCH_BUFFER_END">>
<1>1. /\ "MI_BATCH_BUFFER_END" \in Words /\ "MI_NOOP" \in Words
  BY DEF Words
<1>2. /\ e \in Seq(Words) /\ Len(e) = Len(w) + 1
      /\ \A k \in 1 .. Len(w) : e[k] = w[k]
      /\ e[Len(w) + 1] = "MI_BATCH_BUFFER_END"
  BY <1>1
<1> HIDE DEF e
<1>3. CASE Len(w) % 2 = 0
  <2>1. Terminated(w) = e \o <<"MI_NOOP">>
    BY <1>3 DEF Terminated, e
  <2> QED
    BY <1>1, <1>2, <1>3, <2>1
<1>4. CASE Len(w) % 2 # 0
  <2>1. Terminated(w) = e \o <<>>
    BY <1>4 DEF Terminated, e
  <2>2. e \o <<>> = e
    BY <1>2
  <2> QED
    BY <1>2, <1>4, <2>1, <2>2
<1> QED
  BY <1>3, <1>4
\* A packet's batch: of an even number of words, ended once, in the map.
LEMMA PacketBatch ==
  ASSUME NEW packet \in Packets
  PROVE  LET t == Terminated(packet) IN
         /\ packet \in Seq(Words) /\ packet # <<>>
         /\ t \in Seq(Words) /\ Len(t) % 2 = 0 /\ t[1] = packet[1]
         /\ 4 * Len(t) <= MaxBatchSize /\ 4 * (Len(packet) + 2) <= MaxBatchSize
         /\ \A k \in 1 .. Len(packet) :
              t[k] = packet[k] /\ t[k] # "MI_BATCH_BUFFER_END"
         /\ t[Len(packet) + 1] = "MI_BATCH_BUFFER_END"
         /\ Len(packet) + 1 \in 1 .. Len(t)
         /\ \A k \in 1 .. Len(t) : k > Len(packet) + 1 => t[k] = "MI_NOOP"
<1> DEFINE t == Terminated(packet)
<1>1. packet \in Seq(Words) /\ Len(packet) \in {1, 6, 8}
  BY PacketWords DEF Packets
<1>2. \A k \in 1 .. Len(packet) : packet[k] # "MI_BATCH_BUFFER_END"
  <2>1. CASE packet = ColorBlt
    BY <2>1, PacketWords
  <2>2. CASE packet = CopyBlt
    BY <2>2, PacketWords
  <2>3. CASE packet = MiFlush
    <3>1. \A k \in 1 .. 1 : k = 1
      OBVIOUS
    <3> QED
      BY <2>3, <3>1, PacketWords
  <2> QED
    BY <2>1, <2>2, <2>3 DEF Packets
<1>3. MaxBatchSize > 40
  BY BatchAssumption, ReserveAssumption
<1>4. /\ t \in Seq(Words)
      /\ Len(t) = IF Len(packet) % 2 = 0 THEN Len(packet) + 2 ELSE Len(packet) + 1
      /\ \A k \in 1 .. Len(packet) : t[k] = packet[k]
      /\ t[Len(packet) + 1] = "MI_BATCH_BUFFER_END"
      /\ Len(packet) % 2 = 0 => t[Len(packet) + 2] = "MI_NOOP"
  BY <1>1, TerminatedWords
<1>5. /\ Len(packet) % 2 = 0 => Len(t) = Len(packet) + 2
      /\ Len(packet) % 2 # 0 => Len(t) = Len(packet) + 1 /\ Len(packet) = 1
      /\ Len(t) % 2 = 0 /\ Len(t) <= 10
  <2> HIDE DEF t
  <2>1. CASE Len(packet) = 1
    <3>1. Len(packet) % 2 = 1 /\ Len(t) = 2
      BY <1>4, <2>1
    <3> QED
      BY <2>1, <3>1
  <2>2. CASE Len(packet) = 6
    <3>1. Len(packet) % 2 = 0 /\ Len(t) = 8
      BY <1>4, <2>2
    <3> QED
      BY <2>2, <3>1
  <2>3. CASE Len(packet) = 8
    <3>1. Len(packet) % 2 = 0 /\ Len(t) = 10
      BY <1>4, <2>3
    <3> QED
      BY <2>3, <3>1
  <2> QED
    BY <1>1, <2>1, <2>2, <2>3
<1> HIDE DEF t
<1>6. \A k \in 1 .. Len(t) : k > Len(packet) + 1 =>
        Len(packet) % 2 = 0 /\ k = Len(packet) + 2
  BY <1>1, <1>4, <1>5
<1>7. 4 * Len(t) <= MaxBatchSize /\ 4 * (Len(packet) + 2) <= MaxBatchSize
  BY <1>1, <1>3, <1>4, <1>5, BatchAssumption
<1>8. packet # <<>> /\ t[1] = packet[1] /\ Len(packet) + 1 \in 1 .. Len(t)
  BY <1>1, <1>4, <1>5
<1> QED
  BY <1>1, <1>2, <1>4, <1>5, <1>6, <1>7, <1>8 DEF t

\* The relocations of a packet are those of its batch's address words.
LEMMA PacketRelocations ==
  ASSUME NEW packet \in Packets, NEW dst, NEW src
  PROVE  LET t == Terminated(packet)
             Target(k) == IF t[k] = "dst" THEN dst ELSE src
         IN Relocations(packet, 0, dst, src) =
              {<<k - 1, Target(k)>> :
                 k \in {j \in DOMAIN t : t[j] \in {"dst", "src"}}}
<1> DEFINE t == Terminated(packet)
           Target(k) == IF t[k] = "dst" THEN dst ELSE src
<1>1. /\ packet \in Seq(Words) /\ t \in Seq(Words)
      /\ \A k \in 1 .. Len(packet) : k \in 1 .. Len(t) /\ t[k] = packet[k]
      /\ \A k \in 1 .. Len(t) :
           k \notin 1 .. Len(packet) => t[k] \notin {"dst", "src"}
  <2>1. \A k \in 1 .. Len(t) : k \notin 1 .. Len(packet) =>
          k = Len(packet) + 1 \/ k > Len(packet) + 1
    BY PacketBatch
  <2> QED
    BY <2>1, PacketBatch
<1>2. {j \in DOMAIN packet : packet[j] = "dst"} = {j \in DOMAIN t : t[j] = "dst"}
  BY <1>1
<1>3. {j \in DOMAIN packet : packet[j] = "src"} = {j \in DOMAIN t : t[j] = "src"}
  BY <1>1
<1>4. DOMAIN t = 1 .. Len(t)
  BY <1>1
<1> HIDE DEF t
<1>5. Relocations(packet, 0, dst, src) =
        {<<0 + i - 1, dst>> : i \in {j \in DOMAIN t : t[j] = "dst"}} \cup
        {<<0 + i - 1, src>> : i \in {j \in DOMAIN t : t[j] = "src"}}
  BY <1>2, <1>3 DEF Relocations
<1>6. \A i \in 1 .. Len(t) : 0 + i - 1 = i - 1
  BY <1>1
<1>7. Relocations(packet, 0, dst, src) =
        {<<k - 1, Target(k)>> :
           k \in {j \in DOMAIN t : t[j] \in {"dst", "src"}}}
  BY <1>4, <1>5, <1>6
<1> QED
  BY <1>7 DEF t
-----------------------------------------------------------------------------
(* The inductive invariant: what is in the batch, and what has been        *)
(* handed over, at every place the driver can be in.                       *)

Batch == [words : Seq(Words), relocs : SUBSET (Nat \X Surface),
          ring : {"BLT", "RENDER"}, ok : BOOLEAN]

\* A call that draws, and the packet it draws with.
Blits == call.op \in {"fill", "copy"}
BlitPacket == IF call.op = "fill" THEN ColorBlt ELSE CopyBlt

\* The relocations of a packet at the beginning of a batch of this call.
CallRelocs(packet) ==
  IF Blits THEN Relocations(packet, 0, call.dst, call.src) ELSE {}

BatchEmpty == words = <<>> /\ relocs = {} /\ reserved = BatchReserved

\* The batch holds the packet and nothing else.
BatchHolds(packet) ==
  words = packet /\ relocs = CallRelocs(packet) /\ reserved = BatchReserved

\* b is the batch of the packet, for the ring it belongs to.
IsSent(b, packet) ==
  /\ b.words = Terminated(packet) /\ b.relocs = CallRelocs(packet)
  /\ b.ring = Ring(gen)

\* What the call has handed over before its flush command, and after.
BlitSent ==
  IF Blits THEN Len(sent) = 1 /\ IsSent(sent[1], BlitPacket) ELSE sent = <<>>
AllSent ==
  IF Blits THEN /\ Len(sent) = 2
                /\ IsSent(sent[1], BlitPacket) /\ IsSent(sent[2], MiFlush)
           ELSE Len(sent) = 1 /\ IsSent(sent[1], MiFlush)

TypeInv ==
  /\ gen \in Gen /\ CallOK /\ pass \in 0 .. 2 /\ fits \in BOOLEAN
  /\ sent \in Seq(Batch) /\ ret \in {-1, 0}

Filling == call.op = "fill" /\ BatchEmpty /\ sent = <<>>
Copying == call.op = "copy" /\ BatchEmpty /\ sent = <<>>

\* Where a call is, and what it has done by then.
Progress ==
  \/ pc = "idle" /\ BatchEmpty
     /\ \/ call.op = "none" /\ sent = <<>>
        \/ call.op # "none" /\ ret = 0 /\ AllSent
        \/ call.op = "copy" /\ ret = -1 /\ sent = <<>>
  \/ pc \in {"fill_check", "fill_emit"} /\ Filling
  \/ pc = "copy_check" /\ Copying
  \/ pc = "copy_flush" /\ Copying /\ pass < 2
  \/ pc = "copy_begin" /\ Copying /\ fits
  \/ pc = "flush" /\ Blits /\ BatchHolds(BlitPacket) /\ sent = <<>>
  \/ pc = "mi_begin" /\ call.op # "none" /\ BatchEmpty /\ BlitSent
  \/ pc = "mi_flush" /\ call.op # "none" /\ BatchHolds(MiFlush) /\ BlitSent
  \/ pc = "aborted" /\ BatchEmpty /\ sent = <<>>

\* A copy is past the aperture loop only if its surfaces fitted.
CopyPassed ==
  call.op = "copy" /\ (pc \in {"flush", "mi_begin", "mi_flush"} \/ sent # <<>>) =>
    fits

IInv == TypeInv /\ Progress /\ CopyPassed

-----------------------------------------------------------------------------
(* Emitting a packet into an empty batch, and handing it over.             *)

\* The flush command has no relocations.
LEMMA MiFlushRelocations ==
  /\ \A at, dst, src : Relocations(MiFlush, at, dst, src) = {}
  /\ CallRelocs(MiFlush) = {}
<1>1. DOMAIN MiFlush = {1} /\ MiFlush[1] = "MI_FLUSH"
  BY DEF MiFlush
<1>2. \A at, dst, src : Relocations(MiFlush, at, dst, src) = {}
  BY <1>1 DEF Relocations
<1> QED
  BY <1>2 DEF CallRelocs

\* The relocations of a call are offsets in the batch and surfaces.
LEMMA CallRelocsTyped ==
  ASSUME TypeInv, NEW packet \in Packets
  PROVE  CallRelocs(packet) \subseteq Nat \X Surface
<1>1. CASE Blits
  <2>1. call.dst \in Surface /\ call.src \in Surface
    BY <1>1 DEF TypeInv, CallOK, Blits
  <2>2. \A i \in DOMAIN packet : 0 + i - 1 \in Nat
    BY PacketBatch
  <2>3. Relocations(packet, 0, call.dst, call.src) \subseteq Nat \X Surface
    BY <2>1, <2>2 DEF Relocations
  <2> QED
    BY <1>1, <2>3 DEF CallRelocs
<1>2. CASE ~Blits
  BY <1>2 DEF CallRelocs
<1> QED
  BY <1>1, <1>2

\* There is room in an empty batch: the packet is all it holds then.
LEMMA EmitPacket ==
  ASSUME BatchEmpty, NEW packet \in Packets, NEW dst, NEW src,
         BeginAndEmit(packet, dst, src),
         Relocations(packet, 0, dst, src) = CallRelocs(packet)',
         UNCHANGED call
  PROVE  BatchHolds(packet)' /\ sent' = sent
<1>1. packet \in Seq(Words) /\ Len(words) = 0
  BY PacketBatch DEF BatchEmpty
<1>2. Emit(packet, dst, src)
  BY DEF BatchEmpty, BeginAndEmit
<1>3. <<>> \o packet = packet
  BY <1>1
<1> QED
  BY <1>1, <1>2, <1>3 DEF Emit, BatchEmpty, BatchHolds

\* A flush of an empty batch does nothing.
LEMMA FlushNothing ==
  ASSUME BatchEmpty, NEW ring, Flush(ring)
  PROVE  BatchEmpty' /\ sent' = sent
BY DEF BatchEmpty, Flush

\* A flush hands the packet over and leaves the batch empty, even if it fails.
LEMMA FlushPacket ==
  ASSUME TypeInv, NEW packet \in Packets, BatchHolds(packet), Flush(Ring(gen)),
         UNCHANGED <<gen, call>>
  PROVE  /\ BatchEmpty'
         /\ sent' \in Seq(Batch) /\ Len(sent') = Len(sent) + 1
         /\ \A i \in 1 .. Len(sent) : sent'[i] = sent[i]
         /\ LET b == sent'[Len(sent) + 1] IN
            /\ b.words = Terminated(packet) /\ b.relocs = CallRelocs(packet)
            /\ b.ring = Ring(gen)
<1>1. packet # <<>> /\ Terminated(packet) \in Seq(Words)
  BY PacketBatch
<1>2. /\ Reset
      /\ \E ok \in BOOLEAN :
           sent' = Append(sent, [words |-> Terminated(words), relocs |-> relocs,
                                 ring |-> Ring(gen), ok |-> ok])
  BY <1>1 DEF BatchHolds, Flush
<1>3. PICK ok \in BOOLEAN :
        sent' = Append(sent, [words |-> Terminated(packet),
                              relocs |-> CallRelocs(packet),
                              ring |-> Ring(gen), ok |-> ok])
  BY <1>2 DEF BatchHolds
<1> DEFINE b == [words |-> Terminated(packet), relocs |-> CallRelocs(packet),
                 ring |-> Ring(gen), ok |-> ok]
<1>4. b \in Batch
  BY <1>1, CallRelocsTyped DEF Batch, Ring
<1>5. /\ b.words = Terminated(packet) /\ b.relocs = CallRelocs(packet)
      /\ b.ring = Ring(gen)
  OBVIOUS
<1>6. sent' = Append(sent, b)
  BY <1>3
<1> HIDE DEF b
<1>7. /\ sent' \in Seq(Batch) /\ Len(sent') = Len(sent) + 1
      /\ \A i \in 1 .. Len(sent) : sent'[i] = sent[i]
      /\ sent'[Len(sent) + 1] = b
  BY <1>4, <1>6 DEF TypeInv
<1> QED
  BY <1>2, <1>5, <1>7 DEF Reset, BatchEmpty

-----------------------------------------------------------------------------
(* One lemma per action, or for those that leave the batch alone together. *)

\* The initial state.
LEMMA InitInv == Init => IInv
<1> SUFFICES ASSUME Init PROVE IInv
  OBVIOUS
<1>1. TypeInv
  <2>1. call.op = "none" /\ CallOK
    BY DEF Init, CallOK, NoCall
  <2>2. sent \in Seq(Batch) /\ pass \in 0 .. 2 /\ ret \in {-1, 0}
    BY DEF Init
  <2>3. gen \in Gen /\ fits \in BOOLEAN
    BY DEF Init
  <2> QED
    BY <2>1, <2>2, <2>3 DEF TypeInv
<1> QED
  BY <1>1 DEF Init, NoCall, IInv, Progress, CopyPassed, BatchEmpty

\* A call is made: the batch is empty then.
LEMMA EnterStep ==
  ASSUME IInv, FillRect \/ CopyBuff \/ Blit \/ FlushDriver
  PROVE  IInv'
<1>1. /\ pc = "idle" /\ BatchEmpty
      /\ pass' = 0 /\ fits' = FALSE /\ sent' = <<>>
      /\ UNCHANGED <<gen, words, relocs, reserved, ret>>
  BY DEF FillRect, CopyBuff, Blit, FlushDriver, Enter, Goto, IInv, Progress
<1>2. BatchEmpty' /\ sent' \in Seq(Batch)
  BY <1>1 DEF BatchEmpty
<1>3. \/ call'.op = "fill" /\ pc' \in {"fill_check", "aborted"}
      \/ call'.op = "copy" /\ pc' = "copy_check"
      \/ call'.op = "flush" /\ pc' = "mi_begin"
  BY DEF FillRect, CopyBuff, Blit, FlushDriver, Enter, Goto
<1>4. CallOK'
  <2>1. CASE FillRect
    BY <2>1 DEF FillRect, CallOK
  <2>2. CASE CopyBuff
    BY <2>2 DEF CopyBuff, CallOK
  <2>3. CASE Blit
    BY <2>3 DEF Blit, CallOK
  <2>4. CASE FlushDriver
    BY <2>4 DEF FlushDriver, CallOK
  <2> QED
    BY <2>1, <2>2, <2>3, <2>4
<1>5. TypeInv'
  <2>1. gen' \in Gen /\ pass' \in 0 .. 2 /\ ret' \in {-1, 0}
    BY <1>1 DEF IInv, TypeInv
  <2>2. fits' \in BOOLEAN
    BY <1>1
  <2> QED
    BY <1>2, <1>4, <2>1, <2>2 DEF TypeInv
<1>6. Progress'
  <2>1. CASE call'.op = "fill" /\ pc' \in {"fill_check", "aborted"}
    BY <1>1, <1>2, <2>1 DEF Progress, Filling
  <2>2. CASE call'.op = "copy" /\ pc' = "copy_check"
    BY <1>1, <1>2, <2>2 DEF Progress, Copying
  <2>3. CASE call'.op = "flush" /\ pc' = "mi_begin"
    <3>1. BlitSent'
      BY <1>1, <2>3 DEF BlitSent, Blits
    <3> QED
      BY <1>2, <2>3, <3>1 DEF Progress
  <2> QED
    BY <1>3, <2>1, <2>2, <2>3
<1>7. CopyPassed'
  BY <1>1, <1>3 DEF CopyPassed
<1> QED
  BY <1>5, <1>6, <1>7 DEF IInv

\* The steps of the aperture check: the batch they would flush is empty.
LEMMA CheckStep ==
  ASSUME IInv, FillCheck \/ CopyCheck \/ CopyFlush \/ CopyGivesUp
  PROVE  IInv'
<1>1. /\ BatchEmpty /\ sent = <<>> /\ UNCHANGED <<gen, call>>
      /\ pc \in {"fill_check", "copy_check", "copy_flush"}
      /\ pc = "fill_check" => call.op = "fill"
      /\ pc # "fill_check" => call.op = "copy"
      /\ pc = "copy_flush" => pass < 2
  BY DEF FillCheck, CopyCheck, CopyFlush, CopyGivesUp, IInv, Progress, Filling,
         Copying
<1>2. BatchEmpty' /\ sent' = <<>>
  <2>1. Flush(Ring(gen)) \/ UNCHANGED <<words, relocs, reserved, sent>>
    BY DEF FillCheck, CopyCheck, CopyFlush, CopyGivesUp
  <2> QED
    BY <1>1, <2>1, FlushNothing DEF BatchEmpty
<1>3. TypeInv'
  <2>1. pass' \in 0 .. 2 /\ fits' \in BOOLEAN /\ ret' \in {-1, 0}
    BY <1>1 DEF FillCheck, CopyCheck, CopyFlush, CopyGivesUp, CountPass, Goto,
                Return, IInv, TypeInv
  <2>2. gen' \in Gen /\ CallOK' /\ sent' \in Seq(Batch)
    BY <1>1, <1>2 DEF IInv, TypeInv, CallOK
  <2> QED
    BY <2>1, <2>2 DEF TypeInv
<1>4. Progress'
  <2>1. \/ pc = "fill_check" /\ pc' = "fill_emit"
        \/ pc = "copy_check" /\ pc' = "copy_begin" /\ fits'
        \/ pc = "copy_check" /\ pc' = "copy_flush" /\ pass < 2 /\ pass' = pass
        \/ pc = "copy_flush" /\ pc' = "copy_check"
        \/ pc = "copy_check" /\ pc' = "idle" /\ ret' = -1
    BY DEF FillCheck, CopyCheck, CopyFlush, CopyGivesUp, MorePasses, Goto, Return
  <2> QED
    BY <1>1, <1>2, <2>1 DEF Progress, Filling, Copying
<1>5. CopyPassed'
  BY <1>2 DEF FillCheck, CopyCheck, CopyFlush, CopyGivesUp, Goto, Return,
              CopyPassed
<1> QED
  BY <1>3, <1>4, <1>5 DEF IInv

\* A copy that is turned down has handed over nothing.
LEMMA RejectStep ==
  ASSUME IInv, CopyRejected
  PROVE  IInv'
<1>1. /\ pc = "copy_begin" /\ Copying /\ fits
      /\ (pc' = "idle" /\ ret' = -1) \/ (pc' = "aborted" /\ ret' = ret)
      /\ UNCHANGED <<gen, words, relocs, reserved, call, pass, fits, sent>>
  <2>1. pc = "copy_begin" /\ Copying /\ fits
    BY DEF CopyRejected, IInv, Progress
  <2>2. (pc' = "idle" /\ ret' = -1) \/ (pc' = "aborted" /\ ret' = ret)
    BY DEF CopyRejected, Goto, Return
  <2> QED
    BY <2>1, <2>2 DEF CopyRejected
<1>2. TypeInv'
  <2>1. ret' \in {-1, 0}
    BY <1>1 DEF IInv, TypeInv
  <2>2. CallOK'
    BY <1>1 DEF IInv, TypeInv, CallOK
  <2> QED
    BY <1>1, <2>1, <2>2 DEF IInv, TypeInv
<1>3. Copying'
  BY <1>1 DEF Copying, BatchEmpty
<1> QED
  BY <1>1, <1>2, <1>3 DEF IInv, Progress, CopyPassed, Copying

\* The packet of a fill, or of a copy that fits, goes into the empty batch.
LEMMA EmitStep ==
  ASSUME IInv, FillEmit \/ CopyEmit
  PROVE  IInv'
<1>1. /\ Blits /\ BatchEmpty /\ sent = <<>> /\ BlitPacket \in Packets
      /\ call.op = "copy" => fits
      /\ BeginAndEmit(BlitPacket, call.dst, call.src)
      /\ pc' = "flush" /\ UNCHANGED <<gen, call, pass, fits, ret>>
  BY DEF FillEmit, CopyEmit, Goto, IInv, Progress, Filling, Copying, Blits,
         BlitPacket, Packets
<1>2. Relocations(BlitPacket, 0, call.dst, call.src) = CallRelocs(BlitPacket)'
  BY <1>1 DEF CallRelocs, Blits, BlitPacket
<1>3. PICK packet \in Packets :
        /\ packet = BlitPacket /\ packet = BlitPacket'
        /\ BeginAndEmit(packet, call.dst, call.src)
        /\ Relocations(packet, 0, call.dst, call.src) = CallRelocs(packet)'
  BY <1>1, <1>2 DEF BlitPacket
<1>4. BatchHolds(packet)' /\ sent' = sent
  BY <1>1, <1>3, EmitPacket
<1>5. TypeInv'
  BY <1>1, <1>4 DEF IInv, TypeInv, CallOK
<1>6. Progress'
  BY <1>1, <1>3, <1>4 DEF Progress, Blits
<1> QED
  BY <1>1, <1>4, <1>5, <1>6 DEF IInv, CopyPassed

\* The blit is handed over.
LEMMA FlushBlitStep ==
  ASSUME IInv, FlushBlit
  PROVE  IInv'
<1>1. /\ Blits /\ BatchHolds(BlitPacket) /\ sent = <<>> /\ BlitPacket \in Packets
      /\ call.op = "copy" => fits
      /\ Flush(Ring(gen)) /\ pc' = "mi_begin"
      /\ UNCHANGED <<gen, call, pass, fits, ret>>
  BY DEF FlushBlit, Goto, IInv, Progress, CopyPassed, BlitPacket, Packets
<1>2. /\ BatchEmpty' /\ sent' \in Seq(Batch) /\ Len(sent') = 1
      /\ LET b == sent'[1] IN
         /\ b.words = Terminated(BlitPacket) /\ b.relocs = CallRelocs(BlitPacket)
         /\ b.ring = Ring(gen)
  BY <1>1, FlushPacket DEF IInv
<1>3. BlitSent'
  BY <1>1, <1>2 DEF BlitSent, IsSent, Blits, CallRelocs, BlitPacket
<1>4. TypeInv'
  BY <1>1, <1>2 DEF IInv, TypeInv, CallOK
<1>5. Progress'
  BY <1>1, <1>2, <1>3 DEF Progress, Blits
<1> QED
  BY <1>1, <1>4, <1>5 DEF IInv, CopyPassed

\* The flush command goes into the batch that the blit has left empty.
LEMMA MiBeginStep ==
  ASSUME IInv, MiBegin
  PROVE  IInv'
<1>1. /\ call.op # "none" /\ BatchEmpty /\ BlitSent
      /\ call.op = "copy" => fits
      /\ BeginAndEmit(MiFlush, 0, 0) /\ pc' = "mi_flush"
      /\ UNCHANGED <<gen, call, pass, fits, ret>>
  BY DEF MiBegin, Goto, IInv, Progress, CopyPassed
<1>2. MiFlush \in Packets /\ Relocations(MiFlush, 0, 0, 0) = CallRelocs(MiFlush)'
  BY MiFlushRelocations DEF Packets, CallRelocs
<1>3. BatchHolds(MiFlush)' /\ sent' = sent
  BY <1>1, <1>2, EmitPacket
<1>4. BlitSent'
  BY <1>1, <1>3 DEF BlitSent, IsSent, Blits, CallRelocs, BlitPacket
<1>5. TypeInv'
  BY <1>1, <1>3 DEF IInv, TypeInv, CallOK
<1>6. Progress'
  BY <1>1, <1>3, <1>4 DEF Progress
<1> QED
  BY <1>1, <1>5, <1>6 DEF IInv, CopyPassed

\* The flush command is handed over, and the call returns.
LEMMA MiEndStep ==
  ASSUME IInv, MiEnd
  PROVE  IInv'
<1>1. /\ call.op # "none" /\ BatchHolds(MiFlush) /\ BlitSent
      /\ call.op = "copy" => fits
      /\ Flush(Ring(gen)) /\ pc' = "idle" /\ ret' = 0
      /\ UNCHANGED <<gen, call, pass, fits>>
  BY DEF MiEnd, Return, IInv, Progress, CopyPassed
<1>2. MiFlush \in Packets
  BY DEF Packets
<1>3. /\ BatchEmpty'
      /\ sent' \in Seq(Batch) /\ Len(sent') = Len(sent) + 1
      /\ \A i \in 1 .. Len(sent) : sent'[i] = sent[i]
      /\ LET b == sent'[Len(sent) + 1] IN
         /\ b.words = Terminated(MiFlush) /\ b.relocs = CallRelocs(MiFlush)
         /\ b.ring = Ring(gen)
  BY <1>1, <1>2, FlushPacket DEF IInv
<1>4. AllSent'
  <2>1. CASE Blits
    <3>1. Len(sent) = 1 /\ IsSent(sent[1], BlitPacket)
      BY <1>1, <2>1 DEF BlitSent
    <3>2. Len(sent') = 2 /\ sent'[1] = sent[1]
      BY <1>3, <3>1
    <3> QED
      BY <1>1, <1>3, <2>1, <3>1, <3>2
         DEF AllSent, IsSent, Blits, CallRelocs, BlitPacket
  <2>2. CASE ~Blits
    <3>1. Len(sent) = 0
      BY <1>1, <2>2 DEF BlitSent
    <3> QED
      BY <1>1, <1>3, <2>2, <3>1 DEF AllSent, IsSent, Blits, CallRelocs
  <2> QED
    BY <2>1, <2>2
<1>5. TypeInv'
  BY <1>1, <1>3 DEF IInv, TypeInv, CallOK
<1>6. Progress'
  BY <1>1, <1>3, <1>4 DEF Progress
<1> QED
  BY <1>1, <1>5, <1>6 DEF IInv, CopyPassed

\* Every step keeps the invariant.
LEMMA NextInv == IInv /\ [Next]_vars => IInv'
<1> SUFFICES ASSUME IInv, [Next]_vars PROVE IInv'
  OBVIOUS
<1>1. CASE UNCHANGED vars
  BY <1>1 DEF vars, IInv, TypeInv, CallOK, Progress, CopyPassed, Filling, Copying,
              Blits, BlitPacket, BatchEmpty, BatchHolds, CallRelocs,
              BlitSent, AllSent, IsSent
<1>2. CASE FillRect \/ CopyBuff \/ Blit \/ FlushDriver
  BY <1>2, EnterStep
<1>3. CASE FillCheck \/ CopyCheck \/ CopyFlush \/ CopyGivesUp
  BY <1>3, CheckStep
<1>4. CASE FillEmit \/ CopyEmit
  BY <1>4, EmitStep
<1>5. CASE CopyRejected
  BY <1>5, RejectStep
<1>6. CASE FlushBlit
  BY <1>6, FlushBlitStep
<1>7. CASE MiBegin
  BY <1>7, MiBeginStep
<1>8. CASE MiEnd
  BY <1>8, MiEndStep
<1> QED
  BY <1>1, <1>2, <1>3, <1>4, <1>5, <1>6, <1>7, <1>8 DEF Next, Step

-----------------------------------------------------------------------------
\* The inductive invariant holds in every reachable state.
THEOREM Invariance == Spec => []IInv
BY InitInv, NextInv, PTL DEF Spec
\* Every variable keeps to its type; the aperture loop makes two passes.
THEOREM TypeCorrect == Spec => []TypeOK
<1>1. IInv => TypeOK
  <2> SUFFICES ASSUME IInv PROVE TypeOK
    OBVIOUS
  <2>1. words \in Seq(Words) /\ relocs \subseteq Nat \X Surface /\ reserved \in Nat
    <3>1. CASE BatchEmpty
      BY <3>1, BatchAssumption DEF BatchEmpty
    <3>2. CASE BatchHolds(BlitPacket) \/ BatchHolds(MiFlush)
      <4>1. BlitPacket \in Packets /\ MiFlush \in Packets
        BY DEF BlitPacket, Packets
      <4> QED
        BY <3>2, <4>1, PacketBatch, CallRelocsTyped, BatchAssumption
           DEF BatchHolds, IInv
    <3> QED
      BY <3>1, <3>2 DEF IInv, Progress, Filling, Copying
  <2>2. pc \in {"idle", "fill_check", "fill_emit", "copy_check", "copy_flush",
                "copy_begin", "flush", "mi_begin", "mi_flush", "aborted"}
    BY DEF IInv, Progress
  <2>3. Len(sent) \in 0 .. 3
    <3>1. sent = <<>> => Len(sent) = 0
      OBVIOUS
    <3>2. sent = <<>> \/ BlitSent \/ AllSent
      BY DEF IInv, Progress, Filling, Copying
    <3> QED
      BY <3>1, <3>2 DEF BlitSent, AllSent
  <2>4. \A i \in DOMAIN sent : BatchOK(sent[i])
    <3>1. \A b \in Batch : BatchOK(b)
      BY DEF Batch, BatchOK
    <3> QED
      BY <3>1 DEF IInv, TypeInv
  <2> QED
    BY <2>1, <2>2, <2>3, <2>4 DEF IInv, TypeInv, TypeOK
<1> QED
  BY <1>1, Invariance, PTL

\* What has been handed over are the batches of packets.
LEMMA RanPackets ==
  ASSUME IInv
  PROVE  \A i \in DOMAIN sent :
           \E packet \in Packets :
             IsSent(sent[i], packet) /\ (packet # MiFlush => Blits)
<1>1. BlitPacket \in Packets /\ MiFlush \in Packets
  BY DEF BlitPacket, Packets
<1>2. sent \in Seq(Batch) /\ DOMAIN sent = 1 .. Len(sent)
  BY DEF IInv, TypeInv
<1>3. sent = <<>> \/ BlitSent \/ AllSent
  BY DEF IInv, Progress, Filling, Copying
<1>4. CASE sent = <<>>
  BY <1>4
<1>5. CASE Len(sent) = 1 /\ IsSent(sent[1], BlitPacket) /\ Blits
  <2>1. \A i \in DOMAIN sent : i = 1
    BY <1>2, <1>5
  <2> QED
    BY <1>1, <1>5, <2>1
<1>6. CASE Len(sent) = 1 /\ IsSent(sent[1], MiFlush)
  <2>1. \A i \in DOMAIN sent : i = 1
    BY <1>2, <1>6
  <2> QED
    BY <1>1, <1>6, <2>1
<1>7. CASE /\ Len(sent) = 2 /\ Blits
           /\ IsSent(sent[1], BlitPacket) /\ IsSent(sent[2], MiFlush)
  <2>1. \A i \in DOMAIN sent : i = 1 \/ i = 2
    BY <1>2, <1>7
  <2> QED
    BY <1>1, <1>7, <2>1
<1> QED
  BY <1>3, <1>4, <1>5, <1>6, <1>7 DEF BlitSent, AllSent

\* Nothing is written past the end of the batch's memory.
THEOREM MapFits == Spec => []MapNeverOverflows
<1>1. IInv => MapNeverOverflows
  <2> SUFFICES ASSUME IInv PROVE MapNeverOverflows
    OBVIOUS
  <2>1. 4 * Len(Terminated(words)) <= MaxBatchSize
    <3>1. CASE BatchEmpty
      <4>1. words \in Seq(Words) /\ Len(words) = 0
        BY <3>1 DEF BatchEmpty
      <4>2. Len(Terminated(words)) = 2
        <5>1. 0 % 2 = 0
          OBVIOUS
        <5>2. Len(Terminated(words)) = IF Len(words) % 2 = 0 THEN Len(words) + 2
                                                          ELSE Len(words) + 1
          BY <4>1, TerminatedWords
        <5> QED
          BY <4>1, <5>1, <5>2
      <4> QED
        BY <4>2, BatchAssumption, ReserveAssumption
    <3>2. CASE BatchHolds(BlitPacket) \/ BatchHolds(MiFlush)
      <4>1. BlitPacket \in Packets /\ MiFlush \in Packets
        BY DEF BlitPacket, Packets
      <4> QED
        BY <3>2, <4>1, PacketBatch DEF BatchHolds
    <3> QED
      BY <3>1, <3>2 DEF IInv, Progress, Filling, Copying
  <2>2. \A i \in DOMAIN sent : 4 * Len(sent[i].words) <= MaxBatchSize
    <3> SUFFICES ASSUME NEW i \in DOMAIN sent
                 PROVE  4 * Len(sent[i].words) <= MaxBatchSize
      OBVIOUS
    <3>1. PICK packet \in Packets : sent[i].words = Terminated(packet)
      BY RanPackets DEF IsSent
    <3>2. 4 * Len(Terminated(packet)) <= MaxBatchSize
      BY PacketBatch
    <3> QED
      BY <3>1, <3>2
  <2> QED
    BY <2>1, <2>2 DEF MapNeverOverflows
<1> QED
  BY <1>1, Invariance, PTL

\* Every batch that is handed over is ended once, and padded.
THEOREM Ended == Spec => []BatchesEnd
<1>1. IInv => BatchesEnd
  <2> SUFFICES ASSUME IInv, NEW i \in DOMAIN sent
               PROVE  LET w == sent[i].words IN
                      /\ Len(w) % 2 = 0
                      /\ \E n \in DOMAIN w :
                           /\ w[n] = "MI_BATCH_BUFFER_END"
                           /\ \A k \in DOMAIN w \ {n} :
                                IF k > n THEN w[k] = "MI_NOOP"
                                         ELSE w[k] # "MI_BATCH_BUFFER_END"
    BY DEF BatchesEnd
  <2>1. PICK packet \in Packets : sent[i].words = Terminated(packet)
    BY RanPackets DEF IsSent
  <2> DEFINE w == sent[i].words
             n == Len(packet) + 1
  <2>2. /\ packet \in Seq(Words) /\ w \in Seq(Words) /\ Len(w) % 2 = 0
        /\ n \in 1 .. Len(w) /\ w[n] = "MI_BATCH_BUFFER_END"
        /\ \A k \in 1 .. Len(packet) : w[k] # "MI_BATCH_BUFFER_END"
        /\ \A k \in 1 .. Len(w) : k > n => w[k] = "MI_NOOP"
    BY <2>1, PacketBatch
  <2> HIDE DEF w
  <2>3. DOMAIN w = 1 .. Len(w) /\ Len(packet) \in Nat /\ Len(w) \in Nat
    BY <2>2
  <2>4. \A k \in DOMAIN w \ {n} : IF k > n THEN w[k] = "MI_NOOP"
                                   ELSE w[k] # "MI_BATCH_BUFFER_END"
    BY <2>2, <2>3
  <2> QED
    BY <2>2, <2>3, <2>4 DEF w
<1> QED
  BY <1>1, Invariance, PTL

\* The relocations of a batch handed over are those of its own address words.
THEOREM RelocsOwn == Spec => []RelocsMatch
<1>1. IInv => RelocsMatch
  <2> SUFFICES ASSUME IInv, NEW i \in DOMAIN sent
               PROVE  LET w == sent[i].words
                          Target(k) == IF w[k] = "dst" THEN call.dst ELSE call.src
                      IN sent[i].relocs =
                           {<<k - 1, Target(k)>> :
                              k \in {j \in DOMAIN w : w[j] \in {"dst", "src"}}}
    BY DEF RelocsMatch
  <2>1. PICK packet \in Packets :
          IsSent(sent[i], packet) /\ (packet # MiFlush => Blits)
    BY RanPackets
  <2>2. CallRelocs(packet) = Relocations(packet, 0, call.dst, call.src)
    BY <2>1, MiFlushRelocations DEF CallRelocs
  <2>3. sent[i].words = Terminated(packet) /\ sent[i].relocs = CallRelocs(packet)
    BY <2>1 DEF IsSent
  <2> QED
    BY <2>2, <2>3, PacketRelocations
<1> QED
  BY <1>1, Invariance, PTL

\* Nothing is submitted to the wrong ring.
THEOREM OnRightRing == Spec => []RightRing
<1>1. IInv => RightRing
  BY RanPackets DEF RightRing, IsSent, Ring
<1> QED
  BY <1>1, Invariance, PTL

\* Between calls the batch is empty and references nothing.
THEOREM NothingLeft == Spec => []NothingPending
<1>1. IInv => NothingPending
  BY DEF IInv, Progress, BatchEmpty, NothingPending
<1> QED
  BY <1>1, Invariance, PTL

\* The result of a blit tells what was handed over.
THEOREM ResultsTrue == Spec => []ResultsTell
<1>1. IInv => ResultsTell
  <2> SUFFICES ASSUME IInv, pc = "idle", call.op \in {"fill", "copy"}
               PROVE  IF ret = 0
                      THEN /\ Len(sent) = 2
                           /\ sent[1].words[1] = (IF call.op = "fill"
                                THEN ColorBlt[1] ELSE CopyBlt[1])
                           /\ sent[2].words[1] = "MI_FLUSH"
                      ELSE sent = <<>>
    BY DEF ResultsTell
  <2>1. CASE ret = 0
    <3>1. AllSent /\ Blits
      BY <2>1 DEF IInv, Progress, Blits
    <3>2. /\ Len(sent) = 2
          /\ sent[1].words = Terminated(BlitPacket)
          /\ sent[2].words = Terminated(MiFlush)
      BY <3>1 DEF AllSent, IsSent
    <3>3. BlitPacket \in Packets /\ MiFlush \in Packets
      BY DEF BlitPacket, Packets
    <3>4. sent[1].words[1] = BlitPacket[1] /\ sent[2].words[1] = MiFlush[1]
      BY <3>2, <3>3, PacketBatch
    <3> QED
      BY <2>1, <3>2, <3>4, PacketWords DEF BlitPacket
  <2>2. CASE ret # 0
    BY <2>2 DEF IInv, Progress
  <2> QED
    BY <2>1, <2>2
<1> QED
  BY <1>1, Invariance, PTL

\* A copy is handed over only if its surfaces fitted into the aperture.
THEOREM CopiesFit == Spec => []CopyFits
<1>1. IInv => CopyFits
  BY DEF IInv, CopyPassed, CopyFits
<1> QED
  BY <1>1, Invariance, PTL
=============================================================================
