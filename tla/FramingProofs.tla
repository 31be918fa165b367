--------------------------- MODULE FramingProofs ---------------------------
(***************************************************************************)
(* What the offsets of Framing promise for packets of every length.        *)
(***************************************************************************)
EXTENDS Framing, TLAPS

LEMMA Starts ==
  /\ IpPacketStart = 16 /\ FrameStart = 0
  /\ TunBufStart \in 0 .. 16 /\ TunBufStart + KernelHeaderLen = IpPacketStart
  /\ BufLen \in Nat
BY FramingAssumption DEF IpPacketStart, HeaderLen, FrameStart, TunBufStart

LEMMA WholeBlocks == \E k \in Nat : BufLen = 16 * k
<1>1. BufLen \div 16 \in Nat
  BY FramingAssumption
<1> QED
  BY <1>1, FramingAssumption

LEMMA Padding ==
  ASSUME NEW n \in Nat
  PROVE  /\ NextMultipleOf16(n) \in Nat
         /\ NextMultipleOf16(n) >= n /\ NextMultipleOf16(n) < n + 16
         /\ NextMultipleOf16(n) % 16 = 0
BY DEF NextMultipleOf16

(* handle_intern frames every packet that leaves room for the header and   *)
(* the tag, and panics on each longer one: 2016 bytes is the largest MTU   *)
(* with which a packet of a peer with a session cannot bring the tunnel    *)
(* down, and nothing checks the configured one.                            *)
THEOREM FrameFitsExactly ==
  ASSUME NEW n \in Nat
  PROVE  FrameFits(n) <=> n <= BufLen - 32
<1>1. PICK k \in Nat : BufLen = 16 * k
  BY WholeBlocks
<1>2. PICK j \in Nat : NextMultipleOf16(n) = 16 * j
  BY DEF NextMultipleOf16
<1>3. FrameFits(n) <=> 16 * j + 32 <= 16 * k
  BY <1>1, <1>2, Starts DEF FrameFits, FrameEnd, PadTo, TagLen
<1>4. 16 * j >= n /\ 16 * j < n + 16
  BY <1>2, Padding
<1>5. ASSUME n <= 16 * k - 32 PROVE 16 * j <= 16 * k - 32
  BY <1>4, <1>5
<1>6. ASSUME 16 * j <= 16 * k - 32 PROVE n <= 16 * k - 32
  BY <1>4, <1>6
<1> QED
  BY <1>1, <1>3, <1>5, <1>6

(* The padding alone fits whatever the tun device can have put into the    *)
(* buffer: a packet for a peer without a session never panics.             *)
THEOREM PaddingAlwaysFits ==
  ASSUME NEW n \in 0 .. MaxPacket
  PROVE  PaddingFits(n)
<1>1. PICK k \in Nat : BufLen = 16 * k
  BY WholeBlocks
<1>2. PICK j \in Nat : NextMultipleOf16(n) = 16 * j
  BY Starts DEF NextMultipleOf16, MaxPacket
<1>3. n \in Nat /\ n <= 16 * k - 16
  BY <1>1, Starts DEF MaxPacket
<1>4. 16 * j < n + 16
  BY <1>2, <1>3, Padding
<1> QED
  BY <1>1, <1>2, <1>3, <1>4, Starts DEF PaddingFits, PadTo

(* A frame is the padded packet between header and tag, and what the peer  *)
(* takes out of it is the packet with less than 16 bytes of padding.       *)
THEOREM PacketSurvives ==
  ASSUME NEW n \in Nat
  PROVE  /\ FrameLen(n) = HeaderLen + NextMultipleOf16(n) + TagLen
         /\ PayloadLen(FrameLen(n)) >= n
         /\ PayloadLen(FrameLen(n)) < n + 16
<1>1. NextMultipleOf16(n) \in Nat /\ NextMultipleOf16(n) >= n /\ NextMultipleOf16(n) < n + 16
  BY Padding
<1>2. FrameLen(n) = 16 + NextMultipleOf16(n) + 16
  BY <1>1, Starts DEF FrameLen, FrameEnd, PadTo, TagLen
<1> QED
  BY <1>1, <1>2 DEF PayloadLen, HeaderLen, TagLen

(* handle_extern's slice lies inside the received datagram and holds the   *)
(* kernel header it writes in front of the packet: the .expect("Enough     *)
(* len for header") never fails.                                           *)
THEOREM InboundSliceFits ==
  ASSUME NEW m \in KeepaliveLen .. MaxDatagram
  PROVE  /\ TunBufStart <= InboundEnd(m) /\ InboundEnd(m) <= m
         /\ InboundLen(m) = KernelHeaderLen + PayloadLen(m)
         /\ InboundLen(m) >= KernelHeaderLen
BY Starts, FramingAssumption
  DEF InboundEnd, InboundLen, PayloadLen, HeaderLen, TagLen, KeepaliveLen, MaxDatagram

(* A keepalive is a frame without a payload, which the receiving           *)
(* handle_extern takes for nothing to deliver.                             *)
THEOREM KeepaliveIsEmpty == PayloadLen(KeepaliveLen) = 0 /\ KeepaliveLen = FrameLen(0)
BY Starts DEF PayloadLen, KeepaliveLen, FrameLen, FrameEnd, PadTo, NextMultipleOf16, HeaderLen, TagLen
=============================================================================
