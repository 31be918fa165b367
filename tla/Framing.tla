------------------------------ MODULE Framing ------------------------------
(***************************************************************************)
(* Where handle_intern and handle_extern                                   *)
(* (smartguard-crypto/src/session/handle.rs) put a packet in its buffer:   *)
(* offsets and lengths in bytes, the content left out.                     *)
(***************************************************************************)
EXTENDS Naturals

CONSTANTS
  BufLen,          \* tun_buffer and endpoint_buffer of run_tunnel: 2048
  KernelHeaderLen  \* 4 on macOS, 0 on Linux

ASSUME FramingAssumption ==
  /\ BufLen \in Nat /\ BufLen = 16 * (BufLen \div 16) /\ BufLen >= 32
  /\ KernelHeaderLen \in 0 .. 16

HeaderLen == 16       \* size_of::<DataHeader>()
TagLen == 16
IpPacketStart == IF HeaderLen <= KernelHeaderLen THEN KernelHeaderLen ELSE HeaderLen
TunBufStart == IpPacketStart - KernelHeaderLen

\* What the tun device or the socket can put into a buffer.
MaxPacket == BufLen - IpPacketStart
MaxDatagram == BufLen

NextMultipleOf16(n) == ((n + 15) \div 16) * 16

\* Mutant: a packet that needs no padding gets sixteen bytes of it.
PadToAlways(n) == IpPacketStart + (n \div 16 + 1) * 16

\* The end of the padded packet of n bytes, and of its frame.
PadTo(n) == IpPacketStart + NextMultipleOf16(n)
FrameStart == IpPacketStart - HeaderLen
FrameEnd(n) == PadTo(n) + TagLen
FrameLen(n) == FrameEnd(n) - FrameStart

\* The slices handle_intern takes of the buffer exist: the padding first, the
\* frame once there is a session to encrypt with.
PaddingFits(n) == PadTo(n) <= BufLen
FrameFits(n) == FrameEnd(n) <= BufLen

\* The plaintext of a frame of m bytes, and the slice of the received buffer
\* handle_extern hands to the tun device, kernel header first.
PayloadLen(m) == m - HeaderLen - TagLen
InboundEnd(m) == IpPacketStart + PayloadLen(m)
InboundLen(m) == InboundEnd(m) - TunBufStart

\* send_keepalive's own buffer.
KeepaliveLen == HeaderLen + TagLen
=============================================================================
