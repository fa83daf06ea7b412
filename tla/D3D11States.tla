---------------------------- MODULE D3D11States ----------------------------
(***************************************************************************)
(* The render-state vector of the Direct3D 11 backend, the keys of its     *)
(* state-object cache, and what the three state objects made from a vector *)
(* say (Backend/D3D11States.cpp).  Pure definitions, no state.             *)
(*                                                                         *)
(* Depth_Key is computed exactly, on 32-bit words held as <<high, low>>    *)
(* pairs of 16 bits, because TLC's integers have 32 bits and a sign.       *)
(* Left out: blendOp (every caller passes ADD), depthEnable (every caller  *)
(* passes true) and the two-sided stencil fields (DX8Wrapper forwards the  *)
(* states 52..59 only, so nobody sets them).                               *)
(***************************************************************************)
EXTENDS Integers, Bitwise

Word == (0 .. 65535) \X (0 .. 65535)

AllBits == <<65535, 65535>>

(* 32-bit operators, half by half. *)
OrW(a, b) == <<a[1] | b[1], a[2] | b[2]>>
XorW(a, b) == <<a[1] ^^ b[1], a[2] ^^ b[2]>>
ShiftLeft(a, n) == <<(a[1] * 2^n + a[2] \div 2^(16 - n)) % 65536, (a[2] * 2^n) % 65536>>
ShiftRight(a, n) == <<a[1] \div 2^n, (a[1] % 2^n) * 2^(16 - n) + a[2] \div 2^n>>
PlusW(a, b) == <<(a[1] + b[1] + (a[2] + b[2]) \div 65536) % 65536, (a[2] + b[2]) % 65536>>

(* The low 16 bits of x * y, by the bytes of y: no product leaves 31 bits. *)
Low16(x, y) == (x * (y % 256) + ((x * (y \div 256)) % 256) * 256) % 65536

(* a * b modulo 2^32. *)
TimesW(a, b) ==
  LET byte == a[2] * (b[2] \div 256)
      low == a[2] * (b[2] % 256) + (byte % 256) * 256
      carry == low \div 65536 + byte \div 256
  IN  <<(carry + Low16(a[1], b[2]) + Low16(a[2], b[1])) % 65536, low % 65536>>

(* Enumeration values, D3D11States.h. *)
RB_BLEND_ZERO == 0
RB_BLEND_ONE == 1
RB_BLEND_SRCALPHA == 2
RB_BLEND_INVSRCALPHA == 3
RB_STENCILOP_KEEP == 0
RB_STENCILOP_REPLACE == 2
RB_CMP_NEVER == 0
RB_CMP_LESSEQUAL == 3
RB_CMP_ALWAYS == 7
RB_CULL_NONE == 0
RB_CULL_CW == 1
RB_FILL_SOLID == 0

(* The vector a backend starts from. *)
RenderStateVector ==
  [blendEnable |-> FALSE, srcBlend |-> RB_BLEND_ONE, dstBlend |-> RB_BLEND_ZERO,
   colorWriteEnable |-> 15, depthWrite |-> TRUE, depthFunc |-> RB_CMP_LESSEQUAL,
   stencilEnable |-> FALSE, stencilFunc |-> RB_CMP_ALWAYS,
   stencilFail |-> RB_STENCILOP_KEEP, stencilZFail |-> RB_STENCILOP_KEEP,
   stencilPass |-> RB_STENCILOP_KEEP, stencilRef |-> <<0, 0>>,
   stencilMask |-> AllBits, stencilWriteMask |-> AllBits,
   cullMode |-> RB_CULL_NONE, fillMode |-> RB_FILL_SOLID]

Bit(b) == IF b THEN 1 ELSE 0

(* Source and destination take part only while blending is on; the write   *)
(* mask always does.                                                       *)
Blend_Key(rs) ==
  rs.colorWriteEnable
    + IF rs.blendEnable THEN 16 + rs.srcBlend * 32 + rs.dstBlend * 512 ELSE 0

(* C++ binds ^ tighter than |, so the masks are mixed with the reference   *)
(* and the result is OR-ed over the four packed stencil fields.            *)
StencilHash(rs) ==
  LET fields == <<0, rs.stencilFunc + rs.stencilFail * 8
                       + rs.stencilZFail * 64 + rs.stencilPass * 512>>
      masks == XorW(XorW(ShiftLeft(rs.stencilRef, 12), rs.stencilMask),
                    TimesW(rs.stencilWriteMask, <<40503, 31161>>))
  IN  OrW(fields, masks)

(* The scrambling that follows: a bijection of the 32-bit words. *)
Scramble(s) ==
  LET s1 == XorW(s, ShiftRight(s, 15))
      s2 == TimesW(s1, <<9541, 62609>>)
      s3 == XorW(s2, ShiftRight(s2, 13))
  IN  PlusW(TimesW(s3, <<34283, 51819>>), <<10196, 60207>>)

Depth_Key(rs) ==
  LET k == Bit(TRUE) + Bit(rs.depthWrite) * 2 + rs.depthFunc * 4
  IN  IF rs.stencilEnable
      THEN XorW(<<0, k + 32>>, Scramble(StencilHash(rs)))
      ELSE <<0, k>>

Raster_Key(rs) == rs.cullMode + rs.fillMode * 4

(* What the created objects do: a disabled stage has no parameters, and    *)
(* only the low byte of a stencil mask is kept.                            *)
Blend_State(rs) ==
  [write |-> rs.colorWriteEnable,
   blend |-> IF rs.blendEnable THEN <<rs.srcBlend, rs.dstBlend>> ELSE <<>>]

Depth_State(rs) ==
  [write |-> rs.depthWrite, func |-> rs.depthFunc,
   stencil |-> IF rs.stencilEnable
               THEN <<rs.stencilFunc, rs.stencilFail, rs.stencilZFail, rs.stencilPass,
                      rs.stencilMask[2] % 256, rs.stencilWriteMask[2] % 256>>
               ELSE <<>>]

Rasterizer_State(rs) == [cull |-> rs.cullMode, fill |-> rs.fillMode]
=============================================================================
