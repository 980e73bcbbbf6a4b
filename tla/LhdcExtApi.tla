------------------------------ MODULE LhdcExtApi ------------------------------
(***************************************************************************)
(* The Savitech LHDC extended API of A2dpCodecs (a2dp_codec_config.cc,    *)
(* "LHDC_EXT_API"): getLHDCCodecUserConfig, setLHDCCodecUserConfig,       *)
(* setLHDCCodecUserData and getLHDCCodecUserApiVer.                       *)
(*                                                                         *)
(* A caller hands in a byte buffer codecConfig of declared length clen.   *)
(* Bytes 0..3 are the big-endian API version, bytes 4..7 the big-endian  *)
(* function code, whose first byte (API_CODE_HEAD) is also the type tag  *)
(* that routes an LHDC V3 call to this file's "A2DP specifics" reply or  *)
(* to the LHDC V3 encoder library. The reply writes the four             *)
(* codec_specific_* fields of one configuration of current_codec_config_ *)
(* into the buffer as big-endian int64 (swapInt64toByteArray).           *)
(*                                                                         *)
(* The header constants (offsets, sizes, codes) are in Savitech headers  *)
(* that are not in this repository; they are CONSTANTs. Calls that the   *)
(* code forwards to the per-codec files (LHDC V5 descriptor, LHDC V3     *)
(* encoder library) are abstracted to the status they return. A 4-byte   *)
(* big-endian field compared with a constant is compared as its 4 bytes. *)
(***************************************************************************)
EXTENDS Integers, Sequences, SequencesExt

CONSTANTS
  Inputs,              \* the calls offered: operation, arguments, registry state
  NoCodec,             \* a nullptr peerCodec or current_codec_config_
  API_VERSION_SIZE,    \* LHDC_EXTEND_FUNC_CONFIG_API_VERSION_SIZE
  API_CODE_HEAD,       \* LHDC_EXTEND_FUNC_CONFIG_API_CODE_HEAD
  API_CODE_SIZE,       \* LHDC_EXTEND_FUNC_CONFIG_API_CODE_SIZE
  A2DPCFG_CODE_HEAD,   \* LHDC_EXTEND_FUNC_CONFIG_A2DPCFG_CODE_HEAD
  A2DP_TYPE_MASK,      \* LHDC_EXTEND_FUNC_CODE_A2DP_TYPE_MASK
  LIB_TYPE_MASK,       \* LHDC_EXTEND_FUNC_CODE_LIB_TYPE_MASK
  FUNC_CODE_GET_SPECIFIC,      \* EXTEND_FUNC_CODE_GET_SPECIFIC, as 4 bytes
  FUNC_VER_GET_SPECIFIC_V1,    \* EXTEND_FUNC_VER_GET_SPECIFIC_V1, as 4 bytes
  FUNC_VER_GET_SPECIFIC_V2,    \* EXTEND_FUNC_VER_GET_SPECIFIC_V2, as 4 bytes
  KindCode,            \* LHDC_EXTEND_FUNC_A2DP_TYPE_SPECIFICS_<kind> byte values
  SPECIFICS_HEAD_V1,   \* <<SPECIFICS1_HEAD_V1, ..., SPECIFICS4_HEAD_V1>>
  SPECIFICS_HEAD_V2,   \* <<SPECIFICS1_HEAD_V2, ..., SPECIFICS4_HEAD_V2>>
  CAPMETA_HEAD_V2,     \* LHDC_EXTEND_FUNC_A2DP_CAPMETA_HEAD_V2
  CapMetaBytes,        \* what A2DP_VendorGetSrcCapVectorLhdcv3 writes there
  TOTAL_FIXED_SIZE_V1, TOTAL_FIXED_SIZE_V2,
  DescriptorConfig     \* codec -> configuration kind -> <<specific_1..4>>

\* The getters of A2dpCodecConfig selected by the A2DPCFG code byte.
Kinds == {"FINAL_CFG", "FINAL_CAP", "LOCAL_CAP", "SELECTABLE_CAP",
          "USER_CFG", "AUDIO_CFG"}

BufSize == TOTAL_FIXED_SIZE_V2
Bytes   == 0..255

SUCCESS == "BT_STATUS_SUCCESS"
FAIL    == "BT_STATUS_FAIL"

ASSUME /\ KindCode \in [Kinds -> Bytes]
       /\ \A k1, k2 \in Kinds : KindCode[k1] = KindCode[k2] => k1 = k2
       /\ FUNC_CODE_GET_SPECIFIC[1] = A2DP_TYPE_MASK
       /\ API_CODE_HEAD = API_VERSION_SIZE
       /\ TOTAL_FIXED_SIZE_V1 <= TOTAL_FIXED_SIZE_V2
       /\ A2DPCFG_CODE_HEAD < BufSize
       /\ \A s \in 1..4 : /\ SPECIFICS_HEAD_V1[s] + 8 <= TOTAL_FIXED_SIZE_V1
                          /\ SPECIFICS_HEAD_V2[s] + 8 <= TOTAL_FIXED_SIZE_V2
       /\ CAPMETA_HEAD_V2 + Len(CapMetaBytes) <= TOTAL_FIXED_SIZE_V2

VARIABLES
  call,     \* the call being made: operation, arguments, current codec
  buf,      \* the caller's buffer codecConfig[0 .. BufSize-1]
  ret,      \* the return value of the last call
  reads,    \* indices of buf read by this file's code during the last call
  route     \* which implementation served the last call

vars == <<call, buf, ret, reads, route>>

-----------------------------------------------------------------------------
(* swapInt64toByteArray                                                    *)

\* byteArray[k] = (v & (0xFF << 8(7-k))) >> 8(7-k): big-endian two's
\* complement. The modelled codec_specific values fit in 32 bits, so the
\* four leading bytes are the sign extension.
Int64Byte(v, k) ==
  IF 7 - k < 4 THEN (v \div (2 ^ (8 * (7 - k)))) % 256
  ELSE IF v < 0 THEN 255 ELSE 0

\* swapInt64toByteArray(&b[head], v).
WriteInt64(b, head, v) ==
  [i \in DOMAIN b |-> IF i \in head..(head + 7) THEN Int64Byte(v, i - head)
                      ELSE b[i]]

\* The && chain of four swaps: every call succeeds on a non-null pointer.
WriteSpecifics(b, heads, cfg) ==
  FoldLeft(LAMBDA acc, s : WriteInt64(acc, heads[s], cfg[s]), b, <<1, 2, 3, 4>>)

-----------------------------------------------------------------------------
(* getLHDCA2DPSpecficV1 / getLHDCA2DPSpecficV2                             *)

Reply(ok, b) == [ok |-> ok, buf |-> b]

\* V1: size check, then the four specifics.
GetSpecificV1(cfg, b, clen) ==
  IF clen < TOTAL_FIXED_SIZE_V1 THEN Reply(FALSE, b)
  ELSE Reply(TRUE, WriteSpecifics(b, SPECIFICS_HEAD_V1, cfg))

\* V2: size check, the four specifics, then the capability metadata; a
\* failing A2DP_VendorGetSrcCapVectorLhdcv3 leaves the specifics written.
GetSpecificV2(cfg, b, clen, capOk) ==
  IF clen < TOTAL_FIXED_SIZE_V2 THEN Reply(FALSE, b)
  ELSE LET b1 == WriteSpecifics(b, SPECIFICS_HEAD_V2, cfg)
       IN  IF ~capOk THEN Reply(FALSE, b1)
           ELSE Reply(TRUE, [i \in DOMAIN b1 |->
                  IF i - CAPMETA_HEAD_V2 \in 0..(Len(CapMetaBytes) - 1)
                  THEN CapMetaBytes[i - CAPMETA_HEAD_V2 + 1] ELSE b1[i]])

-----------------------------------------------------------------------------
(* A2dpCodecs::getLHDCCodecUserConfig                                      *)

Outcome(r, rt, rd, b) == [ret |-> r, route |-> rt, reads |-> rd, buf |-> b]

\* pucConfig[first..first+3] as a big-endian 4-byte field.
Field4(b, first) == [i \in 1..4 |-> b[first + i - 1]]

\* Defect: SELECTABLE_CAP is answered with the local capability.
KindOfSwapped(byte) ==
  LET k == CHOOSE k \in Kinds : KindCode[k] = byte
  IN  IF k = "SELECTABLE_CAP" THEN "LOCAL_CAP" ELSE k

\* The switch on pucConfig[A2DPCFG_CODE_HEAD]: which getter supplies the
\* configuration.
KindOf(byte) == CHOOSE k \in Kinds : KindCode[k] = byte

\* The LHDC A2DP-type branch: generic header size check, current codec
\* check, function code, configuration kind, function version. Each
\* failing check is a goto Fail with result BT_STATUS_FAIL.
A2dpSpecifics(c, b) ==
  LET r0 == {API_CODE_HEAD}
      r1 == r0 \cup 0..(API_VERSION_SIZE + API_CODE_SIZE - 1)
      r2 == r1 \cup {A2DPCFG_CODE_HEAD}
      ver == Field4(b, 0)
      code == Field4(b, API_CODE_HEAD)
      kb == b[A2DPCFG_CODE_HEAD]
  IN
  CASE c.clen < API_VERSION_SIZE + API_CODE_SIZE -> Outcome(FAIL, "A2DP", r0, b)
    [] c.current = NoCodec -> Outcome(FAIL, "A2DP", r0, b)
    [] code # FUNC_CODE_GET_SPECIFIC -> Outcome(FAIL, "A2DP", r1, b)
    [] kb \notin Range(KindCode) -> Outcome(FAIL, "A2DP", r2, b)
    [] OTHER ->
         LET cfg == DescriptorConfig[c.current][KindOf(kb)]
             rep == CASE ver = FUNC_VER_GET_SPECIFIC_V1 ->
                           GetSpecificV1(cfg, b, c.clen)
                      [] ver = FUNC_VER_GET_SPECIFIC_V2 ->
                           GetSpecificV2(cfg, b, c.clen, c.capOk)
                      [] OTHER -> Reply(FALSE, b)
         IN  Outcome(IF rep.ok THEN SUCCESS ELSE FAIL, "A2DP", r2, rep.buf)

\* The LHDC V3 case: the type tag codecConfig[API_CODE_HEAD] is read first.
LhdcV3UserConfig(c, b) ==
  CASE b[API_CODE_HEAD] = A2DP_TYPE_MASK -> A2dpSpecifics(c, b)
    [] b[API_CODE_HEAD] = LIB_TYPE_MASK ->
         Outcome(c.delegated, "LHDCV3_LIB", {API_CODE_HEAD}, b)
    [] OTHER -> Outcome(FAIL, "none", {API_CODE_HEAD}, b)

GetLHDCCodecUserConfig(c, b) ==
  CASE c.peer = NoCodec \/ c.nullBuf -> Outcome(FAIL, "none", {}, b)
    [] c.peer = "LHDCV5" -> Outcome(c.delegated, "LHDCV5", {}, b)
    [] c.peer = "LHDCV3" -> LhdcV3UserConfig(c, b)
    [] OTHER -> Outcome(FAIL, "none", {}, b)

-----------------------------------------------------------------------------
(* setLHDCCodecUserConfig, setLHDCCodecUserData, getLHDCCodecUserApiVer    *)

\* The three forwarders: null arguments and codecs without the extended
\* API fail; LHDC V5 goes to the descriptor, LHDC V3 to the encoder
\* library. setLHDCCodecUserData returns true once it has forwarded, its
\* result recorded here as SUCCESS.
Forward(c, b) ==
  CASE c.peer = NoCodec \/ c.nullBuf -> Outcome(FAIL, "none", {}, b)
    [] c.peer = "LHDCV5" -> Outcome(c.delegated, "LHDCV5", {}, b)
    [] c.peer = "LHDCV3" -> Outcome(c.delegated, "LHDCV3_LIB", {}, b)
    [] OTHER -> Outcome(FAIL, "none", {}, b)

ForwardData(c, b) ==
  CASE c.peer = NoCodec \/ c.nullBuf -> Outcome(FAIL, "none", {}, b)
    [] c.peer = "LHDCV5" -> Outcome(SUCCESS, "LHDCV5", {}, b)
    [] c.peer = "LHDCV3" -> Outcome(SUCCESS, "LHDCV3_LIB", {}, b)
    [] OTHER -> Outcome(FAIL, "none", {}, b)

-----------------------------------------------------------------------------
(* The calls                                                               *)

\* A call's outcome becomes the state: return value, route, reads, buffer.
Return(o) ==
  /\ ret' = o.ret
  /\ route' = o.route
  /\ reads' = o.reads
  /\ buf' = o.buf
  /\ UNCHANGED call

getLHDCCodecUserConfig ==
  /\ call.op = "getUserConfig"
  /\ Return(GetLHDCCodecUserConfig(call, buf))

setLHDCCodecUserConfig ==
  /\ call.op = "setUserConfig"
  /\ Return(Forward(call, buf))

setLHDCCodecUserData ==
  /\ call.op = "setUserData"
  /\ Return(ForwardData(call, buf))

getLHDCCodecUserApiVer ==
  /\ call.op = "getUserApiVer"
  /\ Return(Forward(call, buf))

\* One call per behaviour, chosen with its arguments at the start; the
\* caller may repeat it on the buffer it got back.
Init ==
  /\ call \in Inputs
  /\ buf = call.bytes
  /\ ret = FAIL
  /\ reads = {}
  /\ route = "none"

Next ==
  \/ getLHDCCodecUserConfig
  \/ setLHDCCodecUserConfig
  \/ setLHDCCodecUserData
  \/ getLHDCCodecUserApiVer

Spec == Init /\ [][Next]_vars

-----------------------------------------------------------------------------
(* Properties                                                              *)

\* The reference decoding of 8 bytes as a big-endian two's-complement
\* integer whose value fits in 32 bits (the four leading bytes are the
\* sign); NoValue when the bytes are not such an integer.
NoValue == "not an int32"
DecodeInt64(b, head) ==
  LET low   == [i \in 1..4 |-> b[head + 3 + i]]
      neg   == low[1] >= 128
      fill  == IF neg THEN 255 ELSE 0
      mag   == FoldLeft(LAMBDA acc, x : acc * 256 + x, 0,
                        IF neg THEN [i \in 1..4 |-> 255 - low[i]] ELSE low)
  IN  IF \A i \in 0..3 : b[head + i] = fill
      THEN IF neg THEN -mag - 1 ELSE mag
      ELSE NoValue

\* The layout a successful reply uses: V1 or V2 by the version field.
ReplyHeads(b) ==
  IF Field4(b, 0) = FUNC_VER_GET_SPECIFIC_V1 THEN SPECIFICS_HEAD_V1
  ELSE SPECIFICS_HEAD_V2

\* getLHDCCodecUserConfig, A2DP specifics: after a successful reply, each
\* of the four slots of the requested layout decodes (big-endian, two's
\* complement) to codec_specific_1..4 of the requested configuration of
\* the current codec, for negative as well as non-negative values and
\* values with bit 31 set (the modelled values fit in 32 bits).
ReplyEncodesSelectedConfig ==
  ret = SUCCESS /\ route = "A2DP" =>
    LET want == [k \in Kinds |-> DescriptorConfig[call.current][k]]
        kind == CHOOSE k \in Kinds : KindCode[k] = buf[A2DPCFG_CODE_HEAD]
    IN  \A s \in 1..4 :
          DecodeInt64(buf, ReplyHeads(buf)[s]) = want[kind][s]

\* getLHDCCodecUserConfig reads no byte of codecConfig at or beyond the
\* length clen the caller declared.
HeaderReadsInBounds ==
  call.nullBuf \/ \A i \in reads : i < call.clen

=============================================================================
