---------------------------- MODULE OffloadEncoder ----------------------------
(***************************************************************************)
(* A2dpCodecConfig::getCodecSpecificConfig (a2dp_codec_config.cc): the    *)
(* re-packing of the negotiated OTA configuration into the fixed-layout   *)
(* tBT_A2DP_OFFLOAD::codec_info consumed by offload hardware.            *)
(*                                                                         *)
(* The OTA bytes are abstracted to the fields the encoder reads: the      *)
(* media codec type, the validity verdict of A2DP_IsSourceCodecValid, the *)
(* vendor and codec ids, the version, flag and bit-rate fields of bytes   *)
(* 9..13 of the LHDC layouts, and codec_config_.codec_specific_1. The raw *)
(* bytes the SBC and AAC paths copy are the integers in.raw[i]. The       *)
(* numeric values of the header constants (quality codes, tier values,    *)
(* byte offsets of the LHDC fields) are not in this file; quality codes   *)
(* are a CONSTANT and the written LHDC fields are named, not numbered.   *)
(***************************************************************************)
EXTENDS Integers, FiniteSets

CONSTANTS
  Inputs,            \* the OTA configurations offered to the encoder
  LhdcQualityCode,   \* A2DP_LHDC_QUALITY_<q>: quality name -> 4-bit code
  LDAC_VENDOR_ID, LDAC_CODEC_ID, LHDC_VENDOR_ID,
  LHDCV2_CODEC_ID, LHDCV3_CODEC_ID, LHDCV5_CODEC_ID,
  LHDC_VER2, LHDC_VER3, LHDC_VER6,  \* values of the A2DP_LHDC_VERSION_MASK bits
  LHDCV5_VER_1,                     \* value of the A2DP_LHDCV5_VERSION_MASK bits
  LDAC_QUALITY_HIGH, LDAC_QUALITY_MID, LDAC_QUALITY_LOW,
  LDAC_QUALITY_ABR_OFFLOAD          \* A2DP_LDAC_QUALITY_* byte values

\* The A2DP_LHDC_QUALITY_* names; the offload tier constants
\* A2DP_OFFLOAD_LHDC_QUALITY_* carry the same names.
Qualities == {"LOW0", "LOW1", "LOW2", "LOW3", "LOW4", "LOW", "MID", "HIGH",
              "HIGH1", "ABR"}

Zero == "zero"            \* a field left as memset() wrote it
NoFlags == {}             \* SPEC1 / SPEC2 with no bit set

ASSUME /\ LhdcQualityCode \in [Qualities -> 0..15]
       /\ \A p, q \in Qualities : LhdcQualityCode[p] = LhdcQualityCode[q] => p = q

VARIABLES
  otaConfig,   \* the descriptor's ota_codec_config_ (and codec_specific_1)
  codecInfo,   \* p_a2dp_offload->codec_info after the last call
  ret,         \* the return value of the last call
  called       \* getCodecSpecificConfig has been called at least once

vars == <<otaConfig, codecInfo, ret, called>>

\* codec_info after memset(..., 0, ...): the eight leading bytes and the
\* LHDC fields (A2DP_OFFLOAD_LHDC_CFG_*).
ZeroInfo ==
  [bytes |-> [i \in 0..7 |-> 0],
   ver |-> Zero, bitrate |-> Zero, maxBitrate |-> Zero, minBitrate |-> Zero,
   frameDur |-> Zero, interval |-> Zero,
   spec1 |-> NoFlags, spec2 |-> NoFlags]

-----------------------------------------------------------------------------
(* C arithmetic                                                            *)

\* The C remainder truncates toward zero: -9 % 10 is -9, not 1.
CRem(a, b) == IF a >= 0 THEN a % b ELSE -((-a) % b)

\* x & 0x0F of a two's-complement integer.
LowNibble(x) == x % 16

\* Byte k (0 = least significant) of a non-negative 32-bit value:
\* (v & (0xFF << 8k)) >> 8k.
ByteOf(v, k) == (v \div (2 ^ (8 * k))) % 256

-----------------------------------------------------------------------------
(* Standard codecs                                                         *)

\* SBC: blk_len|subbands|alloc, min bitpool, max bitpool, freq|channel mode.
SbcOffload(in, info) ==
  [info EXCEPT !.bytes = [@ EXCEPT ![0] = in.raw[4], ![1] = in.raw[5],
                                   ![2] = in.raw[6], ![3] = in.raw[3]]]

\* AAC: object type and VBR|bit rate.
AacOffload(in, info) ==
  [info EXCEPT !.bytes = [@ EXCEPT ![0] = in.raw[3], ![1] = in.raw[6]]]

\* Non-A2DP codecs: little-endian vendor id in bytes 0..3, codec id in 4..5.
VendorIdBytes(in, info) ==
  [info EXCEPT !.bytes =
     [i \in 0..7 |-> CASE i \in 0..3 -> ByteOf(in.vendorId, i)
                       [] i \in 4..5 -> ByteOf(in.codecId, i - 4)
                       [] OTHER      -> @[i]]]

\* Defect: the codec_specific_1 == 0 (default, ABR) test is missing.
LdacQualityNoDefault(cs1) ==
  CASE CRem(cs1, 10) = 0 -> LDAC_QUALITY_HIGH
    [] CRem(cs1, 10) = 1 -> LDAC_QUALITY_MID
    [] CRem(cs1, 10) = 2 -> LDAC_QUALITY_LOW
    [] OTHER             -> LDAC_QUALITY_ABR_OFFLOAD

\* LDAC: codec_specific_1 == 0 is ABR, otherwise its last decimal digit
\* (C remainder) selects HIGH, MID, LOW, or ABR; byte 7 is the LDAC
\* channel mode (byte 10 of the OTA configuration).
LdacQuality(cs1) ==
  IF cs1 = 0 THEN LDAC_QUALITY_ABR_OFFLOAD
  ELSE CASE CRem(cs1, 10) = 0 -> LDAC_QUALITY_HIGH
         [] CRem(cs1, 10) = 1 -> LDAC_QUALITY_MID
         [] CRem(cs1, 10) = 2 -> LDAC_QUALITY_LOW
         [] OTHER             -> LDAC_QUALITY_ABR_OFFLOAD

LdacOffload(in, info) ==
  [info EXCEPT !.bytes = [@ EXCEPT ![6] = LdacQuality(in.cs1),
                                   ![7] = in.raw[10]]]

-----------------------------------------------------------------------------
(* LHDC: the tables shared in form by the three revisions                  *)

\* The quality name whose A2DP_LHDC_QUALITY_* code is codec_specific_1 & 0x0F,
\* or "OTHER" when no case label matches.
QualityOf(cs1) ==
  IF \E q \in Qualities : LhdcQualityCode[q] = LowNibble(cs1)
  THEN CHOOSE q \in Qualities : LhdcQualityCode[q] = LowNibble(cs1)
  ELSE "OTHER"

\* A revision's encode so far: the fields written and whether it aborted.
Step(info) == [ok |-> TRUE, info |-> info]
Abort(info) == [ok |-> FALSE, info |-> info]

\* Defect: an unsupported split mode is ignored instead of aborting.
SplitModeNoAbort(in, info) ==
  IF in.split = "TWS" THEN Step([info EXCEPT !.spec2 = @ \cup {"SPLIT"}])
  ELSE Step([info EXCEPT !.spec2 = NoFlags])

\* The TWS channel-split field of byte 11 (V2 and V3): none clears SPEC2,
\* TWS sets the split bit, any other value aborts.
SplitMode(in, info) ==
  CASE in.split = "NONE" -> Step([info EXCEPT !.spec2 = NoFlags])
    [] in.split = "TWS"  -> Step([info EXCEPT !.spec2 = @ \cup {"SPLIT"}])
    [] OTHER             -> Abort(info)

\* Data interval: the low-latency bit selects 10 ms, else 20 ms.
DataInterval(ll) == IF ll THEN "10MS" ELSE "20MS"

-----------------------------------------------------------------------------
(* LHDC V3                                                                 *)

\* Main version VER3 or VER6; the LLAC and LHDCV4 feature bits select the
\* version field, both set falling back to V3-only.
LhdcV3VersionField(in) ==
  CASE in.llac /\ ~in.v4 -> "V3_LLAC"
    [] ~in.llac /\ in.v4 -> "V3_V4_ONLY"
    [] OTHER             -> "V3_V3_ONLY"

\* HIGH1 is not supported in V3 and is sent as HIGH; unknown codes as ABR.
LhdcV3BitrateTier(cs1) ==
  LET q == QualityOf(cs1)
  IN  CASE q = "HIGH1" -> "HIGH"
        [] q = "OTHER" -> "ABR"
        [] OTHER       -> q

\* Max bit rate 400K -> LOW, 500K -> MID, anything else -> HIGH; the
\* MIN_BR feature bit selects LOW4 as the minimum, else LOW1.
LhdcV3Limits(in, info) ==
  [info EXCEPT
     !.maxBitrate = CASE in.maxBr = "400K" -> "LOW"
                      [] in.maxBr = "500K" -> "MID"
                      [] OTHER             -> "HIGH",
     !.minBitrate = IF in.minBrFlag THEN "LOW4" ELSE "LOW1"]

LhdcV3Offload(in, info) ==
  IF in.ver \notin {LHDC_VER3, LHDC_VER6} THEN Abort(info)
  ELSE LET written ==
             [LhdcV3Limits(in, info) EXCEPT
                !.ver = LhdcV3VersionField(in),
                !.bitrate = LhdcV3BitrateTier(in.cs1),
                !.interval = DataInterval(in.ll),
                !.spec1 = @ \cup (in.feats \cap {"AR", "JAS", "META"})]
       IN  SplitMode(in, written)

-----------------------------------------------------------------------------
(* LHDC V2                                                                 *)

\* HIGH1 is not supported in V2 and is sent as HIGH; unknown codes as ABR.
LhdcV2BitrateTier(cs1) ==
  LET q == QualityOf(cs1)
  IN  CASE q = "HIGH1" -> "HIGH"
        [] q = "OTHER" -> "ABR"
        [] OTHER       -> q

\* Defect: the V3 feature-flag code copied into the V2 branch.
LhdcV2OffloadWithFeatures(in, info) ==
  IF in.ver > LHDC_VER2 THEN Abort(info)
  ELSE SplitMode(in, [info EXCEPT
                        !.ver = "V2_VER_1",
                        !.bitrate = LhdcV2BitrateTier(in.cs1),
                        !.maxBitrate = CASE in.maxBr = "400K" -> "LOW"
                                         [] in.maxBr = "500K" -> "MID"
                                         [] OTHER             -> "HIGH",
                        !.interval = DataInterval(in.ll),
                        !.spec1 = in.feats \cap {"AR", "JAS", "META"}])

\* Versions up to VER2; no minimum bit rate, frame duration or feature
\* flags are written.
LhdcV2Offload(in, info) ==
  IF in.ver > LHDC_VER2 THEN Abort(info)
  ELSE LET written ==
             [info EXCEPT
                !.ver = "V2_VER_1",
                !.bitrate = LhdcV2BitrateTier(in.cs1),
                !.maxBitrate = CASE in.maxBr = "400K" -> "LOW"
                                 [] in.maxBr = "500K" -> "MID"
                                 [] OTHER             -> "HIGH",
                !.interval = DataInterval(in.ll)]
       IN  SplitMode(in, written)

-----------------------------------------------------------------------------
(* LHDC V5                                                                 *)

\* V5 keeps HIGH1 as its own tier; unknown codes are sent as ABR.
LhdcV5BitrateTier(cs1) ==
  LET q == QualityOf(cs1)
  IN  IF q = "OTHER" THEN "ABR" ELSE q

\* Max bit rate 400K/500K/900K -> LOW/MID/HIGH, anything else -> HIGH1;
\* min bit rate 64K/128K/256K -> LOW0/LOW1/LOW3, anything else -> LOW.
LhdcV5Limits(in, info) ==
  [info EXCEPT
     !.maxBitrate = CASE in.maxBr = "400K" -> "LOW"
                      [] in.maxBr = "500K" -> "MID"
                      [] in.maxBr = "900K" -> "HIGH"
                      [] OTHER             -> "HIGH1",
     !.minBitrate = CASE in.minBr = "64K"  -> "LOW0"
                      [] in.minBr = "128K" -> "LOW1"
                      [] in.minBr = "256K" -> "LOW3"
                      [] OTHER             -> "LOW"]

\* Version V5_VER_1 only; a zero frame-length field aborts after the
\* version and bit-rate fields have been written.
LhdcV5Offload(in, info) ==
  IF in.ver # LHDCV5_VER_1 THEN Abort(info)
  ELSE LET head == [LhdcV5Limits(in, info) EXCEPT
                      !.ver = "V5_VER_1",
                      !.bitrate = LhdcV5BitrateTier(in.cs1)]
       IN  IF in.frameLen = 0 THEN Abort(head)
           ELSE Step([head EXCEPT
                        !.frameDur = "5000US",
                        !.interval = DataInterval(in.ll),
                        !.spec1 = @ \cup (in.feats \cap {"AR", "JAS", "META"}),
                        !.spec2 = IF in.arOn THEN @ \cup {"AR_ON"} ELSE @])

-----------------------------------------------------------------------------
(* getCodecSpecificConfig                                                  *)

IsLhdc(in, codecId) ==
  in.vendorId = LHDC_VENDOR_ID /\ in.codecId = codecId

\* The A2DP_MEDIA_CT_NON_A2DP case: the vendor and codec id bytes, then the
\* vendor codec's own fields; an unknown vendor codec stops there.
VendorOffload(in, info) ==
  LET base == VendorIdBytes(in, info)
  IN  CASE in.vendorId = LDAC_VENDOR_ID /\ in.codecId = LDAC_CODEC_ID ->
             Step(LdacOffload(in, base))
        [] IsLhdc(in, LHDCV3_CODEC_ID) -> LhdcV3Offload(in, base)
        [] IsLhdc(in, LHDCV2_CODEC_ID) -> LhdcV2Offload(in, base)
        [] IsLhdc(in, LHDCV5_CODEC_ID) -> LhdcV5Offload(in, base)
        [] OTHER -> Step(base)

\* codec_info is zeroed first; an invalid source configuration returns
\* false; the media codec type selects the packing; unknown types leave
\* the buffer zeroed and succeed.
CodecSpecificConfig(in) ==
  IF ~in.valid THEN Abort(ZeroInfo)
  ELSE CASE in.type = "SBC"      -> Step(SbcOffload(in, ZeroInfo))
         [] in.type = "AAC"      -> Step(AacOffload(in, ZeroInfo))
         [] in.type = "NON_A2DP" -> VendorOffload(in, ZeroInfo)
         [] OTHER                -> Step(ZeroInfo)

\* A descriptor holding some negotiated OTA configuration, before any call.
Init ==
  /\ otaConfig \in Inputs
  /\ codecInfo = ZeroInfo
  /\ ret = FALSE
  /\ called = FALSE

\* A call of getCodecSpecificConfig: it reads ota_codec_config_ and
\* codec_config_ and writes only the caller's buffer and return value.
GetCodecSpecificConfig ==
  LET r == CodecSpecificConfig(otaConfig)
  IN  /\ codecInfo' = r.info
      /\ ret' = r.ok
      /\ called' = TRUE
      /\ UNCHANGED otaConfig

Next == GetCodecSpecificConfig

Spec == Init /\ [][Next]_vars

-----------------------------------------------------------------------------
(* Properties                                                              *)

LhdcCodecIds == {LHDCV2_CODEC_ID, LHDCV3_CODEC_ID, LHDCV5_CODEC_ID}

IsLhdcConfig(in) ==
  in.type = "NON_A2DP" /\ in.vendorId = LHDC_VENDOR_ID /\ in.codecId \in LhdcCodecIds

\* The cases spec section 4.5 says the hardware cannot represent: a buffer
\* that is not a valid source configuration, an unsupported LHDC protocol
\* version, an unsupported split mode (V2, V3), an unsupported frame
\* duration (V5).
Unrepresentable(in) ==
  \/ ~in.valid
  \/ /\ IsLhdcConfig(in)
     /\ \/ in.codecId = LHDCV3_CODEC_ID
             /\ (in.ver \notin {LHDC_VER3, LHDC_VER6} \/ in.split \notin {"NONE", "TWS"})
        \/ in.codecId = LHDCV2_CODEC_ID
             /\ (in.ver > LHDC_VER2 \/ in.split \notin {"NONE", "TWS"})
        \/ in.codecId = LHDCV5_CODEC_ID
             /\ (in.ver # LHDCV5_VER_1 \/ in.frameLen = 0)

\* getCodecSpecificConfig returns false exactly for the configurations the
\* offload hardware cannot represent, and true for every other one.
EncodeFailsOnlyWhenUnrepresentable ==
  called => (~ret <=> Unrepresentable(otaConfig))

\* Spec section 4.5: fields absent from a revision are left zeroed: V2
\* writes no minimum bit rate, frame duration or feature flags, V3 no frame
\* duration, and the HIGH1 tier appears only in V5 output; V3 and V5 always
\* write a minimum bit rate, V5 always a frame duration.
RevisionFieldsOnly ==
  called /\ ret /\ IsLhdcConfig(otaConfig) =>
    /\ otaConfig.codecId = LHDCV2_CODEC_ID =>
         /\ codecInfo.minBitrate = Zero
         /\ codecInfo.frameDur = Zero
         /\ codecInfo.spec1 = NoFlags
    /\ otaConfig.codecId = LHDCV3_CODEC_ID =>
         codecInfo.frameDur = Zero /\ codecInfo.minBitrate # Zero
    /\ otaConfig.codecId = LHDCV5_CODEC_ID =>
         codecInfo.frameDur # Zero /\ codecInfo.minBitrate # Zero
    /\ "HIGH1" \in {codecInfo.bitrate, codecInfo.maxBitrate} =>
         otaConfig.codecId = LHDCV5_CODEC_ID

\* The LDAC offload bytes: the default codec_specific_1 of 0 and the ABR
\* quality 1003 give the ABR offload mode, the qualities 1000, 1001, 1002
\* give HIGH, MID, LOW; byte 7 carries the LDAC channel mode.
LdacQualityTier ==
  called /\ ret /\ otaConfig.type = "NON_A2DP"
    /\ otaConfig.vendorId = LDAC_VENDOR_ID /\ otaConfig.codecId = LDAC_CODEC_ID =>
      /\ codecInfo.bytes[7] = otaConfig.raw[10]
      /\ otaConfig.cs1 \in {0, 1003} =>
           codecInfo.bytes[6] = LDAC_QUALITY_ABR_OFFLOAD
      /\ \A k \in 0..2 :
           otaConfig.cs1 = 1000 + k =>
             codecInfo.bytes[6] =
               <<LDAC_QUALITY_HIGH, LDAC_QUALITY_MID, LDAC_QUALITY_LOW>>[k + 1]

=============================================================================
