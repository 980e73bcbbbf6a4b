--------------------------- MODULE CapabilityDispatch ---------------------------
(***************************************************************************)
(* The capability dispatch layer of a2dp_codec_config.cc: the stateless   *)
(* A2DP_* functions (lines 1744-2305) that read the codec-type tag of a   *)
(* raw codec-information buffer, or take a codec index, and forward to    *)
(* the SBC, AAC or vendor implementation, returning a sentinel when no    *)
(* family handles it.                                                      *)
(*                                                                         *)
(* The AAC and vendor cases are compiled only without                     *)
(* EXCLUDE_NONSTANDARD_CODECS; both builds are inputs (exclude). The      *)
(* per-family functions live in files outside src/ and are abstracted    *)
(* from spec section 4.4 to what the dispatch tells apart: the family's  *)
(* verdict on the parameter bytes (ok), the vendor's secondary dispatch  *)
(* to one of its sub-codec indices, and, for results, which family       *)
(* produced them. The tag values and the codec-index enumerators are in  *)
(* headers outside this repository; they are CONSTANTs.                  *)
(*                                                                         *)
(* The same file keys two more tables on the codec index:                 *)
(* A2dpCodecConfig::createCodec, and A2dpCodecs::init(), which reads the  *)
(* platform properties (offload support, the offload capability string,  *)
(* the OPUS flag) and builds every codec of the index universe. Both are  *)
(* calls of this module too; a property value is an input of the call,  *)
(* and so is the global offload_codec_support table as init() finds it.  *)
(***************************************************************************)
EXTENDS Integers, FiniteSets

LOCAL Seqs == INSTANCE SequencesExt

CONSTANTS
  Inputs,               \* the calls offered: function, build, arguments
  A2DP_MEDIA_CT_SBC,    \* codec-type tag bytes
  A2DP_MEDIA_CT_AAC,
  A2DP_MEDIA_CT_NON_A2DP,
  SOURCE_SBC, SINK_SBC, SOURCE_AAC, SINK_AAC,   \* btav_a2dp_codec_index_t
  VendorIndices,        \* the vendor enumerators (LDAC, LHDC, ...)
  INDEX_MAX,            \* BTAV_A2DP_CODEC_INDEX_MAX
  NULL,                 \* a null interface pointer
  FrameSize,            \* family -> its encoder's get_effective_frame_size()
  SbcEncoderBitRate,    \* A2DP_GetBitrateSbc(): the SBC encoder's bit rate
  SourceIndices,        \* the enumerators below BTAV_A2DP_CODEC_INDEX_SOURCE_MAX
  SOURCE_OPUS,          \* BTAV_A2DP_CODEC_INDEX_SOURCE_OPUS, a vendor index
  CreatableVendor,      \* the vendor enumerators createCodec has a case for
  OffloadCodecToken,    \* "aac", "aptx", "aptxhd", "ldac" -> their source index
  LhdcOffloadToken,     \* "lhdcv2", "lhdcv3", "lhdcv5" -> their source index
  PRIORITY_DISABLED,    \* BTAV_A2DP_CODEC_PRIORITY_DISABLED
  PRIORITY_DEFAULT      \* BTAV_A2DP_CODEC_PRIORITY_DEFAULT

Families == {"SBC", "AAC", "VENDOR"}
NoFamily == "none"

\* Every enumerator other than BTAV_A2DP_CODEC_INDEX_MAX is below it.
Indices == {SOURCE_SBC, SINK_SBC, SOURCE_AAC, SINK_AAC} \cup VendorIndices
            \cup {INDEX_MAX}

ASSUME /\ Cardinality({A2DP_MEDIA_CT_SBC, A2DP_MEDIA_CT_AAC,
                       A2DP_MEDIA_CT_NON_A2DP}) = 3
       /\ INDEX_MAX \notin VendorIndices \cup {SOURCE_SBC, SINK_SBC,
                                              SOURCE_AAC, SINK_AAC}
       /\ FrameSize \in [Families -> Nat \ {0}]
       /\ SourceIndices \subseteq Indices \ {INDEX_MAX, SINK_SBC, SINK_AAC}
       /\ {SOURCE_SBC, SOURCE_AAC} \subseteq SourceIndices
       /\ SOURCE_OPUS \in CreatableVendor /\ CreatableVendor \subseteq VendorIndices
       /\ "sbc" \notin DOMAIN OffloadCodecToken \cup DOMAIN LhdcOffloadToken
       /\ OffloadCodecToken \in [DOMAIN OffloadCodecToken -> SourceIndices]
       /\ LhdcOffloadToken \in [DOMAIN LhdcOffloadToken -> SourceIndices]

VARIABLES
  call,     \* the function called and its arguments
  res,      \* its return value
  route,    \* the family whose implementation was called, or NoFamily
  protect   \* AvdtpSepConfig: <<num_protect, protect_info[0]>>

vars == <<call, res, route, protect>>

NoResult == "no result"

-----------------------------------------------------------------------------
(* The per-family implementations (outside src/, spec section 4.4)         *)

\* A2DP_Is*CodecValid*/Supported*, A2DP_AdjustCodec*, A2DP_GetPacketTimestamp*,
\* A2DP_BuildCodecHeader*: the family's verdict on the buffer.
FamilyVerdict(f, a) == a.ok

\* A2DP_GetTrack*: a track parameter, or -1 on a buffer the family rejects.
FamilyTrackValue(f, a) == IF a.ok THEN a.track ELSE -1

\* A2DP_Get{En,De}coderInterface*: the family's interface, or NULL.
FamilyInterface(f, a) == IF a.ok THEN f ELSE NULL

\* A2DP_*CodecTypeEquals* and A2DP_*CodecEquals*: type equality asks both
\* buffers to be valid; full equality also compares the parameter bytes.
FamilyTypeEquals(f, a, b) == a.ok /\ b.ok
FamilyCodecEquals(f, a, b) == a.ok /\ b.ok /\ a.param = b.param

\* A2DP_SourceCodecIndex* / A2DP_SinkCodecIndex*: the standard families
\* have one index each; the vendor family dispatches on vendor and codec
\* id to one of its sub-codecs, or INDEX_MAX for an unknown pair.
FamilySourceIndex(f, a) ==
  CASE f = "SBC" -> SOURCE_SBC [] f = "AAC" -> SOURCE_AAC [] OTHER -> a.vendorSrc
FamilySinkIndex(f, a) ==
  CASE f = "SBC" -> SINK_SBC [] f = "AAC" -> SINK_AAC [] OTHER -> a.vendorSink

-----------------------------------------------------------------------------
(* Dispatch on the codec-type tag                                          *)

Result(rt, v) == [route |-> rt, res |-> v]

\* A2DP_GetCodecType: the byte at AVDT_CODEC_TYPE_INDEX.
A2DP_GetCodecType(a) == a.tag

\* switch (codec_type), with the AAC and vendor cases inside
\* #if !defined(EXCLUDE_NONSTANDARD_CODECS).
TypeFamily(tag, exclude) ==
  CASE tag = A2DP_MEDIA_CT_SBC -> "SBC"
    [] tag = A2DP_MEDIA_CT_AAC /\ ~exclude -> "AAC"
    [] tag = A2DP_MEDIA_CT_NON_A2DP /\ ~exclude -> "VENDOR"
    [] OTHER -> NoFamily

\* The shape of every tag-routed function: the family's implementation,
\* or the function's own failure value after the switch.
\* answer maps each family to what its implementation returns.
ByType(c, answer, sentinel) ==
  LET f == TypeFamily(A2DP_GetCodecType(c.a), c.exclude)
  IN  IF f = NoFamily THEN Result(NoFamily, sentinel) ELSE Result(f, answer[f])

Verdict(c) == ByType(c, [f \in Families |-> FamilyVerdict(f, c.a)], FALSE)
Track(c)   == ByType(c, [f \in Families |-> FamilyTrackValue(f, c.a)], -1)

A2DP_IsSourceCodecValid(c)         == Verdict(c)
A2DP_IsSinkCodecValid(c)           == Verdict(c)
A2DP_IsPeerSourceCodecValid(c)     == Verdict(c)
A2DP_IsPeerSinkCodecValid(c)       == Verdict(c)
A2DP_IsSinkCodecSupported(c)       == Verdict(c)
A2DP_IsPeerSourceCodecSupported(c) == Verdict(c)
A2DP_GetPacketTimestamp(c)         == Verdict(c)
A2DP_BuildCodecHeader(c)           == Verdict(c)
A2DP_AdjustCodec(c)                == Verdict(c)

A2DP_GetTrackSampleRate(c)      == Track(c)
A2DP_GetTrackBitsPerSample(c)   == Track(c)
A2DP_GetTrackChannelCount(c)    == Track(c)
A2DP_GetSinkTrackChannelType(c) == Track(c)

\* A2DP_InitDefaultCodec: always the SBC default, whatever the buffer held.
A2DP_InitDefaultCodec(c) == Result("SBC", TRUE)

\* Only a vendor tag asks its family; with the vendor code compiled out,
\* or for any other tag, the RTP header is used.
A2DP_UsesRtpHeader(c) ==
  IF A2DP_GetCodecType(c.a) # A2DP_MEDIA_CT_NON_A2DP \/ c.exclude
  THEN Result(NoFamily, TRUE)
  ELSE Result("VENDOR", c.a.vendorRtp)

\* (p_codec_info[A2DP_MEDIA_TYPE_OFFSET] >> 4) & 0x0f
A2DP_GetMediaType(c) == Result(NoFamily, (c.a.media \div 16) % 16)

\* The family's name of the codec is abstracted to the family.
A2DP_CodecName(c) == ByType(c, [f \in Families |-> f], "UNKNOWN CODEC")

\* Two buffers: different tags are unequal before any family is asked.
A2DP_CodecTypeEquals(c) ==
  IF A2DP_GetCodecType(c.a) # A2DP_GetCodecType(c.b)
  THEN Result(NoFamily, FALSE)
  ELSE ByType(c, [f \in Families |-> FamilyTypeEquals(f, c.a, c.b)], FALSE)

A2DP_CodecEquals(c) ==
  IF A2DP_GetCodecType(c.a) # A2DP_GetCodecType(c.b)
  THEN Result(NoFamily, FALSE)
  ELSE ByType(c, [f \in Families |-> FamilyCodecEquals(f, c.a, c.b)], FALSE)

A2DP_GetEncoderInterface(c) ==
  ByType(c, [f \in Families |-> FamilyInterface(f, c.a)], NULL)
A2DP_GetDecoderInterface(c) ==
  ByType(c, [f \in Families |-> FamilyInterface(f, c.a)], NULL)

A2DP_SourceCodecIndex(c) ==
  ByType(c, [f \in Families |-> FamilySourceIndex(f, c.a)], INDEX_MAX)
A2DP_SinkCodecIndex(c) ==
  ByType(c, [f \in Families |-> FamilySinkIndex(f, c.a)], INDEX_MAX)

\* The debug text is abstracted to the family; "Unsupported codec type: "
\* + loghex(codec_type) to its prefix.
A2DP_CodecInfoString(c) ==
  ByType(c, [f \in Families |-> f], "Unsupported codec type")

\* Defect: the copied switch lacks the AAC case.
EncoderSwitchNoAac(c) ==
  LET t == A2DP_GetCodecType(c.a)
  IN  CASE t = A2DP_MEDIA_CT_SBC -> "SBC"
        [] t = A2DP_MEDIA_CT_NON_A2DP /\ ~c.exclude -> "VENDOR"
        [] OTHER -> NoFamily

\* A2DP_GetEecoderEffectiveFrameSize has its own switch, written out again
\* rather than calling A2DP_GetEncoderInterface: the family whose
\* interface it asks for, with its own #if around AAC and the vendor case.
EncoderSwitch(c) ==
  LET t == A2DP_GetCodecType(c.a)
  IN  CASE t = A2DP_MEDIA_CT_SBC -> "SBC"
        [] t = A2DP_MEDIA_CT_AAC /\ ~c.exclude -> "AAC"
        [] t = A2DP_MEDIA_CT_NON_A2DP /\ ~c.exclude -> "VENDOR"
        [] OTHER -> NoFamily

\* A null interface gives 0, else the interface's effective frame size.
A2DP_GetEecoderEffectiveFrameSize(c) ==
  LET f == EncoderSwitch(c)
      i == IF f = NoFamily THEN NULL ELSE FamilyInterface(f, c.a)
  IN  Result(f, IF i = NULL THEN 0 ELSE FrameSize[i])

-----------------------------------------------------------------------------
(* Dispatch on the codec index                                             *)

\* Defect: the SINK_AAC case is missing; the index falls through to the
\* vendor family.
IndexFamilyNoSinkAac(idx, exclude) ==
  CASE idx \in {SOURCE_SBC, SINK_SBC} -> "SBC"
    [] idx = SOURCE_AAC /\ ~exclude -> "AAC"
    [] idx # INDEX_MAX /\ ~exclude -> "VENDOR"
    [] OTHER -> NoFamily

\* switch (codec_index) over the SBC and (compiled-in) AAC indices, then
\* if (codec_index < BTAV_A2DP_CODEC_INDEX_MAX) the vendor family.
IndexFamily(idx, exclude) ==
  CASE idx \in {SOURCE_SBC, SINK_SBC} -> "SBC"
    [] idx \in {SOURCE_AAC, SINK_AAC} /\ ~exclude -> "AAC"
    [] idx # INDEX_MAX /\ ~exclude -> "VENDOR"
    [] OTHER -> NoFamily

\* The family's string for the index is abstracted to the family.
A2DP_CodecIndexStr(c) ==
  LET f == IndexFamily(c.idx, c.exclude)
  IN  Result(f, IF f = NoFamily THEN "UNKNOWN CODEC INDEX" ELSE f)

\* Defect: only num_protect is cleared.
ClearProtectionCountOnly == <<0, protect[2]>>

\* p_cfg->num_protect = 0; p_cfg->protect_info[0] = 0;
ClearProtection == <<0, 0>>

\* The content protection of p_cfg is cleared first, whatever follows;
\* every family fills in the configuration of an index it owns.
A2DP_InitCodecConfig(c) ==
  LET f == IndexFamily(c.idx, c.exclude)
  IN  Result(f, f # NoFamily)

\* A2dpCodecConfig::getTrackBitRate: the same switch on the tag of
\* ota_codec_config_; the SBC case asks the SBC encoder, not the buffer.
getTrackBitRate(c) ==
  ByType(c, [f \in Families |->
               IF f = "SBC" THEN SbcEncoderBitRate ELSE FamilyTrackValue(f, c.a)],
         -1)

-----------------------------------------------------------------------------
(* Codec construction: createCodec and the loop of A2dpCodecs::init()      *)

\* Defect: the SINK_SBC case is placed inside the #if with the AAC cases.
CreateCodecSwitchSinkSbcGuarded(idx, exclude) ==
  CASE idx = SOURCE_SBC -> "SBC"
    [] idx \in {SINK_SBC, SOURCE_AAC, SINK_AAC} /\ ~exclude ->
         IF idx = SINK_SBC THEN "SBC" ELSE "AAC"
    [] idx \in CreatableVendor /\ ~exclude -> "VENDOR"
    [] OTHER -> NULL

\* Defect: the AAC cases are placed before the #if.
CreateCodecSwitchAacUnguarded(idx, exclude) ==
  CASE idx \in {SOURCE_SBC, SINK_SBC} -> "SBC"
    [] idx \in {SOURCE_AAC, SINK_AAC} -> "AAC"
    [] idx \in CreatableVendor /\ ~exclude -> "VENDOR"
    [] OTHER -> NULL

\* switch (codec_index): "new A2dpCodecConfig<codec>(codec_priority)" for
\* the SBC cases and, inside the #if, the AAC and the listed vendor cases;
\* BTAV_A2DP_CODEC_INDEX_MAX and any other index build nothing (NULL).
\* The constructed descriptor is abstracted to its family.
CreateCodecSwitch(idx, exclude) ==
  CASE idx \in {SOURCE_SBC, SINK_SBC} -> "SBC"
    [] idx \in {SOURCE_AAC, SINK_AAC} /\ ~exclude -> "AAC"
    [] idx \in CreatableVendor /\ ~exclude -> "VENDOR"
    [] OTHER -> NULL

\* A descriptor whose init() fails (failing: the indices whose family
\* init() returns false) is deleted and nullptr returned.
createCodec(idx, exclude, failing) ==
  LET f == CreateCodecSwitch(idx, exclude)
  IN  IF f = NULL \/ idx \in failing THEN NULL ELSE f

\* createCodec as a call: the family built, or NULL.
CreateCodecCall(c) ==
  LET f == createCodec(c.idx, c.exclude, c.failing)
  IN  Result(IF f = NULL THEN NoFamily ELSE f, f)

\* a2dp_offload_status = strcmp(value_sup, "true") == 0 &&
\*                       strcmp(value_dis, "false") == 0
A2dpOffloadStatus(c) == c.sup = "true" /\ c.dis = "false"

\* strtok_r(value_cap, "-", ...): the value is given as its "-"-separated
\* fields; strtok_r yields the non-empty ones, in order.
StrtokFields(fields) == Seqs!SelectSeq(fields, LAMBDA t : t # "")

\* Defect: the LHDC branches set the entry like the other codecs.
OffloadTokenLhdcEnables(support, tok, exclude) ==
  CASE tok = "sbc" -> support \cup {SOURCE_SBC}
    [] tok \in DOMAIN OffloadCodecToken /\ ~exclude ->
         support \cup {OffloadCodecToken[tok]}
    [] tok \in DOMAIN LhdcOffloadToken /\ ~exclude ->
         support \cup {LhdcOffloadToken[tok]}
    [] OTHER -> support

\* One token of the loop: "sbc" sets offload_codec_support[SOURCE_SBC];
\* inside the #if "aac", "aptx", "aptxhd", "ldac" set their entry and
\* "lhdcv2", "lhdcv3", "lhdcv5" clear theirs ("offload not supported");
\* any other token is ignored. support is the set of true entries.
OffloadToken(support, tok, exclude) ==
  CASE tok = "sbc" -> support \cup {SOURCE_SBC}
    [] tok \in DOMAIN OffloadCodecToken /\ ~exclude ->
         support \cup {OffloadCodecToken[tok]}
    [] tok \in DOMAIN LhdcOffloadToken /\ ~exclude ->
         support \ {LhdcOffloadToken[tok]}
    [] OTHER -> support

\* if (a2dp_offload_status) walk the tokens; offload_codec_support is a
\* global that init() never clears: it starts from c.support.
ParseOffloadCapability(c) ==
  IF A2dpOffloadStatus(c)
  THEN Seqs!FoldLeft(LAMBDA s, t : OffloadToken(s, t, c.exclude), c.support,
                     StrtokFields(c.cap))
  ELSE c.support

\* Defect: the codec_priorities_ lookup is done after the OPUS check.
InitCodecPriorityTableLast(c, idx) ==
  IF idx \in DOMAIN c.priorities THEN c.priorities[idx]
  ELSE IF idx = SOURCE_OPUS /\ ~c.opus THEN PRIORITY_DISABLED
  ELSE PRIORITY_DEFAULT

\* The priority explicitly configured in codec_priorities_, else DEFAULT;
\* then, if persist.bluetooth.opus.enabled is false, OPUS is DISABLED.
InitCodecPriority(c, idx) ==
  IF idx = SOURCE_OPUS /\ ~c.opus THEN PRIORITY_DISABLED
  ELSE IF idx \in DOMAIN c.priorities THEN c.priorities[idx]
  ELSE PRIORITY_DEFAULT

\* for (i = INDEX_MIN; i < INDEX_MAX; i++): createCodec with the chosen
\* priority; a codec whose codecPriority() is DISABLED goes to
\* disabled_codecs_, any other to indexed_codecs_ and to the source or the
\* sink list (sorted there; the order is A2dpCodecs.tla's). setCodecPriority
\* keeps a non-DEFAULT priority as given and replaces DEFAULT by the
\* codec's default, which is never DISABLED. The offload properties are
\* read first. init() returns whether both lists are non-empty.
A2dpCodecsInit(c) ==
  LET built    == {i \in Indices \ {INDEX_MAX} :
                     createCodec(i, c.exclude, c.failing) # NULL}
      disabled == {i \in built : InitCodecPriority(c, i) = PRIORITY_DISABLED}
      indexed  == built \ disabled
  IN  [status   |-> A2dpOffloadStatus(c),
       support  |-> ParseOffloadCapability(c),
       indexed  |-> indexed,
       disabled |-> disabled,
       ok       |-> indexed \cap SourceIndices # {}
                    /\ indexed \ SourceIndices # {}]

-----------------------------------------------------------------------------
(* Registry lookup: A2dpCodecs::findSourceCodecConfig / findSinkCodecConfig *)

\* Defect: the source lookup asks A2DP_SinkCodecIndex, as the sink lookup
\* it was copied from does.
LookupIndexSinkCopy(c) == A2DP_SinkCodecIndex(c).res

\* codec_index = A2DP_SourceCodecIndex(p_codec_info) in findSourceCodecConfig,
\* A2DP_SinkCodecIndex(p_codec_info) in findSinkCodecConfig.
LookupIndex(c) ==
  IF c.op = "FindSinkCodecConfig" THEN A2DP_SinkCodecIndex(c).res
  ELSE A2DP_SourceCodecIndex(c).res

\* nullptr for INDEX_MAX, else indexed_codecs_.find(codec_index), over the
\* registry that init() built from the call's inputs.
FindCodecConfigCall(c) ==
  LET idx == LookupIndex(c)
      found == IF idx = INDEX_MAX \/ idx \notin A2dpCodecsInit(c).indexed
               THEN NULL ELSE idx
  IN  Result(NoFamily, found)

-----------------------------------------------------------------------------
(* The calls                                                               *)

Call(op, o) ==
  /\ call.op = op
  /\ res' = o.res
  /\ route' = o.route

Init ==
  /\ call \in Inputs
  /\ res = NULL
  /\ route = "not called"
  /\ protect = call.protect

\* Every call but A2DP_InitCodecConfig leaves p_cfg alone.
Query(op, o) == Call(op, o) /\ UNCHANGED <<call, protect>>

Next ==
  \/ Query("GetCodecType", Result(NoFamily, A2DP_GetCodecType(call.a)))
  \/ Query("IsSourceCodecValid", A2DP_IsSourceCodecValid(call))
  \/ Query("IsSinkCodecValid", A2DP_IsSinkCodecValid(call))
  \/ Query("IsPeerSourceCodecValid", A2DP_IsPeerSourceCodecValid(call))
  \/ Query("IsPeerSinkCodecValid", A2DP_IsPeerSinkCodecValid(call))
  \/ Query("IsSinkCodecSupported", A2DP_IsSinkCodecSupported(call))
  \/ Query("IsPeerSourceCodecSupported", A2DP_IsPeerSourceCodecSupported(call))
  \/ Query("InitDefaultCodec", A2DP_InitDefaultCodec(call))
  \/ Query("UsesRtpHeader", A2DP_UsesRtpHeader(call))
  \/ Query("GetMediaType", A2DP_GetMediaType(call))
  \/ Query("CodecName", A2DP_CodecName(call))
  \/ Query("CodecTypeEquals", A2DP_CodecTypeEquals(call))
  \/ Query("CodecEquals", A2DP_CodecEquals(call))
  \/ Query("GetTrackSampleRate", A2DP_GetTrackSampleRate(call))
  \/ Query("GetTrackBitsPerSample", A2DP_GetTrackBitsPerSample(call))
  \/ Query("GetTrackChannelCount", A2DP_GetTrackChannelCount(call))
  \/ Query("GetSinkTrackChannelType", A2DP_GetSinkTrackChannelType(call))
  \/ Query("GetPacketTimestamp", A2DP_GetPacketTimestamp(call))
  \/ Query("BuildCodecHeader", A2DP_BuildCodecHeader(call))
  \/ Query("GetEncoderInterface", A2DP_GetEncoderInterface(call))
  \/ Query("GetDecoderInterface", A2DP_GetDecoderInterface(call))
  \/ Query("AdjustCodec", A2DP_AdjustCodec(call))
  \/ Query("SourceCodecIndex", A2DP_SourceCodecIndex(call))
  \/ Query("SinkCodecIndex", A2DP_SinkCodecIndex(call))
  \/ Query("CodecIndexStr", A2DP_CodecIndexStr(call))
  \/ /\ Call("InitCodecConfig", A2DP_InitCodecConfig(call))
     /\ protect' = ClearProtection
     /\ UNCHANGED call
  \/ Query("CodecInfoString", A2DP_CodecInfoString(call))
  \/ Query("GetEecoderEffectiveFrameSize",
           A2DP_GetEecoderEffectiveFrameSize(call))
  \/ Query("GetTrackBitRate", getTrackBitRate(call))
  \/ Query("CreateCodec", CreateCodecCall(call))
  \/ Query("Init", Result(NoFamily, A2dpCodecsInit(call)))
  \/ Query("FindSourceCodecConfig", FindCodecConfigCall(call))
  \/ Query("FindSinkCodecConfig", FindCodecConfigCall(call))

Spec == Init /\ [][Next]_vars

-----------------------------------------------------------------------------
(* Properties                                                              *)

PredicateOps == {"IsSourceCodecValid", "IsSinkCodecValid",
                 "IsPeerSourceCodecValid", "IsPeerSinkCodecValid",
                 "IsSinkCodecSupported", "IsPeerSourceCodecSupported",
                 "GetPacketTimestamp", "BuildCodecHeader", "AdjustCodec",
                 "CodecTypeEquals", "CodecEquals", "UsesRtpHeader",
                 "InitDefaultCodec", "InitCodecConfig"}
TrackOps     == {"GetTrackSampleRate", "GetTrackBitsPerSample",
                 "GetTrackChannelCount", "GetSinkTrackChannelType",
                 "GetTrackBitRate"}
InterfaceOps == {"GetEncoderInterface", "GetDecoderInterface"}
IndexOps     == {"SourceCodecIndex", "SinkCodecIndex"}
FindOps      == {"FindSourceCodecConfig", "FindSinkCodecConfig"}
NameOps      == {"CodecName", "CodecIndexStr", "CodecInfoString"}

ResultType(op) ==
  CASE op \in PredicateOps -> BOOLEAN
    [] op \in TrackOps     -> Int
    [] op \in InterfaceOps \cup {"CreateCodec"} -> Families \cup {NULL}
    [] op \in IndexOps     -> Indices
    [] op \in FindOps      -> Indices \cup {NULL}
    [] op \in NameOps      -> Families \cup {"UNKNOWN CODEC",
                                 "UNKNOWN CODEC INDEX", "Unsupported codec type"}
    [] op = "GetMediaType" -> 0..15
    [] op = "GetCodecType" -> 0..255
    [] op = "Init"         -> [status : BOOLEAN, support : SUBSET Indices,
                               indexed : SUBSET Indices,
                               disabled : SUBSET Indices, ok : BOOLEAN]
    [] OTHER               -> Nat

Called == route # "not called"

\* Each function returns a value of its C return type's range: a media
\* type is the 4-bit field, an index an enumerator, an interface a
\* family's or NULL; A2DP_InitCodecConfig clears content protection.
TypeOK ==
  /\ route \in Families \cup {NoFamily, "not called"}
  /\ Called => res \in ResultType(call.op)
  /\ call.op = "InitCodecConfig" /\ Called => protect = <<0, 0>>

\* A2DP_GetEecoderEffectiveFrameSize repeats A2DP_GetEncoderInterface's
\* switch instead of calling it: for every buffer and build it must give
\* 0 exactly when A2DP_GetEncoderInterface gives NULL, and otherwise the
\* frame size of the interface A2DP_GetEncoderInterface returns.
FrameSizeAgreesWithEncoder ==
  LET e == A2DP_GetEncoderInterface(call).res
  IN  A2DP_GetEecoderEffectiveFrameSize(call).res =
        IF e = NULL THEN 0 ELSE FrameSize[e]

\* The tag-keyed and the index-keyed tables agree: a buffer a build
\* accepts as a source (sink) codec maps, by A2DP_SourceCodecIndex
\* (A2DP_SinkCodecIndex), to an index below INDEX_MAX that
\* A2DP_CodecIndexStr and A2DP_InitCodecConfig hand to the same family
\* that judged the buffer; the failure index INDEX_MAX reaches none.
IndexDispatchAgrees ==
  LET Agrees(valid, index) ==
        valid.res =>
          LET c == [call EXCEPT !.idx = index.res]
          IN  /\ index.res # INDEX_MAX
              /\ A2DP_CodecIndexStr(c).route = valid.route
              /\ A2DP_InitCodecConfig(c).route = valid.route
  IN  /\ Agrees(A2DP_IsSourceCodecValid(call), A2DP_SourceCodecIndex(call))
      /\ Agrees(A2DP_IsSinkCodecValid(call), A2DP_SinkCodecIndex(call))
      /\ IndexFamily(INDEX_MAX, call.exclude) = NoFamily

InitDone == call.op = "Init" /\ Called

\* The offload capability string (A2dpCodecs::init): when the platform
\* reports offload supported and not disabled, offload_codec_support ends
\* as it was before init() plus the offload-capable codecs of this build
\* that the capability list names, less the LHDC codecs it names, whatever
\* the order of the tokens and however many empty fields "--" leaves;
\* otherwise it is left as it was: a global set by an earlier init() is
\* never cleared.
OffloadSupportFollowsCapability ==
  InitDone =>
    LET named == {call.cap[k] : k \in DOMAIN call.cap}
        sbc   == IF "sbc" \in named THEN {SOURCE_SBC} ELSE {}
        on    == {OffloadCodecToken[t] : t \in named \cap DOMAIN OffloadCodecToken}
        off   == {LhdcOffloadToken[t] : t \in named \cap DOMAIN LhdcOffloadToken}
        after == CASE ~res.status -> call.support
                   [] call.exclude -> call.support \cup sbc
                   [] OTHER -> (call.support \cup sbc \cup on) \ off
    IN  /\ res.status = (call.sup = "true" /\ call.dis = "false")
        /\ res.support = after

\* createCodec's switch and the index-keyed dispatch are separate tables
\* of one build: every codec A2dpCodecs::init() registers, enabled or
\* disabled, was built by createCodec for the family to which
\* A2DP_CodecIndexStr and A2DP_InitCodecConfig route its index.
InitRegistryAgreesWithDispatch ==
  InitDone =>
    \A i \in res.indexed \cup res.disabled :
      LET ci == [call EXCEPT !.idx = i]
      IN  /\ A2DP_CodecIndexStr(ci).route = CreateCodecCall(ci).route
          /\ A2DP_InitCodecConfig(ci).route = CreateCodecCall(ci).route

\* The baseline (spec section 8: SBC source and sink only, the rest
\* excluded): in either build, init() returns true whenever neither SBC
\* codec is disabled by codec_priorities_ nor fails its own init().
BaselineInitSucceeds ==
  LET enabled(i) == i \in DOMAIN call.priorities =>
                       call.priorities[i] # PRIORITY_DISABLED
  IN  InitDone /\ {SOURCE_SBC, SINK_SBC} \cap call.failing = {}
               /\ enabled(SOURCE_SBC) /\ enabled(SINK_SBC)
        => res.ok

\* OPUS is enabled only by persist.bluetooth.opus.enabled: with the flag
\* off, no priority in codec_priorities_ brings the OPUS source codec
\* into indexed_codecs_ (it stays in disabled_codecs_).
OpusDisabledUnlessEnabled ==
  InitDone /\ ~call.opus => SOURCE_OPUS \notin res.indexed


\* The registry lookup composes the tag dispatch, the index dispatch and
\* init(): the codec findSourceCodecConfig (findSinkCodecConfig) returns
\* for a buffer is a source (sink) codec that createCodec built for the
\* family that judges the buffer, and a buffer the build accepts finds
\* the codec of its index whenever init() enabled that codec.
FoundCodecServesBuffer ==
  call.op \in FindOps /\ Called =>
    LET source == call.op = "FindSourceCodecConfig"
        valid  == IF source THEN A2DP_IsSourceCodecValid(call)
                  ELSE A2DP_IsSinkCodecValid(call)
        want   == IF source THEN A2DP_SourceCodecIndex(call).res
                  ELSE A2DP_SinkCodecIndex(call).res
        side   == IF source THEN SourceIndices ELSE Indices \ SourceIndices
    IN  /\ res # NULL =>
             /\ res \in side
             /\ CreateCodecCall([call EXCEPT !.idx = res]).route = valid.route
        /\ valid.res /\ want \in A2dpCodecsInit(call).indexed => res = want

=============================================================================
