------------------------- MODULE MC_CapabilityDispatch -------------------------
(***************************************************************************)
(* Inputs for CapabilityDispatch. The tags are the A2DP assigned numbers  *)
(* (SBC 0x00, AAC 0x02, non-A2DP 0xFF) and 0x01 (MPEG-1,2 audio), which  *)
(* no family of this file handles. Four vendor enumerators stand for     *)
(* the vendor sub-codecs: LDAC, LHDCV3 and OPUS sources, which createCodec *)
(* builds, and a sink enumerator it has no case for.                       *)
(***************************************************************************)
EXTENDS CapabilityDispatch, TLC

CONSTANTS Ldac, LhdcV3, Opus, VendorSnk1

VendorSrc1 == Ldac
VendorSrc2 == LhdcV3

MC_SourceOpus == Opus
MC_PriorityDisabled == -1

MC_VendorIndices == {Ldac, LhdcV3, Opus, VendorSnk1}
MC_SourceIndices == {SOURCE_SBC, SOURCE_AAC, Ldac, LhdcV3, Opus}
MC_CreatableVendor == {Ldac, LhdcV3, Opus}
MC_OffloadCodecToken == ("aac" :> SOURCE_AAC) @@ ("ldac" :> Ldac)
MC_LhdcOffloadToken == "lhdcv3" :> LhdcV3

MC_FrameSize == [f \in Families |->
                   CASE f = "SBC" -> 119 [] f = "AAC" -> 660 [] OTHER -> 990]

Tags == {0, 1, 2, 255}

\* A codec-information buffer as the dispatch and the families see it.
\* A buffer its vendor family accepts names one of the vendor's codecs;
\* a rejected one may name none (INDEX_MAX).
Info(tag, ok, src, snk, param) ==
  [tag |-> tag, media |-> 0, ok |-> ok, track |-> 44100, param |-> param,
   vendorSrc |-> src, vendorSink |-> snk, vendorRtp |-> FALSE]

Buffers ==
  {Info(t, TRUE, s, VendorSnk1, "p1") : t \in Tags, s \in {VendorSrc1, VendorSrc2}}
  \cup {Info(t, FALSE, INDEX_MAX, INDEX_MAX, "p1") : t \in Tags}

Default == Info(0, TRUE, VendorSrc1, VendorSnk1, "p1")

NoPriorities == [i \in {} |-> PRIORITY_DEFAULT]

\* Every call carries every argument; the init() arguments default to the
\* properties unset (offload not supported), OPUS off, no overrides.
Request(op, x, a, b, idx) ==
  [op |-> op, exclude |-> x, a |-> a, b |-> b, idx |-> idx,
   protect |-> <<1, 7>>,
   sup |-> "false", dis |-> "false", cap |-> <<>>, support |-> {},
   opus |-> FALSE, priorities |-> NoPriorities, failing |-> {}]

TagOps == (PredicateOps \cup TrackOps \cup InterfaceOps \cup IndexOps
           \cup {"GetCodecType", "CodecName", "CodecInfoString",
                 "GetEecoderEffectiveFrameSize"})
          \ {"CodecTypeEquals", "CodecEquals", "UsesRtpHeader",
             "InitCodecConfig"}

TagInputs ==
  {Request(op, x, a, Default, SOURCE_SBC) :
     op \in TagOps, x \in BOOLEAN, a \in Buffers}

EqualsInputs ==
  {Request(op, x, Info(ta, oa, VendorSrc1, VendorSnk1, "p1"),
           Info(tb, ob, VendorSrc1, VendorSnk1, pb), SOURCE_SBC) :
     op \in {"CodecTypeEquals", "CodecEquals"}, x \in BOOLEAN,
     ta \in {0, 1, 255}, tb \in {0, 255}, oa \in BOOLEAN, ob \in BOOLEAN,
     pb \in {"p1", "p2"}}

RtpInputs ==
  {Request("UsesRtpHeader", x, [Info(t, TRUE, VendorSrc1, VendorSnk1, "p1")
                                  EXCEPT !.vendorRtp = r], Default, SOURCE_SBC) :
     x \in BOOLEAN, t \in Tags, r \in BOOLEAN}

MediaInputs ==
  {Request("GetMediaType", FALSE, [Default EXCEPT !.media = m], Default,
           SOURCE_SBC) : m \in {0, 16, 143, 240, 255}}

IndexInputs ==
  {Request(op, x, Default, Default, i) :
     op \in {"CodecIndexStr", "InitCodecConfig"}, x \in BOOLEAN, i \in Indices}

CreateInputs ==
  {[Request("CreateCodec", x, Default, Default, i) EXCEPT !.failing = f] :
     x \in BOOLEAN, i \in Indices, f \in {{}, {SOURCE_AAC}}}

\* ro.bluetooth.a2dp_offload.supported / persist...disabled; "1" is not
\* "true" to strcmp.
OffloadProps == {<<"true", "false">>, <<"true", "true">>,
                 <<"false", "false">>, <<"1", "false">>}

\* The "-"-separated fields of persist.bluetooth.a2dp_offload.cap, up to
\* two ("" is an empty field: "-aac", "sbc-", "sbc--ldac").
CapTokens == {"sbc", "aac", "ldac", "lhdcv3", "opus", ""}
CapFields == UNION {[1..n -> CapTokens] : n \in 0..2}

\* offload_codec_support before init(): zero-initialised, or as an
\* earlier init() left it.
SupportBefore == {{}, {SOURCE_AAC}}

OffloadInputs ==
  {[Request("Init", x, Default, Default, SOURCE_SBC)
      EXCEPT !.sup = p[1], !.dis = p[2], !.cap = f, !.support = b] :
     x \in BOOLEAN, p \in OffloadProps, f \in CapFields, b \in SupportBefore}

\* codec_priorities_: empty, an SBC codec disabled, or OPUS made highest.
PriorityTables == {NoPriorities, SOURCE_SBC :> PRIORITY_DISABLED,
                   SINK_SBC :> PRIORITY_DISABLED, Opus :> 1000000}

RegistryInputs ==
  {[Request("Init", x, Default, Default, SOURCE_SBC)
      EXCEPT !.opus = o, !.priorities = t, !.failing = f] :
     x \in BOOLEAN, o \in BOOLEAN, t \in PriorityTables,
     f \in {{}, {SINK_SBC}}}

\* A lookup of every buffer in a registry init() built from the inputs
\* above (OPUS flag off).
FindInputs ==
  {[Request(op, x, a, Default, SOURCE_SBC)
      EXCEPT !.priorities = t, !.failing = f] :
     op \in FindOps, x \in BOOLEAN, a \in Buffers, t \in PriorityTables,
     f \in {{}, {SINK_SBC}}}

MC_Inputs == TagInputs \cup EqualsInputs \cup RtpInputs \cup MediaInputs
             \cup IndexInputs \cup CreateInputs \cup OffloadInputs
             \cup RegistryInputs \cup FindInputs

=============================================================================
