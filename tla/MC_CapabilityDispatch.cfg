CONSTANTS
  A2DP_MEDIA_CT_SBC = 0
  A2DP_MEDIA_CT_AAC = 2
  A2DP_MEDIA_CT_NON_A2DP = 255
  SOURCE_SBC = SOURCE_SBC
  SINK_SBC = SINK_SBC
  SOURCE_AAC = SOURCE_AAC
  SINK_AAC = SINK_AAC
  Ldac = Ldac
  LhdcV3 = LhdcV3
  Opus = Opus
  SOURCE_OPUS <- MC_SourceOpus
  SbcEncoderBitRate = 328000
  PRIORITY_DISABLED <- MC_PriorityDisabled
  PRIORITY_DEFAULT = 0
  VendorSnk1 = VendorSnk1
  INDEX_MAX = INDEX_MAX
  NULL = NULL
  VendorIndices <- MC_VendorIndices
  FrameSize <- MC_FrameSize
  Inputs <- MC_Inputs
  SourceIndices <- MC_SourceIndices
  CreatableVendor <- MC_CreatableVendor
  OffloadCodecToken <- MC_OffloadCodecToken
  LhdcOffloadToken <- MC_LhdcOffloadToken
SPECIFICATION Spec
INVARIANTS TypeOK FrameSizeAgreesWithEncoder IndexDispatchAgrees OffloadSupportFollowsCapability InitRegistryAgreesWithDispatch BaselineInitSucceeds OpusDisabledUnlessEnabled FoundCodecServesBuffer
