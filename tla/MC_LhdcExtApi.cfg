CONSTANTS
  NoCodec = NoCodec
  API_VERSION_SIZE = 4
  API_CODE_HEAD = 4
  API_CODE_SIZE = 4
  A2DPCFG_CODE_HEAD = 8
  A2DP_TYPE_MASK = 10
  LIB_TYPE_MASK = 12
  FUNC_CODE_GET_SPECIFIC <- MC_CodeGetSpecific
  FUNC_VER_GET_SPECIFIC_V1 <- MC_VerV1
  FUNC_VER_GET_SPECIFIC_V2 <- MC_VerV2
  TOTAL_FIXED_SIZE_V1 = 44
  TOTAL_FIXED_SIZE_V2 = 52
  CAPMETA_HEAD_V2 = 48
  KindCode <- MC_KindCode
  SPECIFICS_HEAD_V1 <- MC_HeadV1
  SPECIFICS_HEAD_V2 <- MC_HeadV2
  CapMetaBytes <- MC_CapMeta
  DescriptorConfig <- MC_DescriptorConfig
  Inputs <- MC_Inputs
SPECIFICATION Spec
INVARIANTS ReplyEncodesSelectedConfig
