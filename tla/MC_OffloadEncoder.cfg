CONSTANTS
  LDAC_VENDOR_ID = 301
  LDAC_CODEC_ID = 170
  LHDC_VENDOR_ID = 1338
  LHDCV2_CODEC_ID = 19506
  LHDCV3_CODEC_ID = 19507
  LHDCV5_CODEC_ID = 19509
  LHDC_VER2 = 1
  LHDC_VER3 = 1
  LHDC_VER6 = 5
  LHDCV5_VER_1 = 1
  LDAC_QUALITY_HIGH = 0
  LDAC_QUALITY_MID = 1
  LDAC_QUALITY_LOW = 2
  LDAC_QUALITY_ABR_OFFLOAD = 127
  LhdcQualityCode <- MC_LhdcQualityCode
  Inputs <- MC_Inputs
SPECIFICATION Spec
INVARIANTS EncodeFailsOnlyWhenUnrepresentable RevisionFieldsOnly LdacQualityTier
