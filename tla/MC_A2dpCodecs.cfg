CONSTANTS
  Codecs = {0, 1, 2, 3}
  SourceMax = 4
  CodecIndexMax = 4
  Uncreatable = {3}
  P1 = P1
  P2 = P2
  UserTypes = {0, 2, 4}
  PcmFormats = {P1, P2}
  PcmNone = PcmNone
  Spec4Values = {0}
  NoCodec = NoCodec
  LocalCapability <- MC_LocalCapability
  UserConfigs <- MC_UserConfigs
  AudioConfigs <- MC_AudioConfigs
  PeerCapabilities <- MC_PeerCapabilities
  PeerCodecCapabilities <- MC_PeerCodecCapabilities
  CodecPriorities <- MC_CodecPrioritiesWithDisabled
SPECIFICATION Spec
INVARIANTS TypeOK OrderedSourceSorted SessionViewNegotiated IdempotentUserConfig
PROPERTIES PeerRespectsUserConfig SwitchRestartsStream
