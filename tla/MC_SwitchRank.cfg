CONSTANTS
  Codecs = {0, 1}
  SourceMax = 2
  CodecIndexMax = 2
  Uncreatable = {}
  P1 = P1
  P2 = P2
  UserTypes = {0, 2}
  PcmFormats = {P1, P2}
  PcmNone = PcmNone
  Spec4Values = {0}
  NoCodec = NoCodec
  LocalCapability <- MC_LocalCapability
  UserConfigs <- MC_UserConfigs
  AudioConfigs <- MC_AudioConfigs
  PeerCapabilities <- MC_PeerCapabilities
  PeerCodecCapabilities <- MC_PeerCodecCapabilities
  CodecPriorities <- MC_CodecPriorities
SPECIFICATION Spec
PROPERTY SwitchedCodecOutranksPrevious
