CONSTANTS
  Codecs = {0, 2, 3}
  SourceMax = 1
  CodecIndexMax = 4
  Uncreatable = {}
  P1 = P1
  P2 = P2
  UserTypes = {2}
  PcmFormats = {P1, P2}
  PcmNone = PcmNone
  Spec4Values = {0}
  NoCodec = NoCodec
  LocalCapability <- MC_LocalCapability
  UserConfigs <- MC_UserConfigs
  AudioConfigs <- MC_AudioConfigs
  PeerCapabilities <- MC_PeerCapabilities
  PeerCodecCapabilities <- MC_PeerCodecCapabilities
  CodecPriorities <- MC_CodecPriorities
SPECIFICATION Spec
INVARIANT OrderedSinkSorted
