CONSTANTS
  Codecs = {c1, c2}
  NoCodec = NoCodec
SPECIFICATION Spec
INVARIANT TypeOK
