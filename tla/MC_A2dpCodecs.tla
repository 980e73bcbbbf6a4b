---------------------------- MODULE MC_A2dpCodecs ----------------------------
(***************************************************************************)
(* Small registries for TLC. Codec indices, the user's codec types and   *)
(* the format values are set in each .cfg; the codec of index 1 supports *)
(* a single format, so that a peer can offer it a configuration it       *)
(* cannot accept.                                                         *)
(***************************************************************************)
EXTENDS A2dpCodecs

CONSTANTS P1, P2, UserTypes

MC_Fmt(p, s) == [pcm |-> p, spec4 |-> s]

MC_LocalCapability ==
  [c \in Codecs |-> IF c = 1 THEN {MC_Fmt(P1, 0)} ELSE Fmts]

\* The given codec types, CodecIndexMax among them for "reconfigure the
\* current codec"; DEFAULT priority, a priority between the defaults of
\* codecs 0 (1001) and 1 (2001), and one above every default.
MC_UserConfigs ==
  [type : UserTypes,
   prio : {PRIORITY_DEFAULT, 1500, 9000},
   fmt  : {NoneFmt, MC_Fmt(P1, 0)}]

MC_AudioConfigs ==
  [prio : {PRIORITY_DEFAULT}, fmt : {MC_Fmt(P2, 0)}]

\* A peer supporting everything, one supporting a single format, and one
\* sharing nothing with us.
MC_PeerCapabilities == {Fmts, {MC_Fmt(P2, 0)}, {}}

\* Discovery reports a peer supporting every format.
MC_PeerCodecCapabilities == {Fmts}

MC_CodecPriorities == [c \in Codecs |-> PRIORITY_DEFAULT]

\* The registry run: codec 2 is constructed DISABLED (as init() does for
\* OPUS without its flag), so it lands in disabled_codecs_.
MC_CodecPrioritiesWithDisabled ==
  [c \in Codecs |-> IF c = 2 THEN PRIORITY_DISABLED ELSE PRIORITY_DEFAULT]

=============================================================================
