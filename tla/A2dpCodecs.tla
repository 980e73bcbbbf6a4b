------------------------------ MODULE A2dpCodecs ------------------------------
(***************************************************************************)
(* The A2DP codec registry (class A2dpCodecs) together with the state of  *)
(* each codec descriptor it owns (class A2dpCodecConfig), from            *)
(* system/stack/a2dp/a2dp_codec_config.cc.                                *)
(*                                                                         *)
(* Every public entry point of A2dpCodecs takes the registry's recursive  *)
(* mutex for its whole body, so each one is a single atomic action here. *)
(* The codec-specific negotiation (A2dpCodecConfigSbc::setCodecConfig and *)
(* its siblings) lives outside this file; it is abstracted by Negotiate. *)
(*                                                                         *)
(* A codec configuration (btav_a2dp_codec_config_t) is abstracted to the  *)
(* fields the registry tells apart: pcm stands for sample rate, bits per  *)
(* sample, channel mode and codec_specific_1..3, the fields compared when *)
(* deciding restart_input; spec4 stands for codec_specific_4.            *)
(***************************************************************************)
EXTENDS Integers, Sequences, FiniteSets, TLC, SequencesExt

CONSTANTS
  Codecs,           \* btav_a2dp_codec_index_t values in [INDEX_MIN, INDEX_MAX)
  SourceMax,        \* BTAV_A2DP_CODEC_INDEX_SOURCE_MAX: indices below are source codecs
  CodecIndexMax,    \* BTAV_A2DP_CODEC_INDEX_MAX, also "no codec type given"
  CodecPriorities,  \* the constructor's table: codec index -> priority (DEFAULT = none)
  Uncreatable,      \* codec indices whose createCodec() returns nullptr
  PcmFormats,       \* distinct (rate, bits, channel mode, specific_1..3) combinations
  PcmNone,          \* the all-NONE value of those fields
  Spec4Values,      \* values of codec_specific_4
  LocalCapability,  \* [Codecs -> SUBSET Fmts]: codec_local_capability_
  UserConfigs,      \* user configurations a caller may pass to setCodecUserConfig
  AudioConfigs,     \* audio configurations a caller may pass to setCodecAudioConfig
  PeerCapabilities, \* peer capability sets offered in peer codec info buffers
  PeerCodecCapabilities, \* capability sets a peer advertises in discovery
  NoCodec           \* current_codec_config_ == nullptr

PRIORITY_DISABLED == -1    \* BTAV_A2DP_CODEC_PRIORITY_DISABLED
PRIORITY_DEFAULT  == 0     \* BTAV_A2DP_CODEC_PRIORITY_DEFAULT

Fmts    == [pcm : PcmFormats, spec4 : Spec4Values]
NoneFmt == [pcm |-> PcmNone, spec4 |-> 0]   \* a memset(0) configuration

\* A stored user or audio configuration: its priority and its format fields.
EmptyConfig == [prio |-> PRIORITY_DEFAULT, fmt |-> NoneFmt]

SourceCodecs == {c \in Codecs : c < SourceMax}
SinkCodecs   == Codecs \ SourceCodecs

ASSUME /\ Codecs \subseteq 0..(CodecIndexMax - 1)
       /\ NoCodec \notin Codecs
       /\ CodecPriorities \in [Codecs -> Int]
       /\ \A c \in Codecs : LocalCapability[c] \subseteq Fmts
       /\ \A u \in UserConfigs : u.type \in Codecs \cup {CodecIndexMax}

VARIABLES
  priority,        \* codec index -> codec_priority_
  userConfig,      \* codec index -> codec_user_config_
  audioConfig,     \* codec index -> codec_audio_config_
  config,          \* codec index -> codec_config_ (format fields)
  ota,             \* codec index -> ota_codec_config_ (wire image of a format)
  selectable,      \* codec index -> codec_selectable_capability_
  current,         \* current_codec_config_
  orderedSource,   \* ordered_source_codecs_
  orderedSink,     \* ordered_sink_codecs_
  result           \* outputs of the last call: return value and out-flags

vars == <<priority, userConfig, audioConfig, config, ota, selectable,
          current, orderedSource, orderedSink, result>>

-----------------------------------------------------------------------------
(* A2dpCodecConfig: priorities                                             *)

\* setDefaultCodecPriority(): the constructor's priority if one was given,
\* else 1000 * (codec_index + 1) + 1.
DefaultCodecPriority(c) ==
  IF CodecPriorities[c] # PRIORITY_DEFAULT
  THEN CodecPriorities[c]
  ELSE 1000 * (c + 1) + 1

\* Defect: DEFAULT is stored as the priority instead of being recomputed.
PriorityAfterSetRaw(c, p) == p

\* setCodecPriority(p): DEFAULT recomputes the default, any other value is
\* taken as it is.
PriorityAfterSet(c, p) ==
  IF p = PRIORITY_DEFAULT THEN DefaultCodecPriority(c) ELSE p

\* compare_codec_priority(lhs, rhs): larger priority first, ties broken by
\* the larger codec index.
ComparePriority(prio, lhs, rhs) ==
  \/ prio[lhs] > prio[rhs]
  \/ prio[lhs] = prio[rhs] /\ lhs > rhs

\* Defect: the list is left in its old order (a missing re-sort).
SortCodecsUnchanged(seq, prio) == seq

\* std::list::sort(compare_codec_priority) of a list of codecs.
SortCodecs(seq, prio) == SortSeq(seq, LAMBDA a, b : ComparePriority(prio, a, b))

\* Defect: a configuration that only sets a priority counts as empty.
IsCodecConfigEmptyIgnoringPriority(cfg) ==
  /\ cfg.fmt.pcm = PcmNone
  /\ cfg.fmt.spec4 = 0

\* isCodecConfigEmpty(): DEFAULT priority and every field NONE or zero.
IsCodecConfigEmpty(cfg) ==
  /\ cfg.prio = PRIORITY_DEFAULT
  /\ cfg.fmt.pcm = PcmNone
  /\ cfg.fmt.spec4 = 0

-----------------------------------------------------------------------------
(* A2dpCodecs::init(): which codecs are enabled                            *)

\* createCodec() succeeded and the priority is not DISABLED: indexed_codecs_.
IndexedCodecs == {c \in Codecs \ Uncreatable :
                    DefaultCodecPriority(c) # PRIORITY_DISABLED}

\* Codecs created with a DISABLED priority: disabled_codecs_.
DisabledCodecs == {c \in Codecs \ Uncreatable :
                    DefaultCodecPriority(c) = PRIORITY_DISABLED}

\* findSourceCodecConfig / findSinkCodecConfig: the enabled codec of the
\* buffer's type, or nullptr (NoCodec) for an unknown type or a codec that
\* is not enabled.
FindCodecConfig(t) == IF t \in IndexedCodecs THEN t ELSE NoCodec

-----------------------------------------------------------------------------
(* The codec-specific negotiation (outside this file)                      *)

\* A2dpCodecConfig<Codec>::setCodecConfig(peer, is_capability): the common
\* formats of peer and local capability; with a capability the user's, else
\* the audio pipeline's, preferred format is taken when common, else the
\* codec's best common format; with a peer configuration that configuration.
\* No common format is a failure (NoneFmt).
Negotiate(c, user, audio, peer, isCapability) ==
  LET common == peer \cap LocalCapability[c]
  IN  IF common = {} THEN NoneFmt
      ELSE IF isCapability /\ user.fmt \in common THEN user.fmt
      ELSE IF isCapability /\ audio.fmt \in common THEN audio.fmt
      ELSE CHOOSE f \in common : TRUE

\* A2dpCodecConfig::setCodecUserConfig: store the user and audio
\* configurations, negotiate, restore both on failure; restart_input when a
\* compared format field changed, restart_output when the OTA bytes changed
\* (A2DP_CodecEquals), config_updated when either is set.
ConfigSetCodecUserConfig(c, user, audio, peer, isCapability) ==
  LET f == Negotiate(c, user, audio, peer, isCapability)
      ok == f # NoneFmt
      ri == ok /\ config[c].pcm # f.pcm
      ro == ok /\ ota[c] # f
  IN  [ok |-> ok, fmt |-> f, ri |-> ri, ro |-> ro, upd |-> ri \/ ro]

\* The descriptor's state after a successful setCodecUserConfig.
CommitUserConfig(c, user, audio, f) ==
  /\ userConfig'  = [userConfig EXCEPT ![c] = user]
  /\ audioConfig' = [audioConfig EXCEPT ![c] = audio]
  /\ config'      = [config EXCEPT ![c] = f]
  /\ ota'         = [ota EXCEPT ![c] = f]

Outcome(op, ok, target, args, ri, ro, upd) ==
  [op |-> op, ok |-> ok, target |-> target, args |-> args,
   ri |-> ri, ro |-> ro, upd |-> upd]

\* A call that failed: every out-flag false, state as before the call.
Failed(op) ==
  /\ result' = Outcome(op, FALSE, NoCodec, <<>>, FALSE, FALSE, FALSE)
  /\ UNCHANGED <<priority, userConfig, audioConfig, config, ota, selectable,
                 current, orderedSource, orderedSink>>

-----------------------------------------------------------------------------
(* A2dpCodecs: initial state                                               *)

\* The constructor and init(): every descriptor at its priority with memset
\* configurations, the enabled ones in the priority-ordered lists, and no
\* current codec.
Init ==
  /\ priority      = [c \in Codecs |-> DefaultCodecPriority(c)]
  /\ userConfig    = [c \in Codecs |-> EmptyConfig]
  /\ audioConfig   = [c \in Codecs |-> EmptyConfig]
  /\ config        = [c \in Codecs |-> NoneFmt]
  /\ ota           = [c \in Codecs |-> NoneFmt]
  /\ selectable    = [c \in Codecs |-> {}]
  /\ current       = NoCodec
  /\ orderedSource = SetToSortSeq(IndexedCodecs \cap SourceCodecs,
                                  LAMBDA a, b : ComparePriority(priority, a, b))
  /\ orderedSink   = SetToSortSeq(IndexedCodecs \cap SinkCodecs,
                                  LAMBDA a, b : ComparePriority(priority, a, b))
  /\ result        = Outcome("init", orderedSource # <<>> /\ orderedSink # <<>>,
                             NoCodec, <<>>, FALSE, FALSE, FALSE)

-----------------------------------------------------------------------------
(* A2dpCodecs::setCodecUserConfig                                          *)

\* The user's target: the given codec type if it is enabled, nullptr if it
\* is not, the current codec if no type is given.
UserTarget(u) ==
  IF u.type < CodecIndexMax THEN FindCodecConfig(u.type) ELSE current

\* Defect: current_codec_config_ is not assigned in the first branch.
AdoptFirstCodecNotSelected(target, upd) ==
  [cur |-> NoCodec, ri |-> TRUE, ro |-> TRUE, upd |-> upd, demote |-> NoCodec]

\* No previous codec: the target becomes current and both restarts are set.
AdoptFirstCodec(target, upd) ==
  [cur |-> target, ri |-> TRUE, ro |-> TRUE, upd |-> upd, demote |-> NoCodec]

\* Defect: the old current codec keeps its priority (no setDefaultCodecPriority).
SwitchCodecNoDemotion(target, last) ==
  [cur |-> target, ri |-> TRUE, ro |-> TRUE, upd |-> TRUE, demote |-> NoCodec]

\* A non-current target raised to at least the current codec's priority:
\* it becomes current, the old current codec gets setDefaultCodecPriority(),
\* and both restarts are set.
SwitchCodec(target, last) ==
  [cur |-> target, ri |-> TRUE, ro |-> TRUE, upd |-> TRUE, demote |-> last]

\* The do { ... } while (false) block after a successful descriptor call:
\* which codec is current afterwards, the final out-flags, and the codec
\* demoted to its default priority (NoCodec when none is).
ReconcilePriority(target, last, oldp, newp, ri, ro, upd) ==
  CASE last = NoCodec ->
         AdoptFirstCodec(target, upd)
    [] target = last /\ oldp = newp ->
         [cur |-> last, ri |-> ri, ro |-> ro, upd |-> upd, demote |-> NoCodec]
    [] target = last ->
         [cur |-> last, ri |-> ri, ro |-> ro \/ newp < oldp, upd |-> TRUE,
          demote |-> NoCodec]
    [] newp <= oldp ->
         [cur |-> last, ri |-> FALSE, ro |-> FALSE,
          upd |-> upd \/ ri \/ ro \/ oldp # newp, demote |-> NoCodec]
    [] newp >= priority[last] ->
         SwitchCodec(target, last)
    [] OTHER ->
         [cur |-> last, ri |-> ri, ro |-> ro, upd |-> TRUE, demote |-> NoCodec]

\* The priorities after setCodecPriority on the target and
\* setDefaultCodecPriority on the demoted codec.
PrioritiesAfter(target, newp, demote) ==
  [c \in Codecs |->
     IF c = target THEN newp
     ELSE IF c = demote THEN DefaultCodecPriority(c)
     ELSE priority[c]]

\* The whole of a setCodecUserConfig(u, peer) call in the current state:
\* whether it succeeds, the target, the negotiated format, the priorities,
\* current codec and out-flags it leaves.
UserCall(u, peer) ==
  LET target == UserTarget(u)
      user   == [prio |-> u.prio, fmt |-> u.fmt]
      d      == ConfigSetCodecUserConfig(target, user, audioConfig[target],
                                         peer, TRUE)
      oldp   == priority[target]
      newp   == PriorityAfterSet(target, u.prio)
      r      == ReconcilePriority(target, current, oldp, newp, d.ri, d.ro, d.upd)
  IN  [ok |-> d.ok, target |-> target, user |-> user, fmt |-> d.fmt,
       prio |-> PrioritiesAfter(target, newp, r.demote), cur |-> r.cur,
       ri |-> r.ri, ro |-> r.ro, upd |-> r.upd \/ r.ri \/ r.ro]

setCodecUserConfig(u, peer) ==
  \/ /\ UserTarget(u) = NoCodec
     /\ Failed("user")
  \/ /\ UserTarget(u) # NoCodec
     /\ LET call == UserCall(u, peer)
        IN
        \/ /\ ~call.ok
           /\ Failed("user")
        \/ /\ call.ok
           /\ CommitUserConfig(call.target, call.user,
                               audioConfig[call.target], call.fmt)
           /\ priority' = call.prio
           /\ current' = call.cur
           /\ orderedSource' = SortCodecs(orderedSource, call.prio)
           /\ result' = Outcome("user", TRUE, call.target, <<u, peer>>,
                                call.ri, call.ro, call.upd)
           /\ UNCHANGED <<selectable, orderedSink>>

-----------------------------------------------------------------------------
(* A2dpCodecs::setCodecAudioConfig                                         *)

\* Renegotiate the current codec with a new audio configuration, reusing its
\* user configuration; the descriptor's restart_input is dropped.
setCodecAudioConfig(a, peer) ==
  \/ /\ current = NoCodec
     /\ Failed("audio")
  \/ /\ current # NoCodec
     /\ LET d == ConfigSetCodecUserConfig(current, userConfig[current], a,
                                          peer, TRUE)
        IN
        \/ /\ ~d.ok
           /\ Failed("audio")
        \/ /\ d.ok
           /\ CommitUserConfig(current, userConfig[current], a, d.fmt)
           /\ result' = Outcome("audio", TRUE, NoCodec, <<>>,
                                FALSE, d.ro, d.upd)
           /\ UNCHANGED <<priority, selectable, current, orderedSource, orderedSink>>

-----------------------------------------------------------------------------
(* A2dpCodecs::setCodecOtaConfig                                           *)

\* A peer configuration of source codec type t (CodecIndexMax: a type
\* A2DP_SourceCodecIndex does not know) in format f. Ignored while the
\* current codec or the target codec holds a non-empty user configuration;
\* otherwise the target becomes current and is renegotiated with the peer's
\* configuration, current being restored on failure.
\* The early returns of setCodecOtaConfig: a user configuration on the
\* current codec, an unknown or disabled codec type, a user configuration on
\* the target codec.
OtaIgnored(target) ==
  \/ current # NoCodec /\ ~IsCodecConfigEmpty(userConfig[current])
  \/ target = NoCodec
  \/ target # NoCodec /\ ~IsCodecConfigEmpty(userConfig[target])

\* Defect: the fail: label does not restore current_codec_config_.
OtaNegotiationFailedNoRestore(target) ==
  /\ result' = Outcome("ota", FALSE, NoCodec, <<>>, FALSE, FALSE, FALSE)
  /\ current' = target
  /\ UNCHANGED <<priority, userConfig, audioConfig, config, ota, selectable,
                 orderedSource, orderedSink>>

\* The target was made current before the descriptor call; the fail: label
\* restores current_codec_config_ to last_codec_config.
OtaNegotiationFailed(target) == Failed("ota")

setCodecOtaConfig(t, f) ==
  LET target == FindCodecConfig(t)
  IN
  \/ /\ OtaIgnored(target)
     /\ Failed("ota")
  \/ /\ ~OtaIgnored(target)
     /\ LET d == ConfigSetCodecUserConfig(target, userConfig[target],
                                          audioConfig[target], {f}, FALSE)
        IN
        \/ /\ ~d.ok
           /\ OtaNegotiationFailed(target)
        \/ /\ d.ok
           /\ CommitUserConfig(target, userConfig[target], audioConfig[target], d.fmt)
           /\ current' = target
           /\ result' = Outcome("ota", TRUE, NoCodec, <<>>, d.ri, d.ro, d.upd)
           /\ UNCHANGED <<priority, selectable, orderedSource, orderedSink>>

-----------------------------------------------------------------------------
(* A2dpCodecs::setCodecConfig / setSinkCodecConfig                         *)

\* Negotiate the codec named by the peer buffer's type tag with its stored
\* user and audio configurations, and make it current when asked to.
\* find(t) is findSourceCodecConfig or findSinkCodecConfig.
SetConfigByType(op, t, peer, isCapability, selectCurrent) ==
  LET target == FindCodecConfig(t)
  IN
  \/ /\ target = NoCodec
     /\ Failed(op)
  \/ /\ target # NoCodec
     /\ LET f == Negotiate(target, userConfig[target], audioConfig[target],
                           peer, isCapability)
        IN
        \/ /\ f = NoneFmt
           /\ Failed(op)
        \/ /\ f # NoneFmt
           /\ config' = [config EXCEPT ![target] = f]
           /\ ota'    = [ota EXCEPT ![target] = f]
           /\ current' = IF selectCurrent THEN target ELSE current
           /\ result' = Outcome(op, TRUE, NoCodec, <<>>, FALSE, FALSE, FALSE)
           /\ UNCHANGED <<priority, userConfig, audioConfig, selectable,
                          orderedSource, orderedSink>>

\* t ranges over source codec indices and CodecIndexMax (an unknown type).
setCodecConfig(t, peer, isCapability, selectCurrent) ==
  /\ t \in SourceCodecs \cup {CodecIndexMax}
  /\ SetConfigByType("config", t, peer, isCapability, selectCurrent)

setSinkCodecConfig(t, peer, isCapability, selectCurrent) ==
  /\ t \in SinkCodecs \cup {CodecIndexMax}
  /\ SetConfigByType("sinkConfig", t, peer, isCapability, selectCurrent)

-----------------------------------------------------------------------------
(* A2dpCodecs::setPeerSinkCodecCapabilities / setPeerSourceCodecCapabilities *)

\* A peer capability of a type the dispatch layer rejects (CodecIndexMax)
\* or of a codec that is not enabled is refused; otherwise the descriptor's
\* setPeerCodecCapabilities records the capabilities it shares with the peer.
SetPeerCapabilities(op, t, peer) ==
  LET target == FindCodecConfig(t)
  IN
  \/ /\ target = NoCodec
     /\ Failed(op)
  \/ /\ target # NoCodec
     /\ selectable' = [selectable EXCEPT ![target] = peer \cap LocalCapability[target]]
     /\ result' = Outcome(op, TRUE, NoCodec, <<>>, FALSE, FALSE, FALSE)
     /\ UNCHANGED <<priority, userConfig, audioConfig, config, ota, current,
                    orderedSource, orderedSink>>

setPeerSinkCodecCapabilities(t, peer) ==
  /\ t \in SourceCodecs \cup {CodecIndexMax}
  /\ SetPeerCapabilities("peerSinkCaps", t, peer)

setPeerSourceCodecCapabilities(t, peer) ==
  /\ t \in SinkCodecs \cup {CodecIndexMax}
  /\ SetPeerCapabilities("peerSourceCaps", t, peer)

-----------------------------------------------------------------------------
(* Read-only getters used by the session layer                             *)

\* A2dpCodecs::isSupportedCodec: indexed_codecs_.find(codec_index).
isSupportedCodec(t) == t \in IndexedCodecs

\* A2dpCodecConfig::copyOutOtaCodecConfig: false when ota_codec_config_ is
\* not a valid source codec (the memset buffer of a codec never
\* negotiated), else the bytes are copied out.
copyOutOtaCodecConfig(c) ==
  IF ota[c] = NoneFmt THEN [ok |-> FALSE, out |-> NoneFmt]
  ELSE [ok |-> TRUE, out |-> ota[c]]

\* A2dpCodecs::getCodecConfigAndCapabilities: the current codec's
\* codec_config_ (memset when there is none); the local capability of each
\* ordered source codec; their selectable capabilities, skipping one whose
\* rate, bits or channel mode is NONE (no common format).
getCodecConfigAndCapabilities ==
  [config     |-> IF current # NoCodec THEN config[current] ELSE NoneFmt,
   local      |-> [k \in DOMAIN orderedSource |-> LocalCapability[orderedSource[k]]],
   selectable |-> SelectSeq([k \in DOMAIN orderedSource |-> selectable[orderedSource[k]]],
                            LAMBDA cap : cap # {})]

-----------------------------------------------------------------------------
CodecTypes == Codecs \cup {CodecIndexMax}

Next ==
  \/ \E u \in UserConfigs, p \in PeerCapabilities : setCodecUserConfig(u, p)
  \/ \E a \in AudioConfigs, p \in PeerCapabilities : setCodecAudioConfig(a, p)
  \/ \E t \in SourceCodecs \cup {CodecIndexMax}, f \in Fmts : setCodecOtaConfig(t, f)
  \* the stack passes peer capabilities (is_capability = true) here
  \/ \E t \in CodecTypes, p \in PeerCapabilities, sel \in BOOLEAN :
        \/ setCodecConfig(t, p, TRUE, sel)
        \/ setSinkCodecConfig(t, p, TRUE, sel)
  \/ \E t \in CodecTypes, p \in PeerCodecCapabilities :
        \/ setPeerSinkCodecCapabilities(t, p)
        \/ setPeerSourceCodecCapabilities(t, p)

Spec == Init /\ [][Next]_vars

-----------------------------------------------------------------------------
(* Properties                                                              *)

ConfigRecords == [prio : Int, fmt : Fmts \cup {NoneFmt}]

\* codec_priority_ never holds the DEFAULT sentinel: setCodecPriority and
\* setDefaultCodecPriority replace it by a computed priority.
TypeOK ==
  /\ priority \in [Codecs -> Int \ {PRIORITY_DEFAULT}]
  /\ userConfig \in [Codecs -> ConfigRecords]
  /\ audioConfig \in [Codecs -> ConfigRecords]
  /\ config \in [Codecs -> Fmts \cup {NoneFmt}]
  /\ ota \in [Codecs -> Fmts \cup {NoneFmt}]
  /\ selectable \in [Codecs -> SUBSET Fmts]
  /\ current \in IndexedCodecs \cup {NoCodec}
  /\ orderedSource \in Seq(IndexedCodecs \cap SourceCodecs)
  /\ orderedSink \in Seq(IndexedCodecs \cap SinkCodecs)
  /\ result.ok \in BOOLEAN /\ {result.ri, result.ro, result.upd} \subseteq BOOLEAN

\* A codec list in the order of spec section 4.2: higher priority first,
\* equal priorities by larger codec index; stated without
\* compare_codec_priority.
RankedByPriority(seq) ==
  \A i, j \in 1..Len(seq) :
    i < j => \/ priority[seq[i]] > priority[seq[j]]
             \/ priority[seq[i]] = priority[seq[j]] /\ seq[i] > seq[j]

\* ordered_source_codecs_ holds each enabled source codec once and stays
\* ranked by priority after every call, including the calls of
\* setCodecUserConfig that change two priorities (the target's and the
\* demoted codec's).
OrderedSourceSorted ==
  /\ Len(orderedSource) = Cardinality(IndexedCodecs \cap SourceCodecs)
  /\ Range(orderedSource) = IndexedCodecs \cap SourceCodecs
  /\ RankedByPriority(orderedSource)

\* The same for ordered_sink_codecs_ (spec section 3: both lists are
\* re-sorted after every priority mutation).
OrderedSinkSorted ==
  /\ Len(orderedSink) = Cardinality(IndexedCodecs \cap SinkCodecs)
  /\ Range(orderedSink) = IndexedCodecs \cap SinkCodecs
  /\ RankedByPriority(orderedSink)

\* What the session layer reads is a stream it can start: whenever there
\* is a current codec, getCodecConfigAndCapabilities reports a negotiated
\* configuration of it, isSupportedCodec holds for it, and
\* copyOutOtaCodecConfig yields OTA bytes that carry that same
\* configuration. This must survive the calls that make a codec current
\* before negotiating and then fail (setCodecOtaConfig) and the descriptor
\* calls that overwrite the configuration before negotiating.
SessionViewNegotiated ==
  current # NoCodec =>
    LET view == getCodecConfigAndCapabilities
        copy == copyOutOtaCodecConfig(current)
    IN  /\ view.config # NoneFmt
        /\ isSupportedCodec(current)
        /\ copy.ok
        /\ copy.out = view.config

\* A user configuration is present on codec c (compared with the memset
\* value, not through isCodecConfigEmpty).
UserPinned(c) == userConfig[c] # EmptyConfig

\* setCodecOtaConfig: a peer's configuration never moves the selection away
\* from a current codec the user configured, and never renegotiates a codec
\* the user configured.
PeerRespectsUserConfig ==
  [][result'.op = "ota" =>
       /\ (current # NoCodec /\ UserPinned(current)) => current' = current
       /\ \A c \in Codecs : UserPinned(c) => config'[c] = config[c]]_vars

\* setCodecUserConfig: a call that moves the selection from one codec to
\* another requests both restarts, and the codec that lost the selection is
\* back at its default priority.
SwitchRestartsStream ==
  [][result'.op = "user" /\ current # NoCodec /\ current' # current =>
       /\ result'.ri /\ result'.ro
       /\ priority'[current] = DefaultCodecPriority(current)]_vars

\* Spec section 8: once a setCodecUserConfig call has succeeded, repeating
\* it with the same arguments would request no restart. (Stated on the state
\* rather than on the next step, because the repeated call usually leaves
\* every variable as it was.)
IdempotentUserConfig ==
  result.op = "user" /\ result.ok =>
    LET call == UserCall(result.args[1], result.args[2])
    IN  call.ok /\ ~call.ri /\ ~call.ro

\* After setCodecUserConfig switches codecs, the new current codec ranks
\* above the codec it replaced, so that the requested restart, which selects
\* a codec by rank, selects it.
SwitchedCodecOutranksPrevious ==
  [][result'.op = "user" /\ current # NoCodec /\ current' # current =>
       \/ priority'[current'] > priority'[current]
       \/ priority'[current'] = priority'[current] /\ current' > current]_vars

\* Spec section 4.1: a peer configuration that changes any audio format
\* field of the negotiated configuration (codec_specific_4 included)
\* requests an input restart, and one that changes none does not.
RestartInputTracksFormat ==
  [][result'.op = "ota" /\ result'.ok =>
       (result'.ri <=> config'[current'] # config[current'])]_vars

\* Spec section 4.3: changing the configuration or priority of a codec that
\* is not current, without selecting it, never restarts the active stream.
BackupChangeKeepsStream ==
  [][result'.op = "user" /\ result'.ok /\ current # NoCodec
       /\ result'.target # current /\ current' = current =>
         ~result'.ri /\ ~result'.ro]_vars

=============================================================================
