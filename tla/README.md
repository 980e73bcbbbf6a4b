# TLA+ models of the A2DP codec configuration (`a2dp_codec_config.cc`)

This directory holds TLA+ models of `src/system/stack/a2dp/a2dp_codec_config.cc`, with the TLC configurations that check them. The file is the Bluetooth A2DP codec registry, codec descriptors, capability dispatch and offload encoder.

## The system

The source has four parts (spec.md §1–§4), plus the LHDC extended API:

| Part | Code | What it does |
|---|---|---|
| **A2dpCodecConfig** (descriptor) | lines 64–970 | One per codec index. It holds `codec_priority_`, `codec_user_config_`, `codec_audio_config_`, `codec_config_`, `ota_codec_config_` and `codec_selectable_capability_`. `setCodecUserConfig` snapshots the config, stores the user and audio overrides, and runs the codec-specific `setCodecConfig`. It rolls back on failure and reports `restart_input`, `restart_output` and `config_updated`. |
| **A2dpCodecs** (registry) | lines 970–1742 | `init()` builds `indexed_codecs_`, `disabled_codecs_` and the two priority-ordered lists. The registry tracks `current_codec_config_`. `setCodecUserConfig` reconciles priorities and may switch codecs. `setCodecOtaConfig` applies a peer configuration unless a user configuration pins the codec. It also has the simple `setCodecConfig`/`setSinkCodecConfig` and the peer capability setters. |
| **OffloadEncoder** | `getCodecSpecificConfig`, lines 206–700 | Re-packs the negotiated OTA bytes into `tBT_A2DP_OFFLOAD::codec_info`. SBC, AAC, LDAC and LHDC V2, V3 and V5 each have their own tables and abort paths. |
| **CapabilityDispatch** | lines 1744–2305 | Stateless `A2DP_*` functions that switch on the codec-type byte and forward to per-codec files. |
| **Codec construction and platform flags** | `createCodec` (113–180), `A2dpCodecs::init()` (998–1111) | `createCodec` has its own `#if`-guarded switch on the codec index. `init()` reads the offload properties into the global `offload_codec_support[]` and the OPUS flag, then creates every codec of the index universe. |
| **LHDC extended API** | lines 1174–1451 | The registry's Savitech calls. They read a request header from a caller's byte buffer and write the selected configuration's `codec_specific_*` fields back as big-endian int64, or forward to the LHDC V5 descriptor or V3 encoder library. |

How the parts interact:

- Every public registry entry point takes the registry's recursive `codec_mutex_` for its whole body (spec §5). Concurrent callers are therefore serialized, and each call is one atomic step of the model.
- The exception is the LHDC extended API: none of its four calls takes the lock. Of them, only `getLHDCCodecUserConfig` reads registry state (`current_codec_config_`), so it is the one that interleaves with the registry's calls (`CurrentCodecRace`).
- The registry calls into the descriptors.
- The descriptors call the codec-specific negotiation. That code is in per-codec files that are not in this repository's `src/`.

## Modules

### `A2dpCodecs.tla`: the registry and the descriptors' state

**State.** One variable per field of the code:

- `priority`, `userConfig`, `audioConfig`, `config`, `ota` and `selectable` are functions of the codec index.
- `current` is `current_codec_config_`, and `NoCodec` stands for `nullptr`.
- `orderedSource` and `orderedSink` are the two lists.
- `result` records the last call's return value and out-flags, plus the target codec and arguments of user calls.

**Data abstraction.** A codec configuration is abstracted to a format record:

- `pcm` stands for sample rate, bits, channel mode and `codec_specific_1..3`.
- `spec4` stands for `codec_specific_4`.

Together these are exactly the fields the restart decision tells apart. A stored user or audio configuration is `[prio, fmt]`.

**Actions.** Each public call that changes state is one action. The whole handler is in the action, including the early returns, the `fail:` restore and the trailing sort:

| Action | Code |
|---|---|
| `setCodecUserConfig(u, peer)` | 1456–1559 |
| `setCodecAudioConfig(a, peer)` | 1561–1585 |
| `setCodecOtaConfig(t, f)` | 1587–1665 |
| `setCodecConfig` / `setSinkCodecConfig` | 1140–1172 |
| `setPeerSinkCodecCapabilities` / `setPeerSourceCodecCapabilities` | 1667–1687 |

`Init` is the constructor plus `init()`. The read-only getters `isSupportedCodec`, `copyOutOtaCodecConfig` and `getCodecConfigAndCapabilities` are operators over the state. They are what the session layer reads, and `SessionViewNegotiated` is stated through them.

**Helper operators.**

- `ReconcilePriority` is the `do { } while (false)` block.
- `ConfigSetCodecUserConfig` is the descriptor's snapshot, negotiate, roll back and compare sequence.
- `UserCall` is the whole outcome of a user call in the current state.

**Negotiation.** `Negotiate` stands for the codec-specific `setCodecConfig`, which is outside `src/` and is modelled from spec §4.1:

- the common formats of peer and local capability;
- with a capability, the user's preferred format if it is common, else the audio pipeline's;
- otherwise any common format;
- failure when nothing is common.

`SetPeerCapabilities` records the capability intersection in the same way.

### `OffloadEncoder.tla`: `getCodecSpecificConfig`

The input is the negotiated OTA configuration, abstracted to the fields the function reads:

- the type, the validity verdict, and the vendor and codec ids;
- the LHDC version, flag, split, bit-rate and frame-length fields;
- `codec_specific_1`.

**Output.** `codecInfo` holds the eight leading bytes as integers, and the LHDC fields as named tiers and flag sets.

**Header constants.** The numeric values of the LHDC header constants (quality codes, tier values, field offsets) are not in this repository:

- The quality codes are a CONSTANT. The MC assumes distinct codes, as the `switch` requires.
- The tiers are named after their constants.
- `& 0x0F` is `% 16`.
- The LDAC `% 10` is the C truncating remainder (`CRem`).
- The vendor id bytes are computed with `\div` and `% 256`, as the masks and shifts do.

**Operators.** There is one operator per revision step: version field, bit-rate tier, limits, split mode and interval. A failing branch keeps the fields written before its `goto fail`, as the code does.

**Behaviour.** The only action is the call itself. The descriptor's OTA configuration is chosen in `Init` from the bounded `Inputs`, so every input is a separate initial state.

### `LhdcExtApi.tla`: the LHDC extended API (lines 1174–1451)

**Calls.** The four calls are actions:

- `getLHDCCodecUserConfig`;
- `setLHDCCodecUserConfig`;
- `setLHDCCodecUserData`;
- `getLHDCCodecUserApiVer`.

**State.** A call is chosen in `Init` from `Inputs`, with these fields:

- operation and peer codec;
- a null buffer or not;
- the declared `clen`;
- the buffer bytes;
- `current_codec_config_`;
- whether `A2DP_VendorGetSrcCapVectorLhdcv3` succeeds;
- the status a delegated call returns.

The state also records four things:

- `buf`, the caller's buffer as a byte function;
- `ret`, the return value;
- `route`, the handler that answered;
- `reads`, the header indices the call read.

**Operators.**

- `GetLHDCCodecUserConfig` keeps every check in the code's order: null arguments, the peer switch, the tag byte, the size check, the NULL test of the current codec, the function code, the kind byte, then the version. Each failing check is its `goto Fail`.
- `WriteInt64` and `Int64Byte` are `swapInt64toByteArray`: eight big-endian bytes, each a mask and a shift, with the sign fill of a negative value.
- `GetSpecificV1` and `GetSpecificV2` are the two reply layouts.

**Header constants.** They are Savitech constants that are not in this repository. `MC_LhdcExtApi.tla` assumes this layout:

- a 4-byte version and a 4-byte code, with the tag as the first code byte;
- the kind byte at 8;
- V1 slots at 12, 20, 28 and 36, with a total of 44;
- V2 slots at 16, 24, 32 and 40, capability metadata at 48, and a total of 52.

The model's `ASSUME`s state what it relies on: the slots fit the totals, and the tag is the first code byte.

**Bounds.** The lengths are 0, 4, 5, 8, 9, 43, 44, 51 and 52. These are the sides of every size check. The configuration values include negative numbers, a value with every byte non-zero, and INT32_MIN.

### `CurrentCodecRace.tla`: the selection and its unlocked reader

`CurrentCodecRace` has two threads.

**The registry thread.** Its calls hold `codec_mutex_`, so one call runs at a time:

- `setCodecOtaConfig` is split at its descriptor call. `OtaSelectTarget` is lines 1592–1645: it saves `last_codec_config` and makes the target current. `OtaNegotiate` succeeds, or fails and restores the previous codec (`OtaFail`, line 1663).
- `UserConfig` and `CodecConfig` are `setCodecUserConfig` and `setCodecConfig`, abstracted to whether they negotiate and select.

**The extended-API thread.** `getLHDCCodecUserConfig` takes no lock:

- `ExtCheck` is the NULL test at line 1287.
- `ExtReply` is the load at line 1292 and the getter call.

The two unsynchronized loads are a data race. The build may reload the field or reuse the tested value, so `ExtReply` chooses between the two.

The module has no refinement of an abstract selection. Its registry calls other than the OTA call are written as abstract negotiate-and-select steps, and a mapping that hides the split OTA call's intermediate state would only check the restore at line 1663, which `SessionViewNegotiated` already checks on the full registry model. The intermediate state is exactly what the reader can see, and `NoNullDereference` is about it.

### `CapabilityDispatch.tla`: the `A2DP_*` routing functions (lines 1744–2305)

**Actions.** Each of the 28 functions is one disjunct of `Next`. The input is chosen in `Init` and has these parts:

- the build: with or without `EXCLUDE_NONSTANDARD_CODECS`;
- one or two codec-information buffers;
- a codec index.

**Shared switches.**

- `TypeFamily` is the `switch (codec_type)` with its `#if`.
- `ByType` is the shape every tag-routed function shares: ask the family, or return the function's value after the switch.
- `IndexFamily` is the index switch with its `codec_index < BTAV_A2DP_CODEC_INDEX_MAX` bound.
- `EncoderSwitch` is the switch written out again in `A2DP_GetEecoderEffectiveFrameSize` (2287–2301), translated separately from `TypeFamily` so that the two copies are compared.
- `ClearProtection` is the clearing of `p_cfg`'s content protection, which happens before the switch.

**Per-family functions.** They are outside `src/` and are modelled from spec §4.4 (marked `spec_modelled` in the map):

- a verdict on the parameter bytes;
- `-1` for a rejected buffer's track values;
- the family's interface or NULL;
- a standard family's single index, or the vendor's secondary dispatch to one of its sub-codec indices.

**Codec construction and `init()`.** Three more calls of the same module use the file's other tables on the codec index and tag:

- `getTrackBitRate` is the descriptor's own tag switch. Its SBC case asks the SBC encoder (`A2DP_GetBitrateSbc()`), not the buffer.
- `CreateCodec` is `A2dpCodecConfig::createCodec`:
  - `CreateCodecSwitch` is its case list with the `#if`;
  - a codec whose own `init()` fails (the input `failing`) is deleted, giving NULL.
- `Init` is `A2dpCodecs::init()`, with the platform properties as inputs of the call:
  - `A2dpOffloadStatus` is the supported/disabled test, done with `strcmp`, so `"1"` is not `"true"`.
  - `StrtokFields` is `strtok_r`. The capability value is given as its `-`-separated fields, and empty fields are skipped.
  - `OffloadToken` is one loop iteration. `"sbc"` sets its entry. Inside the `#if`, `"aac"` and `"ldac"` set their entries and the LHDC tokens clear theirs.
  - `ParseOffloadCapability` folds over the tokens, starting from the global table as this `init()` finds it. The table is never reset.
  - `InitCodecPriority` is the `codec_priorities_` lookup followed by the OPUS override.
  - `A2dpCodecsInit` is the loop over the index universe. It splits the codecs that `createCodec` builds into disabled and indexed, and returns whether both sides are non-empty.

- `FindSourceCodecConfig` and `FindSinkCodecConfig` are the registry lookups. `LookupIndex` is the index function each one asks. The lookup is done in the registry that `init()` builds from the same call's inputs, so it composes the tag dispatch, the index dispatch, `createCodec` and `init()`.

  The sorting of the lists is left to `A2dpCodecs.tla`. Its `Init` starts from the registry that this loop builds.

**Inputs.** The tags are SBC 0x00, AAC 0x02, non-A2DP 0xFF, and 0x01, which no family handles. The indices are the four standard enumerators, INDEX_MAX, and four vendor indices:

- LDAC, LHDCV3 and OPUS sources, which `createCodec` builds;
- a sink enumerator that it has no case for.

The `init()` inputs are:

- the four relevant (supported, disabled) property pairs;
- every capability value of up to two fields over `sbc`, `aac`, `ldac`, `lhdcv3`, `opus` and the empty field;
- a table that is empty, or that an earlier `init()` left with AAC set;
- the OPUS flag;
- priority tables that are empty, disable an SBC codec, or make OPUS highest;
- a failing SINK_SBC.

The lookups take every buffer above. The registry is built from each of these priority tables and failing sets, with the OPUS flag off.

### MC modules

- `MC_A2dpCodecs.tla` defines the bounded inputs of the registry:
  - in the registry run, codecs 0 and 1 are enabled, codec 2 is constructed DISABLED (it is in `disabled_codecs_`, like OPUS without its flag), and codec 3's `createCodec` fails. User calls name codec 0, the disabled codec 2, or no codec (4). Calls that name codec 2 or 3 take the not-enabled failure paths. Those paths lead to no new states, so the run still has 55,853 distinct states;
  - codec 1 supports a single format, so that a peer configuration can be refused;
  - user configurations with DEFAULT, 1500 (between the defaults 1001 and 2001) and 9000, and no format or one format;
  - a peer supporting everything, one format, or nothing.
- `MC_OffloadEncoder.tla` enumerates, for each LHDC revision, every combination of the fields its branch reads:
  - supported and unsupported versions, split modes and frame lengths;
  - every quality code, an unused code, and a code with bit 4 set.

  It also covers every media type (valid and invalid), and LDAC with `codec_specific_1` in {0, 1000–1003, 11, −9}.

## Runs

| Run | cfg | Expect | Checks |
|---|---|---|---|
| registry | `MC_A2dpCodecs.cfg` | pass (55,853 states, ~50 s) | `TypeOK`; `OrderedSourceSorted`; `SessionViewNegotiated`; `IdempotentUserConfig`; `PeerRespectsUserConfig` (action); `SwitchRestartsStream` (action) |
| offload | `MC_OffloadEncoder.cfg` | pass (35,646 states, ~20 s) | `EncodeFailsOnlyWhenUnrepresentable`; `RevisionFieldsOnly`; `LdacQualityTier` |
| sink_order | `MC_SinkOrder.cfg` | violation | `OrderedSinkSorted` |
| spec4_restart | `MC_Spec4Restart.cfg` | violation | `RestartInputTracksFormat` |
| switch_rank | `MC_SwitchRank.cfg` | violation | `SwitchedCodecOutranksPrevious` |
| backup_restart | `MC_BackupRestart.cfg` | violation | `BackupChangeKeepsStream` |
| ext_api | `MC_LhdcExtApi.cfg` | pass (5,278 states, ~1 s) | `ReplyEncodesSelectedConfig` |
| ext_header_bounds | `MC_ExtHeaderBounds.cfg` | violation | `HeaderReadsInBounds` |
| selection_race | `MC_CurrentCodecRace.cfg` | pass (576 states) | `TypeOK` |
| ext_race | `MC_ExtRace.cfg` | violation | `NoNullDereference` |
| dispatch | `MC_CapabilityDispatch.cfg` | pass (3,878 states, ~2 s) | `TypeOK`; `FrameSizeAgreesWithEncoder`; `IndexDispatchAgrees`; `OffloadSupportFollowsCapability`; `InitRegistryAgreesWithDispatch`; `BaselineInitSucceeds`; `OpusDisabledUnlessEnabled`; `FoundCodecServesBuffer` |

### What the passing runs show (registry)

Over every sequence of calls in the bounded model:

- **`OrderedSourceSorted`:** the source list holds each enabled source codec once and stays ranked after a call that changes two priorities, the target's and the demoted codec's.
- **`SessionViewNegotiated`:** whenever a codec is current, the session layer's readers agree that it can stream. `getCodecConfigAndCapabilities` reports a negotiated configuration, `isSupportedCodec` holds, and `copyOutOtaCodecConfig` succeeds with OTA bytes of that same configuration. This holds even after an OTA call that makes its target current before negotiating and then fails.
- **`PeerRespectsUserConfig`:** an OTA update never moves the selection off a codec the user configured, and never renegotiates one. This includes a configuration that sets only a priority.
- **`SwitchRestartsStream`:** every switch requests both restarts and resets the old codec to its default priority.
- **`IdempotentUserConfig`:** repeating a successful user call would request no restart (spec §8). It is stated on the state, because the repeated call normally leaves every variable unchanged and would be a stuttering step.

### What the passing runs show (offload)

The offload and extended-API runs check no type invariant. Every byte they write goes through a `uint8_t` or `unsigned char` store, so a check that each byte lies in 0..255 holds whatever the masks and shifts are, and says nothing about the code.

- **`EncodeFailsOnlyWhenUnrepresentable`:** the encoder fails exactly on the cases spec §4.5 lists.
- **`RevisionFieldsOnly`:** fields a revision does not have stay zeroed.
- **`LdacQualityTier`:** the documented LDAC values 0 and 1000–1003 map to their offload modes. The run also encodes 11 and −9, but the property says nothing about them: what a negative `codec_specific_1` should mean is documented nowhere.

### What the passing runs show (extended API, selection, dispatch)

- **`ReplyEncodesSelectedConfig`:** a successful get-specifics reply decodes, slot by slot, to `codec_specific_1..4` of the configuration the kind byte selects. This includes negative values, values with bit 31 set and INT32_MIN. Only values that fit in 32 bits are modelled.
- **`TypeOK` (selection_race):** a reader that passed its NULL test holds a descriptor. The run reaches every action of the race, including the crash, which `NoNullDereference` reports in its own run.
- **`FrameSizeAgreesWithEncoder`:** in both builds and for every tag, the copied switch of `A2DP_GetEecoderEffectiveFrameSize` gives 0 exactly when `A2DP_GetEncoderInterface` gives NULL.
- **`IndexDispatchAgrees`:** a buffer a build accepts as a source or sink codec maps to an index below INDEX_MAX. `A2DP_CodecIndexStr` and `A2DP_InitCodecConfig` route that index to the family that judged the buffer. INDEX_MAX itself reaches no family.
- **`OffloadSupportFollowsCapability`:** after `init()`, `offload_codec_support` is exactly the table it found, plus the offload-capable codecs of the build that the capability list names, less the LHDC codecs it names. This holds when offload is supported and not disabled, whatever the token order and the empty fields. Otherwise the table is left as it was. The check is a set-based reference for the `strtok_r` loop. It also pins down that a table set by an earlier `init()` survives.
- **`InitRegistryAgreesWithDispatch`:** every codec that `init()` registers, enabled or disabled, was built by `createCodec` for the family that `A2DP_CodecIndexStr` and `A2DP_InitCodecConfig` route its index to. This is checked in both builds.
- **`BaselineInitSucceeds`:** in either build, `init()` returns true unless an SBC codec is disabled or fails its own `init()` (the SBC-only scenario of spec §8).
- **`OpusDisabledUnlessEnabled`:** with the OPUS flag off, no priority override puts OPUS into `indexed_codecs_`.
- **`FoundCodecServesBuffer`:** for every buffer and every registry that `init()` can build, the codec that `findSourceCodecConfig` (or `findSinkCodecConfig`) returns is a source (or sink) codec. `createCodec` built it for the family that judges the buffer. A buffer the build accepts finds the codec of its index whenever that codec is enabled.

**Mutants.** Each property has a mutant in `PROJECT.json`: a plausible one-line bug in the mapped code, defined next to it in the module. TLC finds each mutant's property violated.

### Findings (violation runs)

- **sink_order** (spec §3 and §8). After `setCodecUserConfig` raises a sink codec's priority, only `ordered_source_codecs_` is re-sorted (line 1545). The sink list is left out of order.
- **spec4_restart** (spec §4.1). `restart_input` compares `codec_specific_1..3` but not `codec_specific_4` (lines 820–825). An OTA configuration that changes only `codec_specific_4` is applied without an input restart.
- **switch_rank** (spec gap).
  1. Codec 1 is current.
  2. The user lowers it to 1500.
  3. The user raises codec 0 to 1500. The codes switch to codec 0 and reset codec 1 to its default 2001, which now ranks above the selected codec.
- **backup_restart** (spec gap). When a non-current codec is raised but stays below the current one, the branch at line 1535 keeps the descriptor's restart flags. The caller is asked to restart a stream whose codec did not change. Spec §4.3 says backup changes never disturb the active stream.

- **ext_header_bounds** (code bug). `getLHDCCodecUserConfig` reads the tag byte `codecConfig[API_CODE_HEAD]` (line 1267) before it checks `clen`. With `clen` = 8, it reads the kind byte at `A2DPCFG_CODE_HEAD` (line 1310) after checking only that `clen` covers version and code. Both reads can fall past the caller's buffer.
- **ext_race** (spec §5: reads that must be consistent are made under the lock). `getLHDCCodecUserConfig` takes no lock and loads `current_codec_config_` twice:
  1. `setCodecOtaConfig` makes its target current while nothing was selected.
  2. The reader's NULL test passes.
  3. The negotiation fails and restores NULL (line 1663).
  4. The reader reloads NULL and calls a getter on it.

**Not given a run: the frame-size sentinel.** For a tag no family handles, `A2DP_GetEecoderEffectiveFrameSize` returns 0 (line 2302). Spec §4.4 says accessors return -1, null or "UNKNOWN", and the sibling `A2DP_GetTrack*` return -1. One unit test with an unknown tag shows it, so it is documented here rather than listed as a hazard.

## Bounds, fairness, and what is left out

**Bounds.** Two source codecs and two formats are enough to reach every branch of the reconciliation:

- no current codec;
- target is current, with equal, higher or lower priority;
- target is not current, lowered;
- target is not current, raised past the current codec;
- target is not current, raised but still below it.

It also reaches every early return of the OTA call. Adding a third source codec multiplies the state space without adding a branch. The sink list is exercised in `MC_SinkOrder.cfg`, and `codec_specific_4` in `MC_Spec4Restart.cfg`.

**Bounds of the race model.** Two codecs are enough for the race: one call can leave the selection at NoCodec while another is made current.

**Fairness and liveness.** There is none. The API is synchronous call/return (spec §5): nothing is pending between calls, and no step must eventually happen. The split `setCodecOtaConfig` finishes within its caller's call. Deadlock checking stays on: every action is always enabled, and in the pure-function modules the caller may repeat its call.

**Not modelled yet:**

- The per-family implementations called by CapabilityDispatch and by the LHDC extended API (LHDC V5 descriptor, LHDC V3 encoder library). They are outside `src/` and are abstracted to their verdict or status.
- Reading the property values themselves (`osi_property_get`) is I/O. Their values are inputs of the `Init` call of CapabilityDispatch. In `A2dpCodecs.tla`, the resulting codec set enters through the `CodecPriorities` and `Uncreatable` constants.
- Text formatting and debug dumps: `codecConfigIsValid` and the `*2Str` helpers (lines 841–948), and both `debug_codec_dump`s. They only build text for logs.
- The descriptor getters that return a snapshot under the lock (`getCodecConfig`, `getCodecCapability`, `getCodecLocalCapability`, `getCodecSelectableCapability`, `getCodecUserConfig`, `getCodecAudioConfig`, lines 716–754). They change nothing and are folded into `getCodecConfigAndCapabilities`.
- `getAudioBitsPerSample` (lines 756–770) maps the bits-per-sample field to 16, 24, 32 or 0. The models abstract formats to model values, so this mapping has nothing to act on.
- `init_btav_a2dp_codec_config` (lines 56–63) is a memset plus two assignments. It is part of the descriptor constructor that `Init` models.
- The per-codec negotiation. It is outside `src/` and is abstracted by `Negotiate`.

## Further work

1. A property about the selectable-capability filter of `getCodecConfigAndCapabilities`. This needs the codec-specific `setCodecConfig` to update `codec_selectable_capability_`, and that code is outside `src/`.
