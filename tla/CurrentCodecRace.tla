---------------------------- MODULE CurrentCodecRace ----------------------------
(***************************************************************************)
(* current_codec_config_ shared between the registry's locked calls and  *)
(* the unlocked LHDC extended-API reader (a2dp_codec_config.cc).          *)
(*                                                                         *)
(* Every mutating entry point of A2dpCodecs holds codec_mutex_, so their  *)
(* calls are serialized and are modelled as one registry thread. Within   *)
(* a call, setCodecOtaConfig is the one that writes current_codec_config_ *)
(* twice: it makes the target current before negotiating and restores   *)
(* the previous value on failure; it is split at that point. The other   *)
(* calls write it at most once and are single steps here; their effect   *)
(* on the selection is abstracted to whether they negotiate and select.  *)
(*                                                                         *)
(* getLHDCCodecUserConfig takes no lock: it tests current_codec_config_   *)
(* against NULL and then loads it again into a2dp_codec_config. The two  *)
(* loads race with the registry thread (undefined behaviour); the build  *)
(* may reload the field or reuse the value it tested, so the second load *)
(* is a choice between the two.                                         *)
(***************************************************************************)
CONSTANTS Codecs, NoCodec

VARIABLES
  current,     \* current_codec_config_
  negotiated,  \* descriptor -> codec_config_ holds a negotiated configuration
  regPc,       \* the registry thread: "idle" or inside setCodecOtaConfig
  regTarget,   \* setCodecOtaConfig: a2dp_codec_config
  regLast,     \* setCodecOtaConfig: last_codec_config
  apiPc,       \* the extended-API thread: "idle", "checked" or "crashed"
  apiSeen,     \* the value of current_codec_config_ the NULL test saw
  replied,     \* the descriptor whose configuration the last reply carried
  apiRet       \* the return value of the last extended-API call

vars == <<current, negotiated, regPc, regTarget, regLast, apiPc, apiSeen,
          replied, apiRet>>

NoReply == "no reply"

Init ==
  /\ current = NoCodec
  /\ negotiated = [c \in Codecs |-> FALSE]
  /\ regPc = "idle" /\ regTarget = NoCodec /\ regLast = NoCodec
  /\ apiPc = "idle" /\ apiSeen = NoCodec /\ replied = NoReply
  /\ apiRet = "none"

ApiVars == <<apiPc, apiSeen, replied, apiRet>>
OtaVars == <<regPc, regTarget, regLast>>

-----------------------------------------------------------------------------
(* The registry thread (holding codec_mutex_)                              *)

\* setCodecOtaConfig up to the descriptor call: last_codec_config is
\* saved and the target made current. The early returns (user
\* configuration present, unknown or disabled codec) restore
\* last_codec_config unchanged and leave no trace in these variables.
OtaSelectTarget(t) ==
  /\ regPc = "idle"
  /\ regLast' = current
  /\ regTarget' = t
  /\ current' = t
  /\ regPc' = "negotiating"
  /\ UNCHANGED <<negotiated, ApiVars>>

\* fail: current_codec_config_ = last_codec_config.
OtaFail == current' = regLast

\* The descriptor's setCodecUserConfig on the target: success keeps the
\* target current with a negotiated configuration; failure rolls the
\* descriptor back and goes to fail:.
OtaNegotiate ==
  /\ regPc = "negotiating"
  /\ \/ /\ negotiated' = [negotiated EXCEPT ![regTarget] = TRUE]
        /\ UNCHANGED current
     \/ /\ OtaFail
        /\ UNCHANGED negotiated
  /\ regPc' = "idle"
  /\ regTarget' = NoCodec /\ regLast' = NoCodec
  /\ UNCHANGED ApiVars

\* setCodecUserConfig: on success the target has negotiated; the
\* reconciliation adopts it when nothing was current and may switch to it
\* (a raised priority); on failure nothing changes.
UserConfig(t) ==
  /\ regPc = "idle"
  /\ negotiated' = [negotiated EXCEPT ![t] = TRUE]
  /\ current' \in IF current = NoCodec THEN {t} ELSE {current, t}
  /\ UNCHANGED <<OtaVars, ApiVars>>

\* setCodecConfig / setSinkCodecConfig: a successful negotiation, the
\* codec made current when select_current_codec is set.
CodecConfig(t, select) ==
  /\ regPc = "idle"
  /\ negotiated' = [negotiated EXCEPT ![t] = TRUE]
  /\ current' = IF select THEN t ELSE current
  /\ UNCHANGED <<OtaVars, ApiVars>>

-----------------------------------------------------------------------------
(* getLHDCCodecUserConfig, LHDC V3 A2DP-specifics path (no lock)           *)

\* Defect: the NULL test of current_codec_config_ is missing.
ExtCheckCurrentNoTest ==
  /\ apiPc = "idle"
  /\ apiSeen' = current
  /\ apiPc' = "checked"
  /\ UNCHANGED <<replied, apiRet>>

\* if (current_codec_config_ == NULL) goto Fail;
ExtCheckCurrent ==
  /\ apiPc = "idle"
  /\ \/ /\ current = NoCodec
        /\ apiRet' = "BT_STATUS_FAIL"
        /\ UNCHANGED <<apiPc, apiSeen, replied>>
     \/ /\ current # NoCodec
        /\ apiSeen' = current
        /\ apiPc' = "checked"
        /\ UNCHANGED <<replied, apiRet>>

ExtCheck ==
  /\ ExtCheckCurrent
  /\ UNCHANGED <<current, negotiated, OtaVars>>

\* a2dp_codec_config = current_codec_config_; then a getter is called on
\* it: a NULL pointer is dereferenced.
ExtReply ==
  /\ apiPc = "checked"
  /\ \E p \in {current, apiSeen} :
       IF p = NoCodec
       THEN /\ apiPc' = "crashed"
            /\ UNCHANGED <<replied, apiRet>>
       ELSE /\ replied' = p
            /\ apiRet' = "BT_STATUS_SUCCESS"
            /\ apiPc' = "idle"
  /\ apiSeen' = NoCodec
  /\ UNCHANGED <<current, negotiated, OtaVars>>

Next ==
  \/ \E t \in Codecs : OtaSelectTarget(t)
  \/ OtaNegotiate
  \/ \E t \in Codecs : UserConfig(t)
  \/ \E t \in Codecs, sel \in BOOLEAN : CodecConfig(t, sel)
  \/ ExtCheck
  \/ ExtReply

Spec == Init /\ [][Next]_vars

-----------------------------------------------------------------------------
(* Properties                                                              *)

\* A reader that passed the NULL test holds a descriptor, not NULL.
TypeOK ==
  /\ current \in Codecs \cup {NoCodec}
  /\ negotiated \in [Codecs -> BOOLEAN]
  /\ regPc \in {"idle", "negotiating"}
  /\ apiPc \in {"idle", "checked", "crashed"}
  /\ apiPc = "checked" => apiSeen \in Codecs
  /\ replied \in Codecs \cup {NoReply}

\* getLHDCCodecUserConfig never dereferences a NULL current codec: the
\* pointer it tested is the one it uses (spec section 5: reads that must
\* be consistent are made under the registry lock).
NoNullDereference == apiPc # "crashed"

=============================================================================
