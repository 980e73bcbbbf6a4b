---------------------------- MODULE MC_LhdcExtApi ----------------------------
(***************************************************************************)
(* Inputs for LhdcExtApi. The header values are those of the Savitech   *)
(* LHDC extended-API header, which is not in this repository: a 4-byte  *)
(* version, a 4-byte function code whose first byte is the type tag, the *)
(* configuration-kind byte right after them, and the V1 and V2 layouts   *)
(* of four 8-byte slots (V2 followed by capability metadata).            *)
(***************************************************************************)
EXTENDS LhdcExtApi

MC_KindCode ==
  [k \in Kinds |-> CASE k = "FINAL_CFG" -> 1 [] k = "FINAL_CAP" -> 2
                     [] k = "LOCAL_CAP" -> 3 [] k = "SELECTABLE_CAP" -> 4
                     [] k = "USER_CFG" -> 5 [] k = "AUDIO_CFG" -> 6]

MC_CodeGetSpecific == <<10, 1, 0, 1>>
MC_VerV1 == <<1, 0, 0, 0>>
MC_VerV2 == <<2, 0, 0, 0>>

MC_HeadV1 == <<12, 20, 28, 36>>
MC_HeadV2 == <<16, 24, 32, 40>>
MC_CapMeta == <<170, 187, 204, 221>>

\* Distinct specifics per codec and kind: a negative value, one with bit 31
\* set, one using all four low bytes, and small flags.
KindNo(k) == MC_KindCode[k]
MC_DescriptorConfig ==
  [cd \in {"LHDCV3", "SBC"} |->
     [k \in Kinds |->
        LET n == KindNo(k) + (IF cd = "SBC" THEN 10 ELSE 0)
        IN  <<-n, 16777216 * n + 65793, -2147483647 - 1 + n, n>>]]

Filler == 90     \* the caller's bytes beyond the header

\* A request buffer: version, function code, kind byte, filler.
Request(ver, code, kind) ==
  [i \in 0..(TOTAL_FIXED_SIZE_V2 - 1) |->
     CASE i \in 0..3 -> ver[i + 1]
       [] i \in 4..7 -> code[i - 3]
       [] i = A2DPCFG_CODE_HEAD -> kind
       [] OTHER -> Filler]

Versions == {FUNC_VER_GET_SPECIFIC_V1, FUNC_VER_GET_SPECIFIC_V2, <<3, 0, 0, 0>>}
\* GET_SPECIFIC, another code of the A2DP type, the library type, another.
Codes == {FUNC_CODE_GET_SPECIFIC, <<A2DP_TYPE_MASK, 2, 0, 0>>,
          <<LIB_TYPE_MASK, 1, 0, 0>>, <<7, 0, 0, 0>>}
KindBytes == {1, 4, 6, 9}
\* Around every length check: none, the tag byte, the header, the kind byte,
\* and both fixed sizes.
Lengths == {0, 4, 5, 8, 9, TOTAL_FIXED_SIZE_V1 - 1, TOTAL_FIXED_SIZE_V1,
            TOTAL_FIXED_SIZE_V2 - 1, TOTAL_FIXED_SIZE_V2}

Default == Request(FUNC_VER_GET_SPECIFIC_V1, FUNC_CODE_GET_SPECIFIC, 1)

\* Every path of the LHDC V3 A2DP-specifics reply.
V3GetInputs ==
  [op : {"getUserConfig"}, peer : {"LHDCV3"}, nullBuf : {FALSE},
   clen : Lengths, bytes : {Request(v, c, k) : v \in Versions, c \in Codes,
                                                k \in KindBytes},
   current : {"LHDCV3", "SBC", NoCodec}, capOk : BOOLEAN, delegated : {FAIL}]

\* Every operation on every kind of peer codec, with null arguments.
ForwardInputs ==
  [op : {"getUserConfig", "setUserConfig", "setUserData", "getUserApiVer"},
   peer : {"LHDCV2", "LHDCV3", "LHDCV5", "SBC", NoCodec}, nullBuf : BOOLEAN,
   clen : {TOTAL_FIXED_SIZE_V2}, bytes : {Request(FUNC_VER_GET_SPECIFIC_V1,
                                                  <<LIB_TYPE_MASK, 1, 0, 0>>, 1)},
   current : {"LHDCV3"}, capOk : {TRUE}, delegated : {SUCCESS, FAIL}]

MC_Inputs == V3GetInputs \cup ForwardInputs

=============================================================================
