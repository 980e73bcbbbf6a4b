-------------------------- MODULE MC_OffloadEncoder --------------------------
(***************************************************************************)
(* The offload encoder over a bounded set of OTA configurations: every    *)
(* media codec type valid and invalid, LDAC with its documented qualities *)
(* and a few other codec_specific_1 values, and for each LHDC revision    *)
(* every combination of the fields its branch reads (supported and        *)
(* unsupported versions, split modes and frame lengths, every quality     *)
(* code plus an unused one and one with high bits set).                   *)
(*                                                                         *)
(* The vendor and codec ids are those of the vendor headers; the version  *)
(* and quality codes are assumed values, distinct as the header's switch  *)
(* statements require.                                                    *)
(***************************************************************************)
EXTENDS OffloadEncoder

MC_LhdcQualityCode ==
  [q \in Qualities |->
     CASE q = "LOW0" -> 0 [] q = "LOW1" -> 1 [] q = "LOW2" -> 2
       [] q = "LOW3" -> 3 [] q = "LOW4" -> 4 [] q = "LOW"  -> 5
       [] q = "MID"  -> 6 [] q = "HIGH" -> 7 [] q = "HIGH1" -> 8
       [] q = "ABR"  -> 9]

\* Every quality code, an unused code, and HIGH1's code with bit 4 set.
CodeSamples == {MC_LhdcQualityCode[q] : q \in Qualities} \cup {15, 16 + 8}

Raw == [i \in 3..10 |-> 100 + i]

Base ==
  [type |-> "NON_A2DP", valid |-> TRUE, vendorId |-> 0, codecId |-> 0,
   cs1 |-> 0, ver |-> 0, llac |-> FALSE, v4 |-> FALSE, maxBr |-> "400K",
   minBrFlag |-> FALSE, minBr |-> "64K", ll |-> FALSE, feats |-> {},
   split |-> "NONE", frameLen |-> 1, arOn |-> FALSE, raw |-> Raw]

StandardInputs ==
  {[Base EXCEPT !.type = t, !.valid = v] :
     t \in {"SBC", "AAC", "NON_A2DP", "OTHER"}, v \in BOOLEAN}

LdacInputs ==
  {[Base EXCEPT !.vendorId = LDAC_VENDOR_ID, !.codecId = LDAC_CODEC_ID,
                !.cs1 = c] : c \in {0, 1000, 1001, 1002, 1003, 11, -9}}

LhdcV3Inputs ==
  {[Base EXCEPT !.vendorId = LHDC_VENDOR_ID, !.codecId = LHDCV3_CODEC_ID,
                !.ver = v, !.llac = a, !.v4 = b, !.cs1 = c, !.maxBr = m,
                !.minBrFlag = f, !.ll = l, !.feats = F, !.split = s] :
     v \in {0, LHDC_VER3, LHDC_VER6}, a \in BOOLEAN, b \in BOOLEAN,
     c \in CodeSamples, m \in {"400K", "500K", "900K"}, f \in BOOLEAN,
     l \in BOOLEAN, F \in {{}, {"AR", "JAS", "META"}},
     s \in {"NONE", "TWS", "OTHER"}}

LhdcV2Inputs ==
  {[Base EXCEPT !.vendorId = LHDC_VENDOR_ID, !.codecId = LHDCV2_CODEC_ID,
                !.ver = v, !.cs1 = c, !.maxBr = m, !.ll = l, !.feats = F,
                !.split = s] :
     v \in {0, LHDC_VER2, LHDC_VER2 + 1}, c \in CodeSamples,
     m \in {"400K", "500K", "900K"}, l \in BOOLEAN,
     F \in {{}, {"AR", "JAS", "META"}}, s \in {"NONE", "TWS", "OTHER"}}

LhdcV5Inputs ==
  {[Base EXCEPT !.vendorId = LHDC_VENDOR_ID, !.codecId = LHDCV5_CODEC_ID,
                !.ver = v, !.cs1 = c, !.maxBr = m, !.minBr = n,
                !.frameLen = fl, !.ll = l, !.feats = F, !.arOn = ar] :
     v \in {0, LHDCV5_VER_1}, c \in CodeSamples,
     m \in {"400K", "500K", "900K", "1000K"}, n \in {"64K", "128K", "256K", "32K"},
     fl \in {0, 1}, l \in BOOLEAN, F \in {{}, {"AR", "JAS", "META"}},
     ar \in BOOLEAN}

MC_Inputs ==
  StandardInputs \cup LdacInputs \cup LhdcV3Inputs \cup LhdcV2Inputs \cup LhdcV5Inputs

=============================================================================
