---- MODULE SendPathMC ----
(* An instance of SendPath with the smallest mss that leaves room for padding  *)
(* and payloads on both sides of a longer length field and of the sample.      *)
EXTENDS SendPath

MCDcidLens == {0, 20}
MCSmall == {3}
MCNotices == {2}
====
