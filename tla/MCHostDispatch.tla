--------------------------- MODULE MCHostDispatch ---------------------------
(* Instances of HostDispatch: jobs a and b of the v1 profile, c of the v2  *)
(* profile, k a warmup preload; one family or two.                         *)
EXTENDS HostDispatch, TLC

CONSTANTS a, b, c, k, boot, user

AllOnBoot == [j \in Jobs |-> boot]
UserIsV2 == [j \in Jobs |-> IF j = c THEN user ELSE boot]
Profiles == [j \in Jobs |-> IF j = k THEN Kick ELSE IF j = c THEN V2 ELSE V1]
=============================================================================
