---------------------------- MODULE GatewayClass ----------------------------
(* The byte in which a gateway announces its bandwidth, and the text of the  *)
(* option that sets it (posix/tunnel.c).  Speeds are in KBit, a pair is      *)
(* [down, up].                                                               *)
EXTENDS Integers, FiniteSetsExt

Abs(x) == IF x < 0 THEN -x ELSE x

(* The first of the tested speeds that no other one is closer to than.        *)
Nearest(S, x) ==
  Min({i \in DOMAIN S : \A j \in DOMAIN S : Abs(S[i] - x) <= Abs(S[j] - x)})

(* sbit and dpart select the download speed, upart eighths of it.             *)
DownSpeeds == [c \in 0..31 |-> 32 * (2 + c \div 16) * 2 ^ (c % 16)]
UpSpeeds(down) == [u \in 0..7 |-> ((u + 1) * down) \div 8]

(* get_gw_class() followed by get_gw_speeds().                                *)
Quantised(s) ==
  LET d == DownSpeeds[Nearest(DownSpeeds, s.down)]
  IN  [down |-> d, up |-> UpSpeeds(d)[Nearest(UpSpeeds(d), s.up)]]

NoSpeed == [down |-> 0, up |-> 0]

(* opt_gw_class() up to the choice of the class: no upload given is a fifth.  *)
Class(s) ==
  IF s.down <= 0 THEN NoSpeed
  ELSE Quantised([s EXCEPT !.up = IF @ = 0 THEN s.down \div 5 ELSE @])

(* Above 2048 KBit the text is in whole MBit: the rest is cut off.            *)
Written(k) == IF k > 2048 THEN (k \div 1024) * 1024 ELSE k
Text(s) == [down |-> Written(s.down), up |-> Written(s.up)]

(* What OPT_ADJUST makes of the value: the text of its class.                 *)
Adjusted(s) == Text(Class(s))
=============================================================================
