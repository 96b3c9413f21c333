--------------------------- MODULE MCWechatInbound ---------------------------
(* WechatInbound on small instances; the configurations choose the ways.      *)
EXTENDS WechatInbound

=============================================================================
