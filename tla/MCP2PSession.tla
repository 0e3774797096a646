---------------------------- MODULE MCP2PSession ----------------------------
(* The publisher and its two downloaders are model values of the cfg.  One   *)
(* downloader was constructed without port mapping.                          *)
EXTENDS P2PSession
=============================================================================
