------------------------- MODULE MCAIServiceClient --------------------------
(* AIServiceClient on a small instance.                                     *)
EXTENDS AIServiceClient
=============================================================================
