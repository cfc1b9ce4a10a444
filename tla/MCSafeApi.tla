------------------------------ MODULE MCSafeApi ------------------------------
(***************************************************************************)
(* SafeApi for TLC.  CANCELLED is the one gRPC status that the proxy       *)
(* retries; UNAVAILABLE stands for the transport errors it does not.       *)
(***************************************************************************)
EXTENDS SafeApi, TLC

CONSTANTS e1, e2, r1, win, lose, CANCELLED, UNAVAILABLE

TwoEndpoints == {e1, e2}
OneInvocation == {r1}
TwoForks == {win, lose}
Codes == {CANCELLED, UNAVAILABLE, NotFound}
RetryCodes == {CANCELLED}

==============================================================================
