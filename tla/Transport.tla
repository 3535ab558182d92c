----------------------------- MODULE Transport ------------------------------
(***************************************************************************)
(* Package agent: what a request can come back with.  A reply is a         *)
(* sequence of varbinds, each an OID or End; it counts whatever the        *)
(* context says by then.  What may go wrong is the status of a reply, or   *)
(* an error of the SNMP library, whose text tells a timeout from the rest. *)
(***************************************************************************)
EXTENDS Oid

End == <<>>            \* a varbind endOfMibView, whatever its OID

Mishaps == {"other", "status", "timeout"}

\* GoSNMP.do: the error of a request under a context that is done is that of the
\* context, even when the library calls it a timeout.
Classified_text(ctx, what) ==
  CASE what = "status" -> "agent"
    [] what = "timeout" -> "timeout"
    [] what = "other" -> IF ctx = "live" THEN "transport" ELSE "context"
Classified(ctx, what) ==
  CASE what = "status" -> "agent"
    [] what # "status" /\ ctx # "live" -> "context"
    [] what = "timeout" /\ ctx = "live" -> "timeout"
    [] what = "other" /\ ctx = "live" -> "transport"
=============================================================================
