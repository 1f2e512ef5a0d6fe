--------------------------- MODULE StreamPromise ----------------------------
(***************************************************************************)
(* What a reply stream promises the proxy it gives outputs to              *)
(* (sidecar/_reply_stream.py, Output): bytes and keepalives, ended at most *)
(* once; a refusal with a status only where nothing was sent before it, an *)
(* error event only where something was, and an end only of a reply that   *)
(* was let go on.                                                          *)
(***************************************************************************)
EXTENDS Sequences

VARIABLES
  client,   \* what the proxy was given, in order
  verdict   \* what the reply came to, once that is known

vars == <<client, verdict>>

Sent    == {"bytes", "keepalive"}
Ends    == {"refuse", "error_event", "finished"}
Over    == client # <<>> /\ client[Len(client)] \in Ends

Init == client = <<>> /\ verdict = "none"

Decide == /\ verdict = "none"
          /\ verdict' \in {"goes_on", "refused", "not_judged"}
          /\ UNCHANGED client

Send == /\ ~Over
        /\ \E what \in Sent : client' = Append(client, what)
        /\ UNCHANGED verdict

End == /\ ~Over
       /\ \/ verdict = "goes_on" /\ client' = Append(client, "finished")
          \/ verdict # "goes_on" /\ client = <<>> /\ client' = <<"refuse">>
          \/ verdict # "goes_on" /\ client # <<>> /\ client' = Append(client, "error_event")
       /\ UNCHANGED verdict

Next == Decide \/ Send \/ End

Spec == Init /\ [][Next]_vars
=============================================================================
