----------------------------- MODULE MCExchange -----------------------------
(* The sidecar's part in an exchange: the handler that judges those no     *)
(* eval names (Opening, in MCHandler), and the stream of a reply of up to  *)
(* four chunks of any kinds, of each way replies go out, where the last is *)
(* more than is held and a second one waits.                               *)
EXTENDS MCHandler, ReplyStream

VARIABLE part

AnyMode == {"error", "whole", "early"}

HandlerIdle == Init
ReplyIdle == ReplyInit /\ mode = "whole"

ExchangeInit == \/ part = "handler" /\ Init /\ ReplyIdle
                \/ part = "reply" /\ ReplyInit /\ HandlerIdle

InReply(A) == part = "reply" /\ A /\ UNCHANGED <<part, vars>>

HandlerPart == part = "handler" /\ Next /\ UNCHANGED <<part, replyVars>>
ReplyPart   == part = "reply" /\ ReplyNext /\ UNCHANGED <<part, vars>>

ExchangeNext == HandlerPart \/ ReplyPart

exchangeVars == <<part, vars, replyVars>>

(* As ReplyStream's FairReplySpec; of the handler nothing eventual is said *)
(* here.                                                                   *)
ExchangeSpec ==
  /\ ExchangeInit /\ [][ExchangeNext]_exchangeVars
  /\ WF_exchangeVars(InReply(Worker)) /\ WF_exchangeVars(InReply(BeatGoesOut))
  /\ WF_exchangeVars(InReply(FeedGoesOn)) /\ WF_exchangeVars(InReply(Collect))
  /\ WF_exchangeVars(InReply(EndInput))

(* A reply always ends, and so does feeding it, whatever its worker, its   *)
(* keepalives and its proxy wait for (ReplyStream.run, feed).              *)
EveryReplyEnds == part = "reply" => ReplyEnds
=============================================================================
