----------------------------- MODULE MCMsgTable -----------------------------
(* Three tasks store messages in two chains while the page polls.          *)
EXTENDS MsgTable

CONSTANTS sender

MCTask == {Httpd, Handler, sender}
MCId == 1 .. 3
MCMix == [x \in MCId |-> x]
MCQuota == [t \in MCTask |-> 1]
=============================================================================
