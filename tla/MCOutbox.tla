------------------------------ MODULE MCOutbox ------------------------------
(* One board: app_main, and the web server with a message that takes       *)
(* longer on the air than the sender waits.                                *)
EXTENDS Outbox

CONSTANTS httpd, post

MCCaller == {Main, httpd}
MCMsg == {Baud, Addr, Greeting, post}
MCBy == [m \in MCMsg |-> IF m = post THEN httpd ELSE Main]
MCAfter == [c \in MCCaller |-> "wifi"]
MCAnswers == {<< >>, <<"+OK">>, <<"other", "+ERR">>}
=============================================================================
